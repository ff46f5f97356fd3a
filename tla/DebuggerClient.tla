--------------------------- MODULE DebuggerClient ---------------------------
(***************************************************************************)
(* The user-space debugger (kernel/client.rs, kernel/debugger.rs) and the  *)
(* panel that drives it (views/debugger_panel.rs), on top of the session   *)
(* the kernel module promises.  The Debugger is used by one thread, the    *)
(* traced program hits breakpoints at any time, and an administrator may   *)
(* revoke the caller's access between two ioctls.                          *)
(***************************************************************************)
EXTENDS BreakpointSession, SequencesExt

CONSTANTS
  Addrs,       \* addresses the user types
  MaxIds,      \* bound: BP_SETs per session
  MaxEvents,   \* MAX_EVENTS of the panel's log
  LogBound,    \* bound: longest log explored (a failing poll is not trimmed)
  I32Max,      \* i32::MAX, small
  BpKinds,     \* the kinds of breakpoint the instance sets
  BpLens       \* the lengths it asks for

ASSUME BoundsAssumption ==
  /\ MaxIds \in Nat /\ I32Max \in Nat \ {0}
  /\ MaxEvents \in Nat \ {0} /\ LogBound > MaxEvents
  /\ BpKinds \subseteq {"Execute", "HW-Write", "HW-Read", "HW-Access", "Uprobe"}

VARIABLES
  call,        \* what the Debugger's thread is in: an ioctl, or "none" / "idle"
  allowed,     \* the gate lets this caller through
  bps,         \* Debugger.breakpoints
  kspec,       \* what the kernel was asked to arm, per id
  log,         \* DebuggerPanel.events
  clearFailed  \* ghost: some BP_CLEAR of this session was refused

clientVars == <<call, allowed, bps, kspec, log, clearFailed>>
dbgVars == <<sessionVars, clientVars>>

Lens == {1, 2, 4, 8}

\* BreakpointSpec: one constructor per kind; an execute breakpoint has length 1.
Hardware(ty, addr, len) == [label |-> ty, addr |-> addr, len |-> len]
UprobeSpec(addr) == [label |-> "Uprobe", addr |-> addr, len |-> 0]

\* BpKind::to_spec: only watchpoints take the length the user chose.
ToSpec(label, addr, len) ==
  CASE label = "Uprobe" -> UprobeSpec(addr)
    [] label = "Execute" -> Hardware(label, addr, 1)
    [] OTHER -> Hardware(label, addr, len)

ValidateHwLen(spec) == spec.label = "Uprobe" \/ spec.len \in Lens

\* The call in progress: "none" (no debugger), "idle", or an ioctl with its argument.
Call(op, arg) == [op |-> op, arg |-> arg]
NoDebugger == Call("none", 0)
Idle == Call("idle", 0)
NoSpec == [label |-> "Unknown", addr |-> 0, len |-> 0]

DbgInit ==
  /\ SessionInit
  /\ call = NoDebugger /\ allowed = TRUE
  /\ bps = <<>> /\ kspec = <<>> /\ log = <<>> /\ clearFailed = FALSE

KernelSteps == UNCHANGED clientVars
Enters(op, arg) == call' = Call(op, arg)

-----------------------------------------------------------------------------
(* Attach and detach.                                                      *)

\* KernelClient::open: a new fd is a new session.
OpenDevice ==
  /\ call = NoDebugger
  /\ open' = TRUE /\ issued' = 0 /\ fresh' = {} /\ armed' = {} /\ queue' = <<>>
  /\ Enters("check_abi", 0)
  /\ kspec' = <<>> /\ clearFailed' = FALSE
  /\ UNCHANGED <<allowed, bps, log>>

\* A failed step of Debugger::attach drops the client, and with it the fd; the panel
\* shows the error and has no debugger.
AttachFails ==
  /\ call.op \in {"check_abi", "auth"} /\ Close
  /\ call' = NoDebugger
  /\ UNCHANGED <<allowed, bps, kspec, log, clearFailed>>

\* check_abi comes before auth: the layout of every later ioctl depends on it.
CheckAbi ==
  /\ call.op = "check_abi"
  /\ Enters("auth", 0)
  /\ UNCHANGED <<sessionVars, allowed, bps, kspec, log, clearFailed>>

Auth ==
  /\ call.op = "auth" /\ allowed
  /\ call' = Idle
  /\ bps' = <<>> /\ log' = <<>>
  /\ UNCHANGED <<sessionVars, allowed, kspec, clearFailed>>

\* on_detach, by the button or because the app left the process: dropping the
\* Debugger closes the fd, and close returns once every slot is torn down.
OnDetach ==
  /\ call = Idle
  /\ Enters("close", 0)
  /\ bps' = <<>> /\ log' = <<>>
  /\ UNCHANGED <<sessionVars, allowed, kspec, clearFailed>>

OnDetachReturns ==
  /\ call.op = "close" /\ Close
  /\ call' = NoDebugger
  /\ UNCHANGED <<allowed, bps, kspec, log, clearFailed>>

-----------------------------------------------------------------------------
(* Breakpoints.                                                            *)

\* BP_SET, with the request the spec is encoded into.
BpSetIoctl(spec) ==
  /\ allowed /\ issued < MaxIds
  /\ Issue
  /\ kspec' = [i \in DOMAIN kspec \cup {NewId} |-> IF i = NewId THEN spec ELSE kspec[i]]
  /\ Enters("set", NewId)

\* set_breakpoint: a bad length never reaches the kernel.
SetBreakpoint(spec) ==
  /\ call = Idle
  /\ ValidateHwLen(spec)
  /\ BpSetIoctl(spec)
  /\ UNCHANGED <<allowed, bps, log, clearFailed>>

\* do_set_breakpoint: an address that does not parse, or a bad length, is an error
\* on screen and nothing else.
DoSetBreakpoint(label, addr, len) == SetBreakpoint(ToSpec(label, addr, len))

\* The ioctl succeeded: remember the slot under its id.
SetReturns ==
  /\ call.op = "set" /\ call.arg \notin fresh
  /\ bps' = IF call.arg \in armed
              THEN Append(bps, [id |-> call.arg, spec |-> kspec[call.arg]])
              ELSE bps
  /\ call' = Idle
  /\ UNCHANGED <<sessionVars, allowed, kspec, log, clearFailed>>

\* Mutation: the last breakpoint is forgotten, whichever was cleared.
WithoutLast(i) == Front(bps)

\* Vec::remove of the position that was found.
WithoutIndex(i) == RemoveAt(bps, i)

\* The gate may refuse BP_CLEAR; otherwise the call blocks until the slot is gone.
BpClearIoctl(i) ==
  IF allowed THEN Enters("clear", i) /\ UNCHANGED clearFailed
             ELSE UNCHANGED call /\ clearFailed' = TRUE

\* clear_breakpoint: the bookkeeping goes first, then the ioctl.
ClearBreakpoint(i) ==
  /\ call = Idle
  /\ bps' = WithoutIndex(i)
  /\ BpClearIoctl(bps[i].id)
  /\ UNCHANGED <<sessionVars, allowed, kspec, log>>

\* The Clear buttons: one per breakpoint that breakpoints() lists.
ShowBpControls == \E i \in 1 .. Len(bps) : ClearBreakpoint(i)

\* BP_CLEAR is over, also when the slot was gone (ENOENT).
ClearReturns ==
  /\ call.op = "clear" /\ call.arg \notin armed
  /\ call' = Idle
  /\ UNCHANGED <<sessionVars, allowed, bps, kspec, log, clearFailed>>

-----------------------------------------------------------------------------
(* Events.                                                                 *)

\* breakpoint_spec: the first entry with this id.
BreakpointSpecOf(i) ==
  LET at == SelectInSeq(bps, LAMBDA b : b.id = i)
  IN IF at = 0 THEN NoSpec ELSE bps[at].spec

\* decode_event: the hit and the spec the bookkeeping has for it now.
DecodeEvent(i) == [breakpoint |-> i, spec |-> BreakpointSpecOf(i)]

\* EventEntry::from_event: what the log keeps of a hit; Message is the other variant.
FromEvent(ev) == [id |-> ev.breakpoint, label |-> ev.spec.label]
Message == [id |-> -1, label |-> "message"]

Trimmed(entries) ==
  IF Len(entries) > MaxEvents
    THEN SubSeq(entries, Len(entries) - MaxEvents + 1, Len(entries)) ELSE entries

\* tick_events: a poll that finds a hit logs it and trims the log; an empty poll
\* does nothing.
TickEvents ==
  /\ call = Idle /\ allowed
  /\ Take
  /\ log' = Trimmed(Append(log, FromEvent(DecodeEvent(Head(queue)))))
  /\ UNCHANGED <<call, allowed, bps, kspec, clearFailed>>

\* A poll that fails is logged as well, but that log is not trimmed.
TickEventsFails ==
  /\ call = Idle /\ ~allowed /\ Len(log) < LogBound
  /\ log' = Append(log, Message)
  /\ UNCHANGED <<sessionVars, call, allowed, bps, kspec, clearFailed>>

ClearLog ==
  /\ call.op \in {"none", "idle"} /\ log # <<>>
  /\ log' = <<>>
  /\ UNCHANGED <<sessionVars, call, allowed, bps, kspec, clearFailed>>

Forever == -1

\* Millisecond counts around the two edges of the conversion.
Durations == {0, 1, I32Max, I32Max + 1}

\* wait_event's conversion of Some(d): whole milliseconds, clamped to the i32 field.
TimeoutMs(d) == IF d > I32Max THEN I32Max ELSE d

\* WAIT_EVENT on an empty queue: a zero timeout is a poll and returns EAGAIN at
\* once, any other waits in the kernel.
WaitEventIoctl(ms) ==
  /\ call = Idle /\ allowed /\ queue = <<>> /\ ms # 0
  /\ Enters("wait", ms)
  /\ UNCHANGED <<sessionVars, allowed, bps, kspec, log, clearFailed>>

\* Debugger::wait_event.
WaitEvent == WaitEventIoctl(Forever) \/ \E d \in Durations : WaitEventIoctl(TimeoutMs(d))

\* A hit: decoded for the caller of wait_event, who has the bookkeeping of this instant.
WaitReturns ==
  /\ call.op = "wait"
  /\ Take
  /\ call' = Idle
  /\ log' = Trimmed(Append(log, FromEvent(DecodeEvent(Head(queue)))))
  /\ UNCHANGED <<allowed, bps, kspec, clearFailed>>

\* ETIMEDOUT is Ok(None); a negative timeout_ms has no timer.
WaitTimesOut ==
  /\ call.op = "wait" /\ call.arg >= 0 /\ queue = <<>>
  /\ call' = Idle
  /\ UNCHANGED <<sessionVars, allowed, bps, kspec, log, clearFailed>>

-----------------------------------------------------------------------------
(* The kernel.                                                             *)

KernelArms == \E i \in fresh : (Arm(i) \/ Refuse(i)) /\ KernelSteps
KernelHits == \E i \in armed : Hit(i) /\ KernelSteps

\* Slots are torn down only for a BP_CLEAR of theirs or for the close.
KernelDisarms ==
  \E i \in armed : /\ call = Call("clear", i) \/ call.op = "close"
                   /\ Disarm(i) /\ KernelSteps

\* The administrator edits the allowlist; the gate looks at it on every ioctl.
GateChanges ==
  /\ allowed' = ~allowed
  /\ UNCHANGED <<sessionVars, call, bps, kspec, log, clearFailed>>

UserSteps ==
  \/ OpenDevice \/ AttachFails \/ CheckAbi \/ Auth
  \/ OnDetach \/ OnDetachReturns
  \/ \E l \in BpKinds, a \in Addrs, n \in BpLens : DoSetBreakpoint(l, a, n)
  \/ SetReturns \/ ClearReturns
  \/ ShowBpControls
  \/ TickEvents \/ TickEventsFails \/ ClearLog
  \/ WaitEvent \/ WaitReturns \/ WaitTimesOut

DbgNext == UserSteps \/ KernelArms \/ KernelHits \/ KernelDisarms \/ GateChanges

DbgSpec == DbgInit /\ [][DbgNext]_dbgVars

-----------------------------------------------------------------------------
Tracked == {bps[i].id : i \in 1 .. Len(bps)}

\* Between two calls, what breakpoints() lists is what the kernel has armed on the
\* fd: every listed breakpoint is armed as listed and, unless a BP_CLEAR was
\* refused, every armed one is listed, so none fires without a way to clear it.
ListTracksSession ==
  call = Idle =>
    /\ \A i \in 1 .. Len(bps) : bps[i].id \in armed /\ bps[i].spec = kspec[bps[i].id]
    /\ ~clearFailed => Tracked = armed

\* A hit in the log names the kind of the breakpoint that fired, or "Unknown" when
\* that breakpoint has been cleared since; it never borrows the kind of another
\* breakpoint, not even one that was set after the first was cleared.
HitsDecodeRight ==
  \A i \in 1 .. Len(log) :
    LET e == log[i]
    IN e # Message => \/ e.label = kspec[e.id].label
                      \/ e.label = "Unknown" /\ e.id \notin Tracked
=============================================================================
