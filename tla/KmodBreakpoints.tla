--------------------------- MODULE KmodBreakpoints ---------------------------
(***************************************************************************)
(* The debugger half of the kernel module (nemclass_mod/src/debugger.c):   *)
(* breakpoint slots and the event ring of ONE session (one open fd).       *)
(*                                                                         *)
(* Several threads issue BP_SET, BP_CLEAR and WAIT_EVENT on the fd at the  *)
(* same time; the traced program hits breakpoints on several CPUs; the     *)
(* last close of the fd tears everything down.  A slot is a kzalloc'd      *)
(* object: it is allocated at most once and never returns from "freed", so *)
(* any access to a freed slot stays visible.                               *)
(***************************************************************************)
EXTENDS Integers, Sequences

CONSTANTS
  Threads,     \* threads of the client that share the fd
  Cpus,        \* CPUs on which a breakpoint handler can run
  Slots,       \* the slot objects BP_SET can allocate
  NoSlot,      \* NULL
  RingDepth    \* NEMCLASS_EVENT_DEPTH

ASSUME NoSlotAssumption == NoSlot \notin Slots
ASSUME RingDepthAssumption == RingDepth \in Nat \ {0}

VARIABLES
  phase,       \* the fd: "open", "closing" (in ->release) or "closed" (session freed)
  nextSlot,    \* sess->next_slot
  slots,       \* sess->slots: the slots on the list
  ring,        \* sess->events
  mem,         \* each slot object: "none" (not yet allocated), "live" or "freed"
  id,          \* slot->id
  kind,        \* slot->kind
  hooked,      \* the kernel calls our handler for this slot (slot->hw_bp / slot->uprobe)
  inode,       \* slot->inode is set
  mm,          \* slot->target_mm is set
  inodeRef,    \* references taken (igrab) and not yet put (iput) on behalf of a slot
  mmRef,       \* likewise mmgrab / mmdrop
  taskRef,     \* likewise get_task / put_task_struct, on behalf of a thread
  pc,          \* where each thread is in its ioctl
  cur,         \* the local "slot" of BP_SET, and the slot HW unregistration waits for
  dead,        \* slots a thread is tearing down ("found" of BP_CLEAR, "dead" of release)
  needSync,    \* the local need_sync
  graceFor,    \* handlers uprobe_unregister_sync still waits for
  timeout,     \* req.timeout_ms of WAIT_EVENT, as a class ("poll" outside the call)
  hpc,         \* each CPU: "out" of a handler, "entered", or at its "wake" call
  hslot        \* the slot a running handler was given

vars == <<phase, nextSlot, slots, ring, mem, id, kind, hooked, inode, mm,
          inodeRef, mmRef, taskRef, pc, cur, dead, needSync, graceFor, timeout,
          hpc, hslot>>

sessVars == <<phase, nextSlot, slots, ring>>
pinVars == <<inode, mm, inodeRef, mmRef>>
slotVars == <<mem, id, kind, hooked, pinVars>>
teardownVars == <<dead, needSync, graceFor>>
threadVars == <<taskRef, cur, teardownVars, timeout>>     \* all but pc
handlerVars == <<hpc, hslot>>

Kinds == {"hw", "uprobe"}
Timeouts == {"poll", "timed", "forever"}
SetStages == {"id", "arm", "arm_mm", "arm_reg", "arm_fail", "insert", "reply"}
TeardownStages == {"detach", "hw_wait", "sync", "reclaim"}
WaitStages == {"wait", "sleep", "take"}
Stages == {"idle"} \cup SetStages \cup TeardownStages \cup WaitStages

\* Between get_task and put_task_struct of BP_SET.
HoldsTask == {"id", "arm", "arm_mm", "arm_reg", "arm_fail", "insert"}

Events == [id : Nat, src : Slots]     \* src is the emitting slot: a ghost

Init ==
  /\ phase = "open"
  /\ nextSlot = 0
  /\ slots = {}
  /\ ring = <<>>
  /\ mem = [s \in Slots |-> "none"]
  /\ id = [s \in Slots |-> 0]
  /\ kind = [s \in Slots |-> "hw"]
  /\ hooked = [s \in Slots |-> FALSE]
  /\ inode = [s \in Slots |-> FALSE]
  /\ mm = [s \in Slots |-> FALSE]
  /\ inodeRef = [s \in Slots |-> 0]
  /\ mmRef = [s \in Slots |-> 0]
  /\ taskRef = [t \in Threads |-> 0]
  /\ pc = [t \in Threads |-> "idle"]
  /\ cur = [t \in Threads |-> NoSlot]
  /\ dead = [t \in Threads |-> {}]
  /\ needSync = [t \in Threads |-> FALSE]
  /\ graceFor = [t \in Threads |-> {}]
  /\ timeout = [t \in Threads |-> "poll"]
  /\ hpc = [c \in Cpus |-> "out"]
  /\ hslot = [c \in Cpus |-> NoSlot]

Goto(t, stage) == pc' = [pc EXCEPT ![t] = stage]

-----------------------------------------------------------------------------
(* nemclass_bp_set.  The early failures (bad pointer, no such process, no  *)
(* memory) undo what they did and change nothing.                          *)

\* get_task, kzalloc and the field assignments: the new slot is still private.
BpSetCall(t, s, k) ==
  /\ phase = "open" /\ pc[t] = "idle" /\ mem[s] = "none"
  /\ mem' = [mem EXCEPT ![s] = "live"]
  /\ kind' = [kind EXCEPT ![s] = k]
  /\ taskRef' = [taskRef EXCEPT ![t] = @ + 1]
  /\ cur' = [cur EXCEPT ![t] = s]
  /\ Goto(t, "id")
  /\ UNCHANGED <<sessVars, id, hooked, pinVars, teardownVars, timeout, handlerVars>>

\* Mutation: next_slot is not advanced.
SameSlotAgain(n) == n

SlotAfter(n) == n + 1

\* slot->id = sess->next_slot++ under sess->lock, BEFORE arming.
BpSetId(t) ==
  /\ pc[t] = "id"
  /\ id' = [id EXCEPT ![cur[t]] = nextSlot]
  /\ nextSlot' = SlotAfter(nextSlot)
  /\ Goto(t, "arm")
  /\ UNCHANGED <<phase, slots, ring, mem, kind, hooked, pinVars, threadVars,
                 handlerVars>>

\* nemclass_resolve_file_offset returned an igrab'd inode (a local so far).
ArmUprobeResolve(t) ==
  /\ pc[t] = "arm" /\ kind[cur[t]] = "uprobe"
  /\ inodeRef' = [inodeRef EXCEPT ![cur[t]] = @ + 1]
  /\ Goto(t, "arm_mm")
  /\ UNCHANGED <<sessVars, mem, id, kind, hooked, inode, mm, mmRef, threadVars,
                 handlerVars>>

\* A bad type or length, a failed HW registration, no file mapping, or an
\* unknown kind: nothing has been acquired for the slot.
ArmRefused(t) ==
  /\ pc[t] = "arm"
  /\ Goto(t, "arm_fail")
  /\ UNCHANGED <<sessVars, slotVars, threadVars, handlerVars>>

\* get_task_mm found an address space: pin it and store both in the slot.
ArmUprobePinMm(t) ==
  /\ pc[t] = "arm_mm"
  /\ mmRef' = [mmRef EXCEPT ![cur[t]] = @ + 1]
  /\ mm' = [mm EXCEPT ![cur[t]] = TRUE]
  /\ inode' = [inode EXCEPT ![cur[t]] = TRUE]
  /\ Goto(t, "arm_reg")
  /\ UNCHANGED <<sessVars, mem, id, kind, hooked, inodeRef, threadVars, handlerVars>>

\* Mutation: a forgotten iput.
NoIput(s) == UNCHANGED inodeRef

Iput(s) == inodeRef' = [inodeRef EXCEPT ![s] = @ - 1]

\* The target exited: get_task_mm is NULL, the inode is put back.
ArmUprobeNoMm(t) ==
  /\ pc[t] = "arm_mm"
  /\ Iput(cur[t])
  /\ Goto(t, "arm_fail")
  /\ UNCHANGED <<sessVars, mem, id, kind, hooked, inode, mm, mmRef, threadVars,
                 handlerVars>>

\* register_user_hw_breakpoint, or uprobe_register, succeeded: from here on
\* handlers run for the slot.
Armed(t) ==
  /\ (pc[t] = "arm" /\ kind[cur[t]] = "hw") \/ pc[t] = "arm_reg"
  /\ hooked' = [hooked EXCEPT ![cur[t]] = TRUE]
  /\ Goto(t, "insert")
  /\ UNCHANGED <<sessVars, mem, id, kind, pinVars, threadVars, handlerVars>>

\* uprobe_register failed: mmdrop and iput, fields back to NULL.
ArmUprobeRegisterFails(t) ==
  /\ pc[t] = "arm_reg"
  /\ mmRef' = [mmRef EXCEPT ![cur[t]] = @ - 1]
  /\ mm' = [mm EXCEPT ![cur[t]] = FALSE]
  /\ Iput(cur[t])
  /\ inode' = [inode EXCEPT ![cur[t]] = FALSE]
  /\ Goto(t, "arm_fail")
  /\ UNCHANGED <<sessVars, mem, id, kind, hooked, threadVars, handlerVars>>

\* kfree(slot); put_task_struct(task); return the error.
BpSetFail(t) ==
  /\ pc[t] = "arm_fail"
  /\ mem' = [mem EXCEPT ![cur[t]] = "freed"]
  /\ taskRef' = [taskRef EXCEPT ![t] = @ - 1]
  /\ cur' = [cur EXCEPT ![t] = NoSlot]
  /\ Goto(t, "idle")
  /\ UNCHANGED <<sessVars, id, kind, hooked, pinVars, teardownVars, timeout,
                 handlerVars>>

\* list_add_tail under sess->lock, then put_task_struct.
BpSetInsert(t) ==
  /\ pc[t] = "insert"
  /\ slots' = slots \cup {cur[t]}
  /\ taskRef' = [taskRef EXCEPT ![t] = @ - 1]
  /\ Goto(t, "reply")
  /\ UNCHANGED <<phase, nextSlot, ring, slotVars, cur, teardownVars, timeout,
                 handlerVars>>

\* req.slot = slot->id, read with no lock held, and copy_to_user: on EFAULT the
\* slot stays registered.  The slot is on the list, so a BP_CLEAR may have freed
\* it by now and the id read is then arbitrary; BpSetKeepsItsSlot is about that.
BpSetReply(t) ==
  /\ pc[t] = "reply"
  /\ cur' = [cur EXCEPT ![t] = NoSlot]
  /\ Goto(t, "idle")
  /\ UNCHANGED <<sessVars, slotVars, taskRef, teardownVars, timeout, handlerVars>>

-----------------------------------------------------------------------------
(* nemclass_bp_clear and nemclass_session_free_slots.  Both take slots off *)
(* the list under the lock and then detach, wait and reclaim them with the *)
(* lock released; they differ only in how many slots they take.            *)

\* Mutation: list_del is forgotten.
NoListDel(s) == slots

ListDel(s) == slots \ {s}

\* BP_CLEAR of a number the client chose (any thread may name any slot): the
\* slot with that id leaves the list.  An id nobody has is -ENOENT, no change.
BpClearCall(t, s) ==
  /\ phase = "open" /\ pc[t] = "idle" /\ s \in slots
  /\ slots' = ListDel(s)
  /\ dead' = [dead EXCEPT ![t] = {s}]
  /\ Goto(t, "detach")
  /\ UNCHANGED <<phase, nextSlot, ring, slotVars, taskRef, cur, needSync, graceFor,
                 timeout, handlerVars>>

SlotsToFree == slots

\* ->release runs on the last reference to the fd: no ioctl is in flight.
Release(t) ==
  /\ phase = "open" /\ \A u \in Threads : pc[u] = "idle"
  /\ phase' = "closing"
  /\ dead' = [dead EXCEPT ![t] = SlotsToFree]
  /\ slots' = {}
  /\ Goto(t, "detach")
  /\ UNCHANGED <<nextSlot, ring, slotVars, taskRef, cur, needSync, graceFor, timeout,
                 handlerVars>>

\* unregister_hw_breakpoint: no new handler starts, and the call waits.
DetachHw(t, s) ==
  /\ pc[t] = "detach" /\ s \in dead[t] /\ hooked[s] /\ kind[s] = "hw"
  /\ hooked' = [hooked EXCEPT ![s] = FALSE]
  /\ cur' = [cur EXCEPT ![t] = s]
  /\ Goto(t, "hw_wait")
  /\ UNCHANGED <<sessVars, mem, id, kind, pinVars, taskRef, teardownVars, timeout,
                 handlerVars>>

HwQuiesced(t) ==
  /\ pc[t] = "hw_wait"
  /\ \A c \in Cpus : hslot[c] # cur[t]
  /\ cur' = [cur EXCEPT ![t] = NoSlot]
  /\ Goto(t, "detach")
  /\ UNCHANGED <<sessVars, slotVars, taskRef, teardownVars, timeout, handlerVars>>

\* uprobe_unregister_nosync: no new handler starts, running ones go on.
DetachUprobe(t, s) ==
  /\ pc[t] = "detach" /\ s \in dead[t] /\ hooked[s] /\ kind[s] = "uprobe"
  /\ hooked' = [hooked EXCEPT ![s] = FALSE]
  /\ needSync' = [needSync EXCEPT ![t] = TRUE]
  /\ UNCHANGED <<sessVars, mem, id, kind, pinVars, taskRef, pc, cur, dead, graceFor,
                 timeout, handlerVars>>

\* The uprobe handlers running now: what a grace period that starts now covers.
RunningUprobeHandlers == {c \in Cpus : hslot[c] # NoSlot /\ kind[hslot[c]] = "uprobe"}

\* Mutation: slots are reclaimed without uprobe_unregister_sync.
SyncNeverNeeded(t) == FALSE

SyncNeeded(t) == needSync[t]

\* The detach loop is over; uprobe_unregister_sync starts only if needed.
DetachDone(t) ==
  /\ pc[t] = "detach" /\ \A s \in dead[t] : ~hooked[s]
  /\ graceFor' = [graceFor EXCEPT ![t] = IF SyncNeeded(t) THEN RunningUprobeHandlers ELSE {}]
  /\ Goto(t, IF SyncNeeded(t) THEN "sync" ELSE "reclaim")
  /\ UNCHANGED <<sessVars, slotVars, taskRef, cur, dead, needSync, timeout,
                 handlerVars>>

SyncDone(t) ==
  /\ pc[t] = "sync" /\ graceFor[t] = {}
  /\ needSync' = [needSync EXCEPT ![t] = FALSE]
  /\ Goto(t, "reclaim")
  /\ UNCHANGED <<sessVars, slotVars, taskRef, cur, dead, graceFor, timeout,
                 handlerVars>>

\* Mutation: the reclaim loop never advances.
AllStillDead(t, s) == dead[t]

StillDead(t, s) == dead[t] \ {s}

\* nemclass_slot_reclaim: put what the slot pins, then kfree it.
SlotReclaim(t, s) ==
  /\ pc[t] = "reclaim" /\ s \in dead[t]
  /\ IF inode[s] THEN Iput(s) ELSE UNCHANGED inodeRef
  /\ inode' = [inode EXCEPT ![s] = FALSE]
  /\ mmRef' = [mmRef EXCEPT ![s] = IF mm[s] THEN @ - 1 ELSE @]
  /\ mm' = [mm EXCEPT ![s] = FALSE]
  /\ mem' = [mem EXCEPT ![s] = "freed"]
  /\ dead' = [dead EXCEPT ![t] = StillDead(t, s)]
  /\ UNCHANGED <<sessVars, id, kind, hooked, taskRef, pc, cur, needSync, graceFor,
                 timeout, handlerVars>>

\* BP_CLEAR returns; ->release frees the ring and the session.
TeardownDone(t) ==
  /\ pc[t] = "reclaim" /\ dead[t] = {}
  /\ IF phase = "closing"
       THEN phase' = "closed" /\ ring' = <<>>
       ELSE UNCHANGED <<phase, ring>>
  /\ Goto(t, "idle")
  /\ UNCHANGED <<nextSlot, slots, slotVars, threadVars, handlerVars>>

-----------------------------------------------------------------------------
(* nemclass_wait_event.  wait_event_interruptible[_timeout] re-evaluates   *)
(* its condition whenever it is woken, by a handler, the timer or a signal,*)
(* and fails only if the ring is then still empty.                         *)

\* A ring that holds an event is read at once; an empty one is -EAGAIN for a
\* zero timeout (nothing changes) and a wait otherwise.
WaitEventCall(t, m) ==
  /\ phase = "open" /\ pc[t] = "idle"
  /\ ring # <<>> \/ m # "poll"
  /\ timeout' = [timeout EXCEPT ![t] = m]
  /\ Goto(t, IF ring # <<>> THEN "take" ELSE "wait")
  /\ UNCHANGED <<sessVars, slotVars, taskRef, cur, teardownVars, handlerVars>>

\* The condition, evaluated after the thread put itself on the wait queue.
WaitEventCheck(t) ==
  /\ pc[t] = "wait"
  /\ Goto(t, IF ring # <<>> THEN "take" ELSE "sleep")
  /\ UNCHANGED <<sessVars, slotVars, threadVars, handlerVars>>

\* Mutation: an expired wait starts over.
WaitAgain == "wait"

\* The wait macros look at the ring once more before they give up.
StageAfterGivingUp == IF ring # <<>> THEN "take" ELSE "idle"

\* The timer of a positive timeout_ms fires: -ETIMEDOUT.
WaitEventTimeout(t) ==
  /\ pc[t] = "sleep" /\ timeout[t] = "timed"
  /\ Goto(t, StageAfterGivingUp)
  /\ timeout' = [timeout EXCEPT ![t] = "poll"]
  /\ UNCHANGED <<sessVars, slotVars, taskRef, cur, teardownVars, handlerVars>>

\* A signal arrives: -ERESTARTSYS.
WaitEventSignal(t) ==
  /\ pc[t] = "sleep"
  /\ Goto(t, StageAfterGivingUp)
  /\ timeout' = [timeout EXCEPT ![t] = "poll"]
  /\ UNCHANGED <<sessVars, slotVars, taskRef, cur, teardownVars, handlerVars>>

\* kfifo_out: one event, or -EAGAIN when a concurrent waiter drained the ring.
\* A copy_to_user that fails has consumed the event all the same.
WaitEventTake(t) ==
  /\ pc[t] = "take"
  /\ ring' = IF ring = <<>> THEN ring ELSE Tail(ring)
  /\ Goto(t, "idle")
  /\ timeout' = [timeout EXCEPT ![t] = "poll"]
  /\ UNCHANGED <<phase, nextSlot, slots, slotVars, taskRef, cur, teardownVars,
                 handlerVars>>

-----------------------------------------------------------------------------
(* The handlers, in trap context on the CPU that hit the breakpoint.       *)

HandlerEnter(c, s) ==
  /\ hpc[c] = "out" /\ hooked[s]
  /\ hpc' = [hpc EXCEPT ![c] = "entered"]
  /\ hslot' = [hslot EXCEPT ![c] = s]
  /\ UNCHANGED <<sessVars, slotVars, threadVars, pc>>

RingFull == Len(ring) = RingDepth

\* nemclass_emit_event: read the slot, enqueue unless the ring is full.
EmitEvent(c) ==
  /\ hpc[c] = "entered"
  /\ ring' = IF RingFull THEN ring
             ELSE Append(ring, [id |-> id[hslot[c]], src |-> hslot[c]])
  /\ hpc' = [hpc EXCEPT ![c] = "wake"]
  /\ UNCHANGED <<phase, nextSlot, slots, slotVars, threadVars, pc, hslot>>

\* Mutation: the handler returns without wake_up_interruptible.
NotWoken(stage) == stage

Woken(stage) == IF stage = "sleep" THEN "wait" ELSE stage

\* wake_up_interruptible: every sleeper re-evaluates its condition.  The
\* handler then returns, which is what a grace period waits for.
EmitWake(c) ==
  /\ hpc[c] = "wake"
  /\ pc' = [t \in Threads |-> Woken(pc[t])]
  /\ hpc' = [hpc EXCEPT ![c] = "out"]
  /\ hslot' = [hslot EXCEPT ![c] = NoSlot]
  /\ graceFor' = [t \in Threads |-> graceFor[t] \ {c}]
  /\ UNCHANGED <<sessVars, slotVars, taskRef, cur, dead, needSync, timeout>>

-----------------------------------------------------------------------------
BpSet(t) ==
  \/ \E s \in Slots, k \in Kinds : BpSetCall(t, s, k)
  \/ BpSetId(t) \/ ArmRefused(t) \/ ArmUprobeResolve(t) \/ ArmUprobePinMm(t)
  \/ ArmUprobeNoMm(t) \/ ArmUprobeRegisterFails(t) \/ Armed(t)
  \/ BpSetFail(t) \/ BpSetInsert(t) \/ BpSetReply(t)

Teardown(t) ==
  \/ \E s \in Slots : DetachHw(t, s) \/ DetachUprobe(t, s) \/ SlotReclaim(t, s)
  \/ HwQuiesced(t) \/ DetachDone(t) \/ SyncDone(t) \/ TeardownDone(t)

WaitEvent(t) ==
  \/ \E m \in Timeouts : WaitEventCall(t, m)
  \/ WaitEventCheck(t) \/ WaitEventTimeout(t)
  \/ WaitEventSignal(t) \/ WaitEventTake(t)

Handler(c) == (\E s \in Slots : HandlerEnter(c, s)) \/ EmitEvent(c) \/ EmitWake(c)

Next ==
  \/ \E t \in Threads : \/ BpSet(t) \/ Teardown(t) \/ WaitEvent(t) \/ Release(t)
                        \/ \E s \in Slots : BpClearCall(t, s)
  \/ \E c \in Cpus : Handler(c)

\* A syscall in progress and a handler in progress are run by the kernel until
\* they finish.  The timer of a timed wait keeps its deadline across wake-ups, so
\* it cannot be put off for ever (SF).  Hits, new ioctls and signals need not come.
Fairness ==
  /\ \A t \in Threads : WF_vars(Teardown(t)) /\ WF_vars(WaitEventCheck(t))
                        /\ WF_vars(WaitEventTake(t)) /\ SF_vars(WaitEventTimeout(t))
  /\ \A c \in Cpus : WF_vars(EmitEvent(c) \/ EmitWake(c))

Spec == Init /\ [][Next]_vars

FairSpec == Spec /\ Fairness

-----------------------------------------------------------------------------
(* Properties.                                                             *)

\* Every variable has its type.
TypeOK ==
  /\ phase \in {"open", "closing", "closed"}
  /\ nextSlot \in Nat
  /\ slots \subseteq Slots
  /\ ring \in Seq(Events) /\ Len(ring) <= RingDepth
  /\ mem \in [Slots -> {"none", "live", "freed"}]
  /\ id \in [Slots -> Nat]
  /\ kind \in [Slots -> Kinds]
  /\ hooked \in [Slots -> BOOLEAN]
  /\ inode \in [Slots -> BOOLEAN]
  /\ mm \in [Slots -> BOOLEAN]
  /\ inodeRef \in [Slots -> Int]
  /\ mmRef \in [Slots -> Int]
  /\ taskRef \in [Threads -> Int]
  /\ pc \in [Threads -> Stages]
  /\ cur \in [Threads -> Slots \cup {NoSlot}]
  /\ dead \in [Threads -> SUBSET Slots]
  /\ needSync \in [Threads -> BOOLEAN]
  /\ graceFor \in [Threads -> SUBSET Cpus]
  /\ timeout \in [Threads -> Timeouts]
  /\ hpc \in [Cpus -> {"out", "entered", "wake"}]
  /\ hslot \in [Cpus -> Slots \cup {NoSlot}]

\* A running handler dereferences its slot, and the session through it, at any
\* moment until it returns: neither may have been freed, however BP_CLEAR and
\* ->release interleave with it (nemclass_slot_detach's comment).
HandlersSeeLiveSlots ==
  \A c \in Cpus : hslot[c] # NoSlot => mem[hslot[c]] = "live" /\ phase # "closed"

\* An event names the slot that emitted it, even when the breakpoint fires the
\* instant it is registered (the comment above slot->id = sess->next_slot++).
EventsNameTheirSlot == \A i \in 1 .. Len(ring) : ring[i].id = id[ring[i].src]

\* Concurrent BP_SETs on one fd never hand out the same id, not even the id of a
\* slot that is gone: the client keys its bookkeeping by it.
SlotIdsNeverReused ==
  \A r, s \in Slots :
    /\ r # s /\ mem[r] # "none" /\ mem[s] # "none"
    /\ \A t \in Threads : pc[t] = "id" => cur[t] \notin {r, s}
    => id[r] # id[s]

\* The slots only thread t can reach.
Private(t) ==
  dead[t] \cup (IF pc[t] \in SetStages \ {"reply"} THEN {cur[t]} ELSE {})

\* A live slot has exactly one owner, the list or one thread, so it is torn down
\* exactly once and never leaks; the list never holds a freed slot.
OneOwner ==
  /\ \A t \in Threads : Private(t) \cap slots = {}
  /\ \A t, u \in Threads : t # u => Private(t) \cap Private(u) = {}
  /\ {s \in Slots : mem[s] = "live"} = slots \cup UNION {Private(t) : t \in Threads}

\* A reference to an inode is outstanding for s: in the slot, or still in the
\* local variable of nemclass_arm_uprobe.
InodeHeld(s) == \/ mem[s] = "live" /\ inode[s]
                \/ \E t \in Threads : pc[t] = "arm_mm" /\ cur[t] = s

\* Every igrab, mmgrab and get_task is put exactly once on every path: a slot
\* pins what its fields say and nothing once it is freed; a thread holds the
\* task exactly inside BP_SET.
ReferencesBalanced ==
  /\ \A s \in Slots : /\ inodeRef[s] = IF InodeHeld(s) THEN 1 ELSE 0
                      /\ mmRef[s] = IF mem[s] = "live" /\ mm[s] THEN 1 ELSE 0
  /\ \A t \in Threads : taskRef[t] = IF pc[t] \in HoldsTask THEN 1 ELSE 0

\* No lost wake-up: a WAIT_EVENT sleeps on a non-empty ring only while a handler
\* is still about to call wake_up_interruptible.
NoLostWakeup ==
  ring # <<>> /\ (\E t \in Threads : pc[t] = "sleep") => \E c \in Cpus : hpc[c] = "wake"

\* Once the session is freed nothing of it is left: no handler can start, no
\* slot is allocated, nothing is pinned.
ClosedIsClean ==
  phase = "closed" =>
    \A s \in Slots : ~hooked[s] /\ mem[s] # "live" /\ inodeRef[s] = 0 /\ mmRef[s] = 0

\* BP_CLEAR and ->release return, whatever handlers run meanwhile.
TeardownTerminates ==
  \A t \in Threads : pc[t] \in TeardownStages ~> pc[t] \notin TeardownStages

\* A timed WAIT_EVENT returns, however often other waiters win its events.
TimedWaitReturns ==
  \A t \in Threads :
    pc[t] \in WaitStages /\ timeout[t] = "timed" ~> pc[t] \notin WaitStages

\* BP_SET works on its own slot until it returns: no concurrent BP_CLEAR frees it
\* (the comment above the deferred list insertion; "slot stays registered").
BpSetKeepsItsSlot ==
  \A t \in Threads : pc[t] \in SetStages => mem[cur[t]] = "live"
-----------------------------------------------------------------------------
(* The session seen from outside: ids instead of slot objects.             *)

Firing(s) == hooked[s] \/ \E c \in Cpus : hslot[c] = s

\* BP_SETs that have their id and are not registered yet.
Arming(t) == pc[t] \in {"arm", "arm_mm", "arm_reg"}

Session == INSTANCE BreakpointSession WITH
  Depth <- RingDepth,
  open <- phase # "closed",
  issued <- nextSlot,
  fresh <- {id[cur[t]] : t \in {u \in Threads : Arming(u)}},
  armed <- {id[s] : s \in {r \in Slots : Firing(r)}},
  queue <- [i \in 1 .. Len(ring) |-> ring[i].id]

\* The lists, locks, grace periods and handlers of debugger.c implement the session
\* a client relies on: whatever two ioctls, a close and the handlers do to each
\* other, ids are handed out once, no hit is reported for a breakpoint that was
\* never armed or whose BP_CLEAR is over, and nothing is armed after the close.
ImplementsSession == Session!SessionSpec
=============================================================================
