-------------------------- MODULE BreakpointSession --------------------------
(***************************************************************************)
(* What one open fd of nemclass_mod promises its client about breakpoints, *)
(* with the locks, references and grace periods of debugger.c left out:    *)
(* ids are handed out once, a breakpoint fires only between its BP_SET and *)
(* the end of its BP_CLEAR, hits queue up in order and closing the fd      *)
(* leaves nothing armed.  KmodBreakpoints implements it; DebuggerClient    *)
(* relies on it.                                                           *)
(***************************************************************************)
EXTENDS Integers, Sequences

CONSTANT Depth        \* NEMCLASS_EVENT_DEPTH

VARIABLES
  open,        \* the fd and its session exist
  issued,      \* how many ids were handed out: 0 .. issued - 1
  fresh,       \* ids of BP_SETs under way that are not armed yet
  armed,       \* ids whose handler can run or is running
  queue        \* the ids of the hits nobody has taken yet

sessionVars == <<open, issued, fresh, armed, queue>>

SessionInit ==
  /\ open = TRUE
  /\ issued = 0
  /\ fresh = {} /\ armed = {}
  /\ queue = <<>>

\* Mutation: the id of a breakpoint that is gone is given to the next one.
LowestFreeId == CHOOSE i \in 0 .. issued : i \notin armed \cup fresh
                  /\ \A j \in 0 .. (i - 1) : j \in armed \cup fresh

NewId == issued

Issue ==
  /\ open
  /\ issued' = issued + 1
  /\ fresh' = fresh \cup {NewId}
  /\ UNCHANGED <<open, armed, queue>>

Refuse(i) ==
  /\ i \in fresh
  /\ fresh' = fresh \ {i}
  /\ UNCHANGED <<open, issued, armed, queue>>

Arm(i) ==
  /\ i \in fresh
  /\ fresh' = fresh \ {i}
  /\ armed' = armed \cup {i}
  /\ UNCHANGED <<open, issued, queue>>

Disarm(i) ==
  /\ i \in armed
  /\ armed' = armed \ {i}
  /\ UNCHANGED <<open, issued, fresh, queue>>

\* A hit that finds the queue full is dropped: the newest is lost, not the oldest.
Hit(i) ==
  /\ i \in armed /\ Len(queue) < Depth
  /\ queue' = Append(queue, i)
  /\ UNCHANGED <<open, issued, fresh, armed>>

Take ==
  /\ queue # <<>>
  /\ queue' = Tail(queue)
  /\ UNCHANGED <<open, issued, fresh, armed>>

Close ==
  /\ open /\ fresh = {} /\ armed = {}
  /\ open' = FALSE /\ queue' = <<>>
  /\ UNCHANGED <<issued, fresh, armed>>

SessionNext ==
  \/ Issue \/ Take \/ Close
  \/ \E i \in fresh : Refuse(i) \/ Arm(i)
  \/ \E i \in armed : Disarm(i) \/ Hit(i)

SessionSpec == SessionInit /\ [][SessionNext]_sessionVars
=============================================================================
