------------------------------ MODULE KmodGate ------------------------------
(***************************************************************************)
(* nemclass_mod/src/main.c: opening /proc/nemclass/attach, the key         *)
(* handshake, the gate in front of every privileged ioctl, and module load *)
(* and unload, composed with the allowlist of AccessPolicy.                *)
(*                                                                         *)
(* Any task may call with any credentials on any open fd: a descriptor can *)
(* be inherited or passed on.  What a privileged operation does once the   *)
(* gate let it through belongs to other modules; here it is the stage "op".*)
(***************************************************************************)
EXTENDS AccessPolicy

CONSTANTS
  Sessions,      \* the fds: a closed one may be opened again, with a fresh session
  NoSession,
  Admin,         \* a caller with CAP_SYS_ADMIN
  MaxFailures    \* NEMCLASS_AUTH_MAX_FAILURES

ASSUME NoSessionAssumption == NoSession \notin Sessions
ASSUME AdminAssumption == Admin \notin Users
ASSUME MaxFailuresAssumption == MaxFailures \in Nat

VARIABLES
  mod,           \* the module's life: loading, up, removing, exiting, barrier, gone
  hasKey,        \* nemclass_key_len # 0
  sess,          \* each fd: open, authed, auth_failures; ghost: the wrong guesses made
                 \* on it since it was opened, counted up to MaxFailures
  pc,            \* where each task is in ->open or ->ioctl
  caller,        \* current's credentials in that call
  on,            \* the fd of that call
  loaded,        \* auth_failures as read by the increment of a wrong guess
  seen           \* ghost: users some policy allowed since the task's call began

gateVars == <<mod, hasKey, sess, pc, caller, on, loaded, seen>>
vars == <<accessVars, gateVars>>

Callers == Users \cup {Admin}
Stages == {"idle", "open", "open_rcu", "opened", "judge", "wrong",
           "gated", "gated_rcu", "op"}

FreshSession == [open |-> TRUE, authed |-> FALSE, failures |-> 0, guesses |-> 0]

\* parse_key has run: either no key was given or a valid one was.
Init ==
  /\ AccessInit
  /\ mod = "loading"
  /\ hasKey \in BOOLEAN
  /\ sess = [s \in Sessions |-> [FreshSession EXCEPT !.open = FALSE]]
  /\ pc = [t \in Threads |-> "idle"]
  /\ caller = [t \in Threads |-> Admin]
  /\ on = [t \in Threads |-> NoSession]
  /\ loaded = [t \in Threads |-> 0]
  /\ seen = [t \in Threads |-> {}]

\* The call is over and its locals are gone.
Return(t) ==
  /\ pc' = [pc EXCEPT ![t] = "idle"]
  /\ caller' = [caller EXCEPT ![t] = Admin]
  /\ on' = [on EXCEPT ![t] = NoSession]
  /\ loaded' = [loaded EXCEPT ![t] = 0]
  /\ seen' = [seen EXCEPT ![t] = {}]

Goto(t, stage) ==
  /\ pc' = [pc EXCEPT ![t] = stage]
  /\ UNCHANGED <<caller, on, loaded, seen>>

\* proc entry counting: a call enters the module only while the entry is there.
Call(t, u, s, stage) ==
  /\ mod = "up" /\ pc[t] = "idle"
  /\ pc' = [pc EXCEPT ![t] = stage]
  /\ caller' = [caller EXCEPT ![t] = u]
  /\ on' = [on EXCEPT ![t] = s]
  /\ seen' = [seen EXCEPT ![t] = Policy(acl)]
  /\ UNCHANGED loaded

-----------------------------------------------------------------------------
(* nemclass_access_check_open, called from ->open and from ->ioctl.        *)

Allowed(t) == IF pc[t] \in {"open", "open_rcu"} THEN "opened" ELSE "op"

CheckAdmin(t) ==
  /\ pc[t] \in {"open", "gated"} /\ caller[t] = Admin
  /\ Goto(t, Allowed(t))
  /\ UNCHANGED <<accessVars, mod, hasKey, sess>>

CheckBegin(t) ==
  /\ pc[t] \in {"open", "gated"} /\ caller[t] # Admin
  /\ CheckEnter(t)
  /\ Goto(t, IF pc[t] = "open" THEN "open_rcu" ELSE "gated_rcu")
  /\ UNCHANGED <<mod, hasKey, sess>>

CheckEnd(t) ==
  /\ pc[t] \in {"open_rcu", "gated_rcu"}
  /\ CheckLeave(t)
  /\ IF Listed(t, caller[t]) THEN Goto(t, Allowed(t)) ELSE Return(t)
  /\ UNCHANGED <<mod, hasKey, sess>>

-----------------------------------------------------------------------------
(* nemclass_open and nemclass_release.                                     *)

OpenCall(t, u) ==
  /\ Call(t, u, NoSession, "open")
  /\ UNCHANGED <<accessVars, mod, hasKey, sess>>

OpenDone(t, s) ==
  /\ pc[t] = "opened" /\ ~sess[s].open
  /\ sess' = [sess EXCEPT ![s] = FreshSession]
  /\ Return(t)
  /\ UNCHANGED <<accessVars, mod, hasKey>>

\* kzalloc or kfifo_alloc failed: everything so far is undone.
OpenNoMemory(t) ==
  /\ pc[t] = "opened"
  /\ Return(t)
  /\ UNCHANGED <<accessVars, mod, hasKey, sess>>

\* The last reference to the fd is gone, so no call is running on it.
Release(s) ==
  /\ mod \in {"up", "removing"} /\ sess[s].open
  /\ \A t \in Threads : on[t] # s
  /\ sess' = [sess EXCEPT ![s].open = FALSE]
  /\ UNCHANGED <<accessVars, mod, hasKey, pc, caller, on, loaded, seen>>

-----------------------------------------------------------------------------
(* nemclass_do_auth.  auth_failures is a plain field that no lock guards.  *)

\* Mutation: the guess that uses up the budget is not allowed any more.
LockedEarly(s) == sess[s].failures + 1 >= MaxFailures

Locked(s) == sess[s].failures >= MaxFailures

\* A call without a configured key, or on a locked fd, is refused at once.
AuthCall(t, u, s) ==
  /\ sess[s].open /\ hasKey /\ ~Locked(s)
  /\ Call(t, u, s, "judge")
  /\ UNCHANGED <<accessVars, mod, hasKey, sess>>

AuthRight(t) ==
  /\ pc[t] = "judge"
  /\ sess' = [sess EXCEPT ![on[t]].authed = TRUE, ![on[t]].failures = 0]
  /\ Return(t)
  /\ UNCHANGED <<accessVars, mod, hasKey>>

\* auth_failures++ is a load and a store that another task can come between.
AuthWrong(t) ==
  /\ pc[t] = "judge"
  /\ loaded' = [loaded EXCEPT ![t] = sess[on[t]].failures]
  /\ sess' = [sess EXCEPT ![on[t]].guesses = IF @ < MaxFailures THEN @ + 1 ELSE @]
  /\ pc' = [pc EXCEPT ![t] = "wrong"]
  /\ UNCHANGED <<accessVars, mod, hasKey, caller, on, seen>>

AuthCount(t) ==
  /\ pc[t] = "wrong"
  /\ sess' = [sess EXCEPT ![on[t]].failures = loaded[t] + 1]
  /\ Return(t)
  /\ UNCHANGED <<accessVars, mod, hasKey>>

-----------------------------------------------------------------------------
(* nemclass_ioctl: VERSION answers without the gate and changes nothing.   *)

\* Mutation: the caller's place on the allowlist is not asserted again.
StraightToOp == "op"

FirstGatedStage == "gated"

IoctlCall(t, u, s) ==
  /\ sess[s].open /\ sess[s].authed
  /\ Call(t, u, s, FirstGatedStage)
  /\ UNCHANGED <<accessVars, mod, hasKey, sess>>

\* The privileged operation, done.
Op(t) ==
  /\ pc[t] = "op"
  /\ Return(t)
  /\ UNCHANGED <<accessVars, mod, hasKey, sess>>

-----------------------------------------------------------------------------
(* nemclass_init after its synchronous load, and nemclass_exit.            *)

\* /proc/nemclass/attach exists: calls can come in.
AttachCreated ==
  /\ mod = "loading" /\ ~work.force
  /\ mod' = "up"
  /\ UNCHANGED <<accessVars, hasKey, sess, pc, caller, on, loaded, seen>>

\* proc_mkdir or proc_create failed: err_access.
InitFails ==
  /\ mod = "loading" /\ ~work.force
  /\ mod' = "exiting"
  /\ UNCHANGED <<accessVars, hasKey, sess, pc, caller, on, loaded, seen>>

\* rmmod, or /proc/nemclass/acl could not be created: no new calls from here on.
ProcRemove ==
  /\ mod = "up"
  /\ mod' = "removing"
  /\ UNCHANGED <<accessVars, hasKey, sess, pc, caller, on, loaded, seen>>

\* proc_remove has waited for the calls inside and released the open fds.
ProcRemoved ==
  /\ mod = "removing" /\ \A t \in Threads : pc[t] = "idle"
  /\ sess' = [s \in Sessions |-> [sess[s] EXCEPT !.open = FALSE]]
  /\ mod' = "exiting"
  /\ UNCHANGED <<accessVars, hasKey, pc, caller, on, loaded, seen>>

AccessExit ==
  /\ mod = "exiting"
  /\ CancelAndUnpublish
  /\ mod' = "barrier"
  /\ UNCHANGED <<hasKey, sess, pc, caller, on, loaded, seen>>

\* Mutation: nemclass_access_exit returns without rcu_barrier.
NoBarrier == TRUE

RcuBarrierDone == \A s \in Snaps : snap[s].mem # "retired"

Gone ==
  /\ mod = "barrier" /\ RcuBarrierDone
  /\ mod' = "gone"
  /\ UNCHANGED <<accessVars, hasKey, sess, pc, caller, on, loaded, seen>>

-----------------------------------------------------------------------------
\* The ghost follows every policy that comes into force during a call.
Observe ==
  seen' = [t \in Threads |-> IF pc[t] = "idle" THEN {} ELSE seen[t] \cup Policy(acl)']

AccessStep ==
  /\ EditorNext \/ ReloadNext \/ \E s \in Snaps : RcuFree(s)
  /\ mod # "gone"
  /\ Observe
  /\ UNCHANGED <<mod, hasKey, sess, pc, caller, on, loaded>>

TaskStep(t) ==
  \/ CheckAdmin(t) \/ CheckBegin(t) \/ CheckEnd(t)
  \/ OpenNoMemory(t) \/ AuthRight(t) \/ AuthWrong(t) \/ AuthCount(t) \/ Op(t)
  \/ \E s \in Sessions : OpenDone(t, s)

TaskCall(t) ==
  \E u \in Callers :
    \/ OpenCall(t, u)
    \/ \E s \in Sessions : AuthCall(t, u, s) \/ IoctlCall(t, u, s)

ModuleNext ==
  AttachCreated \/ InitFails \/ ProcRemove \/ ProcRemoved \/ AccessExit \/ Gone

Next ==
  \/ AccessStep
  \/ \E t \in Threads : TaskCall(t) \/ TaskStep(t)
  \/ \E s \in Sessions : Release(s)
  \/ ModuleNext

Spec == Init /\ [][Next]_vars

\* The kernel runs the work item again after its delay and finishes a reload it
\* began; memory and readable files come back, so a reload does not fail for ever.
FairSpec ==
  /\ Spec
  /\ WF_vars(AccessStep /\ ReloadNext)
  /\ SF_vars(AccessStep /\ \E s \in Snaps : ReloadPublish(s))

-----------------------------------------------------------------------------
TypeOK ==
  /\ AccessTypeOK
  /\ mod \in {"loading", "up", "removing", "exiting", "barrier", "gone"}
  /\ hasKey \in BOOLEAN
  /\ sess \in [Sessions -> [open : BOOLEAN, authed : BOOLEAN, failures : Nat, guesses : Nat]]
  /\ pc \in [Threads -> Stages]
  /\ caller \in [Threads -> Callers]
  /\ on \in [Threads -> Sessions \cup {NoSession}]
  /\ loaded \in [Threads -> Nat]
  /\ seen \in [Threads -> SUBSET Users]

\* A privileged operation runs only for an administrator or for a user that some
\* policy in force during this very call allowed: a user dropped from the config
\* before the call is refused, even on a descriptor that was authenticated earlier.
RevokedCallersRefused ==
  \A t \in Threads : pc[t] = "op" => caller[t] \in seen[t] \cup {Admin}

\* If the recorded fingerprint says "nothing to do", the policy in force really is
\* what the file says: an edit that races a reload is not lost, because the
\* fingerprint is read before the contents.
UpToDateMeansCurrent ==
  mod \in {"loading", "up", "removing"} /\ file.present /\ fp = file.stamp
    => Policy(acl) = file.users

\* An fd is locked only after as many wrong guesses on it as the budget has: however
\* stores of stale counts, resets and reopens of the fd interleave, the unlocked
\* counter never locks a client out early.
LockIsEarned ==
  \A s \in Sessions : sess[s].open /\ Locked(s) => sess[s].guesses = MaxFailures

\* Once the module's text is gone nothing of it can run: no task is inside, no work
\* item is queued or running, no RCU callback is pending and no allowlist is left.
UnloadedIsClean ==
  mod = "gone" =>
    /\ \A t \in Threads : pc[t] = "idle" /\ ~InRcu(t)
    /\ work.at = "stopped"
    /\ \A s \in Snaps : snap[s].mem \in {"none", "freed"}
    /\ \A s \in Sessions : ~sess[s].open

\* What the config file asks for is in force.
PolicyIsCurrent == Policy(acl) = IF file.present THEN file.users ELSE {}

\* When the file stops changing, its contents come into force, unless polling was
\* switched off or the module is on its way out.
EditsTakeEffect == <>[](mod # "up" \/ work.at = "stopped" \/ PolicyIsCurrent)
=============================================================================
