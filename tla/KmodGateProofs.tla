--------------------------- MODULE KmodGateProofs ---------------------------
(***************************************************************************)
(* Proofs about KmodGate and AccessPolicy, for any tasks, users, snapshot  *)
(* objects, sessions and guess budget.                                     *)
(*                                                                         *)
(* The invariant ties the two modules together: what a task inside an RCU  *)
(* section holds and who waits for it (HeldInv), what the reload's locals  *)
(* still say about the file (StampInv), which policies a call has seen     *)
(* (SeenInv), where calls, sessions and the work item can be in the        *)
(* module's life (LifeInv), and what the unlocked counter has loaded       *)
(* (GuessInv).                                                             *)
(***************************************************************************)
EXTENDS KmodGate, TLAPS

\* A snapshot a task walks is published, or its free waits for that task.
HeldInv ==
  /\ \A t \in Threads : InRcu(t) => pc[t] \in {"open_rcu", "gated_rcu"}
  /\ \A t \in Threads, a \in Snaps : a \in held[t] =>
       snap[a].mem = "live" \/ (snap[a].mem = "retired" /\ t \in snap[a].waits)

\* The fingerprint in force or about to be is never ahead of the file, and names
\* the contents that were read or newer ones of the same version.
StampInv ==
  /\ file.stamp > 0 /\ fp <= file.stamp
  /\ work.at = "opened" =>
       /\ work.stamp <= file.stamp
       /\ file.present /\ work.stamp = file.stamp => work.users = file.users

\* Every policy that a task inside the module could ask, now or through the snapshot
\* it holds, is among those its call has seen.
SeenInv ==
  \A t \in Threads : pc[t] # "idle" =>
    /\ Policy(acl) \subseteq seen[t]
    /\ \A a \in Snaps : a \in held[t] => snap[a].users \subseteq seen[t]

LifeInv ==
  /\ mod \in {"loading", "exiting", "barrier", "gone"} =>
       /\ \A t \in Threads : pc[t] = "idle"
       /\ \A s \in Sessions : ~sess[s].open
  /\ mod \in {"barrier", "gone"} => work.at = "stopped" /\ acl = NoSnap
  /\ mod = "gone" => \A s \in Snaps : snap[s].mem # "retired"

Capped(n) == IF n < MaxFailures THEN n ELSE MaxFailures

\* A count that is recorded, or loaded and about to be stored, was earned.
GuessInv ==
  /\ \A s \in Sessions : sess[s].open => Capped(sess[s].failures) <= sess[s].guesses
                                         /\ sess[s].guesses <= MaxFailures
  /\ \A t \in Threads : pc[t] \in {"judge", "wrong"} => on[t] \in Sessions /\ sess[on[t]].open
  /\ \A t \in Threads : pc[t] = "wrong" => Capped(loaded[t] + 1) <= sess[on[t]].guesses

IInv ==
  /\ TypeOK /\ ReadersSeeLiveSnapshots /\ HeldInv /\ StampInv /\ UpToDateMeansCurrent
  /\ SeenInv /\ RevokedCallersRefused /\ LifeInv /\ GuessInv

-----------------------------------------------------------------------------
USE DEF accessVars, gateVars

\* What a step of the file, the reload or RCU promises to the calls in flight: it
\* changes no snapshot that has been published, and nothing after the module's exit.
Outside ==
  /\ held' = held
  /\ \A a \in Snaps : snap[a].mem # "none" => snap'[a].users = snap[a].users
  /\ work.at = "stopped" /\ acl = NoSnap => work'.at = "stopped" /\ acl' = NoSnap

AccessInv == AccessTypeOK /\ ReadersSeeLiveSnapshots /\ HeldInv /\ StampInv /\ UpToDateMeansCurrent

\* The steps of AccessPolicy keep its invariants.
LEMMA AccessSteps ==
  ASSUME AccessInv, EditorNext \/ ReloadNext \/ \E s \in Snaps : RcuFree(s),
         UNCHANGED <<mod, pc>>
  PROVE  AccessInv' /\ Outside
<1> USE NoSnapAssumption, MaxEditsAssumption DEF AccessInv
<1>1. ASSUME NEW U \in SUBSET Users, EditInPlace(U) PROVE AccessInv' /\ Outside
  <2> USE <1>1 DEF EditInPlace
  <2>1. AccessTypeOK'
    <3>1. file' \in [present : BOOLEAN, ino : Nat, stamp : Nat, users : SUBSET Users]
      <4>1. file \in [present : BOOLEAN, ino : Nat, stamp : Nat, users : SUBSET Users]
            /\ file.stamp + 1 \in Nat
        BY DEF AccessTypeOK
      <4>2. file' = [file EXCEPT !.stamp = file.stamp + 1, !.users = U]
        OBVIOUS
      <4> HIDE <1>1
      <4> QED
        BY <4>1, <4>2
    <3>2. work' \in [at : {"stopped", "scheduled", "reload", "opened"}, force : BOOLEAN,
                     ino : Nat, stamp : Nat, users : SUBSET Users, resched : BOOLEAN]
      BY DEF AccessTypeOK
    <3> QED
      BY <3>1, <3>2 DEF AccessTypeOK
  <2>2. (ReadersSeeLiveSnapshots /\ HeldInv)'
    BY DEF AccessTypeOK, ReadersSeeLiveSnapshots, HeldInv, InRcu
  <2>3. (StampInv /\ UpToDateMeansCurrent)'
    BY DEF AccessTypeOK, ReadersSeeLiveSnapshots, StampInv, UpToDateMeansCurrent, Policy
  <2>4. Outside
    BY DEF AccessTypeOK, ReadersSeeLiveSnapshots, Outside
  <2> QED
    BY <2>1, <2>2, <2>3, <2>4
<1>2. ASSUME NEW U \in SUBSET Users, ReplaceFile(U) PROVE AccessInv' /\ Outside
  <2> USE <1>2 DEF ReplaceFile
  <2>1. AccessTypeOK'
    BY DEF AccessTypeOK
  <2>2. (ReadersSeeLiveSnapshots /\ HeldInv)'
    BY DEF AccessTypeOK, ReadersSeeLiveSnapshots, HeldInv, InRcu
  <2>3. (StampInv /\ UpToDateMeansCurrent)'
    BY DEF AccessTypeOK, ReadersSeeLiveSnapshots, StampInv, UpToDateMeansCurrent, Policy
  <2>4. Outside
    BY DEF AccessTypeOK, ReadersSeeLiveSnapshots, Outside
  <2> QED
    BY <2>1, <2>2, <2>3, <2>4
<1>3. ASSUME RemoveFile PROVE AccessInv' /\ Outside
  <2> USE <1>3 DEF RemoveFile
  <2>1. AccessTypeOK'
    <3>1. file' \in [present : BOOLEAN, ino : Nat, stamp : Nat, users : SUBSET Users]
      <4>1. file \in [present : BOOLEAN, ino : Nat, stamp : Nat, users : SUBSET Users]
            /\ file.stamp + 1 \in Nat
        BY DEF AccessTypeOK
      <4>2. file' = [file EXCEPT !.stamp = file.stamp + 1, !.present = FALSE]
        OBVIOUS
      <4> HIDE <1>3
      <4> QED
        BY <4>1, <4>2
    <3> QED
      BY <3>1 DEF AccessTypeOK
  <2>2. (ReadersSeeLiveSnapshots /\ HeldInv)'
    BY DEF AccessTypeOK, ReadersSeeLiveSnapshots, HeldInv, InRcu
  <2>3. (StampInv /\ UpToDateMeansCurrent)'
    BY DEF AccessTypeOK, ReadersSeeLiveSnapshots, StampInv, UpToDateMeansCurrent, Policy
  <2>4. Outside
    BY DEF AccessTypeOK, ReadersSeeLiveSnapshots, Outside
  <2> QED
    BY <2>1, <2>2, <2>3, <2>4
<1>4. ASSUME SetPollMs PROVE AccessInv' /\ Outside
  <2> USE <1>4 DEF SetPollMs
  <2>1. AccessTypeOK'
    BY DEF AccessTypeOK
  <2>2. (ReadersSeeLiveSnapshots /\ HeldInv)'
    BY DEF AccessTypeOK, ReadersSeeLiveSnapshots, HeldInv, InRcu
  <2>3. (StampInv /\ UpToDateMeansCurrent)'
    BY DEF AccessTypeOK, ReadersSeeLiveSnapshots, StampInv, UpToDateMeansCurrent, Policy
  <2>4. Outside
    BY DEF AccessTypeOK, ReadersSeeLiveSnapshots, Outside
  <2> QED
    BY <2>1, <2>2, <2>3, <2>4
<1>5. ASSUME PollFires PROVE AccessInv' /\ Outside
  <2> USE <1>5 DEF PollFires
  <2>1. AccessTypeOK'
    BY DEF AccessTypeOK
  <2>2. (ReadersSeeLiveSnapshots /\ HeldInv)'
    BY DEF AccessTypeOK, ReadersSeeLiveSnapshots, HeldInv, InRcu
  <2>3. (StampInv /\ UpToDateMeansCurrent)'
    BY DEF AccessTypeOK, ReadersSeeLiveSnapshots, StampInv, UpToDateMeansCurrent, Policy
  <2>4. Outside
    BY DEF AccessTypeOK, ReadersSeeLiveSnapshots, Outside
  <2> QED
    BY <2>1, <2>2, <2>3, <2>4
<1>6. ASSUME ReloadNoFile PROVE AccessInv' /\ Outside
  <2> USE <1>6 DEF ReloadNoFile, Retire, Reloaded, Resched, Workless
  <2>1. AccessTypeOK'
    <3>1. work' \in [at : {"stopped", "scheduled", "reload", "opened"}, force : BOOLEAN,
                     ino : Nat, stamp : Nat, users : SUBSET Users, resched : BOOLEAN]
      BY DEF AccessTypeOK
    <3>2. snap' \in [Snaps -> [mem : {"none", "live", "retired", "freed"},
                               users : SUBSET Users, waits : SUBSET Threads]]
      BY DEF AccessTypeOK
    <3>3. fp' \in Nat /\ acl' \in Snaps \cup {NoSnap}
      BY DEF AccessTypeOK
    <3> QED
      BY <3>1, <3>2, <3>3 DEF AccessTypeOK
  <2>2. (ReadersSeeLiveSnapshots /\ HeldInv)'
    BY DEF AccessTypeOK, ReadersSeeLiveSnapshots, HeldInv, InRcu
  <2>3. (StampInv /\ UpToDateMeansCurrent)'
    BY DEF AccessTypeOK, ReadersSeeLiveSnapshots, StampInv, UpToDateMeansCurrent, Policy
  <2>4. Outside
    BY DEF AccessTypeOK, ReadersSeeLiveSnapshots, Outside
  <2> QED
    BY <2>1, <2>2, <2>3, <2>4
<1>7. ASSUME ReloadUnchanged PROVE AccessInv' /\ Outside
  <2> USE <1>7 DEF ReloadUnchanged, Reloaded, Resched, Workless
  <2>1. AccessTypeOK'
    BY DEF AccessTypeOK
  <2>2. (ReadersSeeLiveSnapshots /\ HeldInv)'
    BY DEF AccessTypeOK, ReadersSeeLiveSnapshots, HeldInv, InRcu
  <2>3. (StampInv /\ UpToDateMeansCurrent)'
    BY DEF AccessTypeOK, ReadersSeeLiveSnapshots, StampInv, UpToDateMeansCurrent, Policy
  <2>4. Outside
    BY DEF AccessTypeOK, ReadersSeeLiveSnapshots, Outside
  <2> QED
    BY <2>1, <2>2, <2>3, <2>4
<1>8. ASSUME ReloadStat PROVE AccessInv' /\ Outside
  <2> USE <1>8 DEF ReloadStat
  <2>1. AccessTypeOK'
    BY DEF AccessTypeOK
  <2>2. (ReadersSeeLiveSnapshots /\ HeldInv)'
    BY DEF AccessTypeOK, ReadersSeeLiveSnapshots, HeldInv, InRcu
  <2>3. (StampInv /\ UpToDateMeansCurrent)'
    BY DEF AccessTypeOK, ReadersSeeLiveSnapshots, StampInv, UpToDateMeansCurrent, Policy
  <2>4. Outside
    BY DEF AccessTypeOK, ReadersSeeLiveSnapshots, Outside
  <2> QED
    BY <2>1, <2>2, <2>3, <2>4
<1>9. ASSUME ReloadFails PROVE AccessInv' /\ Outside
  <2> USE <1>9 DEF ReloadFails, Reloaded, Resched, Workless
  <2>1. AccessTypeOK'
    BY DEF AccessTypeOK
  <2>2. (ReadersSeeLiveSnapshots /\ HeldInv)'
    BY DEF AccessTypeOK, ReadersSeeLiveSnapshots, HeldInv, InRcu
  <2>3. (StampInv /\ UpToDateMeansCurrent)'
    BY DEF AccessTypeOK, ReadersSeeLiveSnapshots, StampInv, UpToDateMeansCurrent, Policy
  <2>4. Outside
    BY DEF AccessTypeOK, ReadersSeeLiveSnapshots, Outside
  <2> QED
    BY <2>1, <2>2, <2>3, <2>4
<1>10. ASSUME NEW s \in Snaps, ReloadPublish(s) PROVE AccessInv' /\ Outside
  <2> USE <1>10 DEF ReloadPublish, Retire, Reloaded, Resched, Workless, StampToRecord
  <2>1. AccessTypeOK'
    <3>1. work' \in [at : {"stopped", "scheduled", "reload", "opened"}, force : BOOLEAN,
                     ino : Nat, stamp : Nat, users : SUBSET Users, resched : BOOLEAN]
      BY DEF AccessTypeOK
    <3>2. snap' \in [Snaps -> [mem : {"none", "live", "retired", "freed"},
                               users : SUBSET Users, waits : SUBSET Threads]]
      <4> DEFINE built == [snap EXCEPT ![s] = [mem |-> "live", users |-> work.users, waits |-> {}]]
      <4>1. built \in [Snaps -> [mem : {"none", "live", "retired", "freed"},
                                 users : SUBSET Users, waits : SUBSET Threads]]
        BY DEF AccessTypeOK
      <4>2. snap' = IF acl = NoSnap THEN built
                    ELSE [built EXCEPT ![acl].mem = "retired",
                                       ![acl].waits = {t \in Threads : InRcu(t)}]
        OBVIOUS
      <4> HIDE DEF built
      <4>3. ASSUME NEW x \in Snaps
            PROVE snap'[x] \in {built[x], [built[x] EXCEPT !.mem = "retired",
                                                          !.waits = {t \in Threads : InRcu(t)}]}
        BY <4>1, <4>2
      <4>4. snap' = [x \in Snaps |-> snap'[x]]
        BY <4>1, <4>2
      <4>5. ASSUME NEW x \in Snaps
            PROVE snap'[x] \in [mem : {"none", "live", "retired", "freed"},
                                users : SUBSET Users, waits : SUBSET Threads]
        <5>1. built[x] \in [mem : {"none", "live", "retired", "freed"},
                            users : SUBSET Users, waits : SUBSET Threads]
          BY <4>1
        <5> DEFINE W == {t \in Threads : InRcu(t)}
        <5>2. W \subseteq Threads
          OBVIOUS
        <5>3. snap'[x] = built[x] \/ snap'[x] = [built[x] EXCEPT !.mem = "retired", !.waits = W]
          BY <4>3
        <5> HIDE DEF W
        <5> HIDE <1>10
        <5> QED
          BY <5>1, <5>2, <5>3
      <4> QED
        BY <4>4, <4>5
    <3>3. fp' \in Nat /\ acl' \in Snaps \cup {NoSnap}
      BY DEF AccessTypeOK
    <3> QED
      BY <3>1, <3>2, <3>3 DEF AccessTypeOK
  <2>2. (ReadersSeeLiveSnapshots /\ HeldInv)'
    BY DEF AccessTypeOK, ReadersSeeLiveSnapshots, HeldInv, InRcu
  <2>3. (StampInv /\ UpToDateMeansCurrent)'
    BY DEF AccessTypeOK, ReadersSeeLiveSnapshots, StampInv, UpToDateMeansCurrent, Policy
  <2>4. Outside
    BY DEF AccessTypeOK, ReadersSeeLiveSnapshots, Outside
  <2> QED
    BY <2>1, <2>2, <2>3, <2>4
<1>11. ASSUME NEW s \in Snaps, RcuFree(s) PROVE AccessInv' /\ Outside
  <2> USE <1>11 DEF RcuFree
  <2>1. AccessTypeOK'
    BY DEF AccessTypeOK
  <2>2. (ReadersSeeLiveSnapshots /\ HeldInv)'
    BY DEF AccessTypeOK, ReadersSeeLiveSnapshots, HeldInv, InRcu
  <2>3. (StampInv /\ UpToDateMeansCurrent)'
    BY DEF AccessTypeOK, ReadersSeeLiveSnapshots, StampInv, UpToDateMeansCurrent, Policy
  <2>4. Outside
    BY DEF AccessTypeOK, ReadersSeeLiveSnapshots, Outside
  <2> QED
    BY <2>1, <2>2, <2>3, <2>4
<1> QED
  <2> HIDE DEF AccessInv
  <2> QED
    BY <1>1, <1>2, <1>3, <1>4, <1>5, <1>6, <1>7, <1>8, <1>9, <1>10, <1>11 DEF EditorNext, ReloadNext


LEMMA InitInv == Init => IInv
<1> SUFFICES ASSUME Init PROVE IInv
  OBVIOUS
<1> USE NoSnapAssumption, AdminAssumption, MaxFailuresAssumption DEF Init, AccessInit, FreshSession, Workless
<1>1. PICK U \in SUBSET Users, p \in BOOLEAN : file = [present |-> p, ino |-> 1, stamp |-> 1, users |-> U]
  OBVIOUS
<1>2. AccessTypeOK
  BY <1>1 DEF AccessTypeOK
<1>3. TypeOK
  BY <1>2 DEF TypeOK, Stages, Callers
<1>4. ReadersSeeLiveSnapshots /\ HeldInv /\ StampInv /\ UpToDateMeansCurrent
  BY <1>1 DEF ReadersSeeLiveSnapshots, HeldInv, InRcu, StampInv, UpToDateMeansCurrent
<1>5. SeenInv /\ RevokedCallersRefused /\ LifeInv /\ GuessInv
  BY DEF SeenInv, RevokedCallersRefused, LifeInv, GuessInv
<1> QED
  BY <1>3, <1>4, <1>5 DEF IInv

\* Every step preserves the invariant.
LEMMA StepInv == IInv /\ [Next]_vars => IInv'
<1> SUFFICES ASSUME IInv, [Next]_vars PROVE IInv'
  OBVIOUS
<1> USE NoSnapAssumption, AdminAssumption, NoSessionAssumption, MaxFailuresAssumption
<1>t. TypeOK /\ AccessInv
  BY DEF IInv, TypeOK, AccessInv
<1>0. ASSUME AccessStep PROVE IInv'
  <2>1. AccessInv' /\ Outside
    BY <1>0, <1>t, AccessSteps DEF AccessStep
  <2>2. UNCHANGED <<mod, hasKey, sess, pc, caller, on, loaded>> /\ mod # "gone"
    BY <1>0 DEF AccessStep
  <2>3. Policy(acl)' \subseteq Users
    BY <2>1 DEF AccessInv, AccessTypeOK, Policy
  <2>4. \A t \in Threads : seen'[t] = IF pc[t] = "idle" THEN {} ELSE seen[t] \cup Policy(acl)'
    BY <1>0 DEF AccessStep, Observe
  <2>5. TypeOK'
    <3>1. seen' \in [Threads -> SUBSET Users]
      BY <1>0, <1>t, <2>3 DEF AccessStep, Observe, TypeOK
    <3> QED
      BY <1>t, <2>1, <2>2, <3>1 DEF TypeOK, AccessInv
  <2>6. SeenInv'
    <3>1. \A t \in Threads, a \in Snaps : a \in held[t] => snap'[a].users = snap[a].users
      BY <2>1 DEF IInv, HeldInv, Outside
    <3> QED
      BY <2>1, <2>2, <2>4, <3>1 DEF IInv, SeenInv, Outside
  <2>7. RevokedCallersRefused'
    BY <2>2, <2>4 DEF IInv, RevokedCallersRefused
  <2>8. (LifeInv /\ GuessInv)'
    BY <2>1, <2>2 DEF IInv, LifeInv, GuessInv, Outside
  <2> QED
    BY <2>1, <2>5, <2>6, <2>7, <2>8 DEF IInv, AccessInv
<1>1. ASSUME NEW t \in Threads, CheckAdmin(t) PROVE IInv'
  <2> USE <1>1 DEF CheckAdmin, Goto, Allowed
  <2>1. TypeOK'
    BY <1>t DEF TypeOK, AccessTypeOK, Stages, Callers, Policy
  <2>2. AccessInv'
    BY <1>t, <2>1 DEF TypeOK, AccessInv, AccessTypeOK, ReadersSeeLiveSnapshots, HeldInv, InRcu,
       StampInv, UpToDateMeansCurrent, Policy
  <2>3. (SeenInv /\ RevokedCallersRefused)'
    BY <1>t DEF IInv, TypeOK, AccessTypeOK, HeldInv, InRcu, SeenInv, RevokedCallersRefused, Policy
  <2>4. LifeInv'
    BY <1>t DEF IInv, TypeOK, AccessTypeOK, LifeInv
  <2>5. GuessInv'
    BY <1>t DEF IInv, TypeOK, GuessInv, Capped
  <2> QED
    BY <2>1, <2>2, <2>3, <2>4, <2>5 DEF IInv, AccessInv
<1>2. ASSUME NEW t \in Threads, CheckBegin(t) PROVE IInv'
  <2> USE <1>2 DEF CheckBegin, CheckEnter, Goto
  <2>1. TypeOK'
    BY <1>t DEF TypeOK, AccessTypeOK, Stages, Callers, Policy
  <2>2. AccessInv'
    BY <1>t, <2>1 DEF TypeOK, AccessInv, AccessTypeOK, ReadersSeeLiveSnapshots, HeldInv, InRcu,
       StampInv, UpToDateMeansCurrent, Policy
  <2>3. (SeenInv /\ RevokedCallersRefused)'
    BY <1>t DEF IInv, TypeOK, AccessTypeOK, HeldInv, InRcu, SeenInv, RevokedCallersRefused, Policy
  <2>4. LifeInv'
    BY <1>t DEF IInv, TypeOK, AccessTypeOK, LifeInv
  <2>5. GuessInv'
    BY <1>t DEF IInv, TypeOK, GuessInv, Capped
  <2> QED
    BY <2>1, <2>2, <2>3, <2>4, <2>5 DEF IInv, AccessInv
<1>3. ASSUME NEW t \in Threads, CheckEnd(t) PROVE IInv'
  <2> USE <1>3 DEF CheckEnd, CheckLeave, Listed, Goto, Return, Allowed
  <2>0. /\ \A x \in Snaps : /\ snap'[x].mem = snap[x].mem /\ snap'[x].users = snap[x].users
                            /\ snap'[x].waits = snap[x].waits \ {t}
        /\ held'[t] = {} /\ \A x \in Threads : x # t => held'[x] = held[x]
    BY <1>t DEF TypeOK, AccessTypeOK
  <2>a. AccessTypeOK'
    <3>1. snap' \in [Snaps -> [mem : {"none", "live", "retired", "freed"},
                               users : SUBSET Users, waits : SUBSET Threads]]
      <4>1. ASSUME NEW x \in Snaps
            PROVE [snap[x] EXCEPT !.waits = @ \ {t}]
                    \in [mem : {"none", "live", "retired", "freed"},
                         users : SUBSET Users, waits : SUBSET Threads]
        BY <1>t DEF TypeOK, AccessTypeOK
      <4> QED
        BY <4>1
    <3> QED
      BY <1>t, <3>1 DEF TypeOK, AccessTypeOK
  <2>1. TypeOK'
    BY <1>t, <2>a DEF TypeOK, Stages, Callers
  <2>2. AccessInv'
    <3>1. (ReadersSeeLiveSnapshots /\ HeldInv)'
      BY <1>t, <2>0 DEF TypeOK, AccessInv, AccessTypeOK, ReadersSeeLiveSnapshots, HeldInv, InRcu
    <3>2. (StampInv /\ UpToDateMeansCurrent)'
      BY <1>t, <2>0 DEF TypeOK, AccessInv, AccessTypeOK, StampInv, UpToDateMeansCurrent, Policy
    <3> QED
      BY <2>a, <3>1, <3>2 DEF AccessInv
  <2>3. (SeenInv /\ RevokedCallersRefused)'
    <3>1. Listed(t, caller[t]) => caller[t] \in seen[t]
      <4> SUFFICES ASSUME NEW a \in held[t], caller[t] \in Policy(a) PROVE caller[t] \in seen[t]
        OBVIOUS
      <4>1. a \in Snaps
        BY <1>t DEF TypeOK, AccessTypeOK, Policy
      <4> QED
        BY <4>1 DEF IInv, SeenInv, Policy
    <3>2. Policy(acl)' = Policy(acl)
      BY <1>t, <2>0 DEF TypeOK, AccessTypeOK, Policy
    <3>3. RevokedCallersRefused'
      <4> HIDE DEF Listed
      <4> QED
        BY <1>t, <3>1 DEF IInv, TypeOK, RevokedCallersRefused
    <3>4. SeenInv'
      <4> HIDE DEF Listed
      <4> QED
        BY <1>t, <2>0, <3>2 DEF IInv, TypeOK, SeenInv
    <3> QED
      BY <3>3, <3>4
  <2>4. LifeInv'
    BY <1>t DEF IInv, TypeOK, AccessTypeOK, LifeInv
  <2>5. GuessInv'
    BY <1>t DEF IInv, TypeOK, GuessInv, Capped
  <2> QED
    BY <2>1, <2>2, <2>3, <2>4, <2>5 DEF IInv, AccessInv
<1>4. ASSUME NEW t \in Threads, NEW u \in Callers, OpenCall(t, u) PROVE IInv'
  <2> USE <1>4 DEF OpenCall, Call
  <2>1. TypeOK'
    BY <1>t DEF TypeOK, AccessTypeOK, Stages, Callers, Policy
  <2>2. AccessInv'
    BY <1>t, <2>1 DEF TypeOK, AccessInv, AccessTypeOK, ReadersSeeLiveSnapshots, HeldInv, InRcu,
       StampInv, UpToDateMeansCurrent, Policy
  <2>3. (SeenInv /\ RevokedCallersRefused)'
    BY <1>t DEF IInv, TypeOK, AccessTypeOK, HeldInv, InRcu, SeenInv, RevokedCallersRefused, Policy
  <2>4. LifeInv'
    BY <1>t DEF IInv, TypeOK, AccessTypeOK, LifeInv
  <2>5. GuessInv'
    BY <1>t DEF IInv, TypeOK, GuessInv, Capped
  <2> QED
    BY <2>1, <2>2, <2>3, <2>4, <2>5 DEF IInv, AccessInv
<1>5. ASSUME NEW t \in Threads, NEW s \in Sessions, OpenDone(t, s) PROVE IInv'
  <2> USE <1>5 DEF OpenDone, Return, FreshSession
  <2>1. TypeOK'
    BY <1>t DEF TypeOK, AccessTypeOK, Stages, Callers, Policy
  <2>2. AccessInv'
    BY <1>t, <2>1 DEF TypeOK, AccessInv, AccessTypeOK, ReadersSeeLiveSnapshots, HeldInv, InRcu,
       StampInv, UpToDateMeansCurrent, Policy
  <2>3. (SeenInv /\ RevokedCallersRefused)'
    BY <1>t DEF IInv, TypeOK, AccessTypeOK, HeldInv, InRcu, SeenInv, RevokedCallersRefused, Policy
  <2>4. LifeInv'
    BY <1>t DEF IInv, TypeOK, AccessTypeOK, LifeInv
  <2>5. GuessInv'
    BY <1>t DEF IInv, TypeOK, GuessInv, Capped
  <2> QED
    BY <2>1, <2>2, <2>3, <2>4, <2>5 DEF IInv, AccessInv
<1>6. ASSUME NEW t \in Threads, OpenNoMemory(t) PROVE IInv'
  <2> USE <1>6 DEF OpenNoMemory, Return
  <2>1. TypeOK'
    BY <1>t DEF TypeOK, AccessTypeOK, Stages, Callers, Policy
  <2>2. AccessInv'
    BY <1>t, <2>1 DEF TypeOK, AccessInv, AccessTypeOK, ReadersSeeLiveSnapshots, HeldInv, InRcu,
       StampInv, UpToDateMeansCurrent, Policy
  <2>3. (SeenInv /\ RevokedCallersRefused)'
    BY <1>t DEF IInv, TypeOK, AccessTypeOK, HeldInv, InRcu, SeenInv, RevokedCallersRefused, Policy
  <2>4. LifeInv'
    BY <1>t DEF IInv, TypeOK, AccessTypeOK, LifeInv
  <2>5. GuessInv'
    BY <1>t DEF IInv, TypeOK, GuessInv, Capped
  <2> QED
    BY <2>1, <2>2, <2>3, <2>4, <2>5 DEF IInv, AccessInv
<1>7. ASSUME NEW s \in Sessions, Release(s) PROVE IInv'
  <2> USE <1>7 DEF Release
  <2>1. TypeOK'
    <3> DEFINE R == [open : BOOLEAN, authed : BOOLEAN, failures : Nat, guesses : Nat]
               r == [sess[s] EXCEPT !.open = FALSE]
    <3>1. sess \in [Sessions -> R] /\ s \in Sessions
      BY <1>t DEF IInv, TypeOK, GuessInv
    <3>2. r \in R
      <4>1. sess[s] \in R
        BY <3>1
      <4> QED
        BY <4>1
    <3>3. sess' = [sess EXCEPT ![s] = r]
      BY <3>1
    <3>4. sess' \in [Sessions -> R]
      <4> HIDE DEF R, r
      <4> QED
        BY <3>1, <3>2, <3>3
    <3> QED
      BY <1>t, <3>4 DEF TypeOK, AccessTypeOK, Stages, Callers
  <2>2. AccessInv'
    BY <1>t, <2>1 DEF TypeOK, AccessInv, AccessTypeOK, ReadersSeeLiveSnapshots, HeldInv, InRcu,
       StampInv, UpToDateMeansCurrent, Policy
  <2>3. (SeenInv /\ RevokedCallersRefused)'
    BY <1>t DEF IInv, TypeOK, AccessTypeOK, HeldInv, InRcu, SeenInv, RevokedCallersRefused, Policy
  <2>4. LifeInv'
    BY <1>t DEF IInv, TypeOK, AccessTypeOK, LifeInv
  <2>5. GuessInv'
    BY <1>t DEF IInv, TypeOK, GuessInv, Capped
  <2> QED
    BY <2>1, <2>2, <2>3, <2>4, <2>5 DEF IInv, AccessInv
<1>8. ASSUME NEW t \in Threads, NEW u \in Callers, NEW s \in Sessions, AuthCall(t, u, s) PROVE IInv'
  <2> USE <1>8 DEF AuthCall, Call, Locked
  <2>1. TypeOK'
    BY <1>t DEF TypeOK, AccessTypeOK, Stages, Callers, Policy
  <2>2. AccessInv'
    BY <1>t, <2>1 DEF TypeOK, AccessInv, AccessTypeOK, ReadersSeeLiveSnapshots, HeldInv, InRcu,
       StampInv, UpToDateMeansCurrent, Policy
  <2>3. (SeenInv /\ RevokedCallersRefused)'
    BY <1>t DEF IInv, TypeOK, AccessTypeOK, HeldInv, InRcu, SeenInv, RevokedCallersRefused, Policy
  <2>4. LifeInv'
    BY <1>t DEF IInv, TypeOK, AccessTypeOK, LifeInv
  <2>5. GuessInv'
    BY <1>t DEF IInv, TypeOK, GuessInv, Capped
  <2> QED
    BY <2>1, <2>2, <2>3, <2>4, <2>5 DEF IInv, AccessInv
<1>9. ASSUME NEW t \in Threads, AuthRight(t) PROVE IInv'
  <2> USE <1>9 DEF AuthRight, Return
  <2>1. TypeOK'
    <3> DEFINE R == [open : BOOLEAN, authed : BOOLEAN, failures : Nat, guesses : Nat]
               r == [sess[on[t]] EXCEPT !.authed = TRUE, !.failures = 0]
    <3>1. sess \in [Sessions -> R] /\ on[t] \in Sessions
      BY <1>t DEF IInv, TypeOK, GuessInv
    <3>2. r \in R
      <4>1. sess[on[t]] \in R
        BY <3>1
      <4> QED
        BY <4>1
    <3>3. sess' = [sess EXCEPT ![on[t]] = r]
      BY <3>1
    <3>4. sess' \in [Sessions -> R]
      <4> HIDE DEF R, r
      <4> QED
        BY <3>1, <3>2, <3>3
    <3> QED
      BY <1>t, <3>4 DEF TypeOK, AccessTypeOK, Stages, Callers
  <2>2. AccessInv'
    BY <1>t, <2>1 DEF TypeOK, AccessInv, AccessTypeOK, ReadersSeeLiveSnapshots, HeldInv, InRcu,
       StampInv, UpToDateMeansCurrent, Policy
  <2>3. (SeenInv /\ RevokedCallersRefused)'
    BY <1>t DEF IInv, TypeOK, AccessTypeOK, HeldInv, InRcu, SeenInv, RevokedCallersRefused, Policy
  <2>4. LifeInv'
    BY <1>t DEF IInv, TypeOK, AccessTypeOK, LifeInv
  <2>5. GuessInv'
    BY <1>t DEF IInv, TypeOK, GuessInv, Capped
  <2> QED
    BY <2>1, <2>2, <2>3, <2>4, <2>5 DEF IInv, AccessInv
<1>10. ASSUME NEW t \in Threads, AuthWrong(t) PROVE IInv'
  <2> USE <1>10 DEF AuthWrong
  <2>1. TypeOK'
    <3> DEFINE R == [open : BOOLEAN, authed : BOOLEAN, failures : Nat, guesses : Nat]
               r == [sess[on[t]] EXCEPT !.guesses = IF @ < MaxFailures THEN @ + 1 ELSE @]
    <3>1. sess \in [Sessions -> R] /\ on[t] \in Sessions
      BY <1>t DEF IInv, TypeOK, GuessInv
    <3>2. r \in R
      <4>1. sess[on[t]] \in R
        BY <3>1
      <4> QED
        BY <4>1
    <3>3. sess' = [sess EXCEPT ![on[t]] = r]
      BY <3>1
    <3>4. sess' \in [Sessions -> R]
      <4> HIDE DEF R, r
      <4> QED
        BY <3>1, <3>2, <3>3
    <3> QED
      BY <1>t, <3>4 DEF TypeOK, AccessTypeOK, Stages, Callers
  <2>2. AccessInv'
    BY <1>t, <2>1 DEF TypeOK, AccessInv, AccessTypeOK, ReadersSeeLiveSnapshots, HeldInv, InRcu,
       StampInv, UpToDateMeansCurrent, Policy
  <2>3. (SeenInv /\ RevokedCallersRefused)'
    BY <1>t DEF IInv, TypeOK, AccessTypeOK, HeldInv, InRcu, SeenInv, RevokedCallersRefused, Policy
  <2>4. LifeInv'
    BY <1>t DEF IInv, TypeOK, AccessTypeOK, LifeInv
  <2>5. GuessInv'
    BY <1>t DEF IInv, TypeOK, GuessInv, Capped
  <2> QED
    BY <2>1, <2>2, <2>3, <2>4, <2>5 DEF IInv, AccessInv
<1>11. ASSUME NEW t \in Threads, AuthCount(t) PROVE IInv'
  <2> USE <1>11 DEF AuthCount, Return
  <2>1. TypeOK'
    <3> DEFINE R == [open : BOOLEAN, authed : BOOLEAN, failures : Nat, guesses : Nat]
               r == [sess[on[t]] EXCEPT !.failures = loaded[t] + 1]
    <3>1. sess \in [Sessions -> R] /\ on[t] \in Sessions
      BY <1>t DEF IInv, TypeOK, GuessInv
    <3>2. r \in R
      <4>1. sess[on[t]] \in R
        BY <3>1
      <4>2. loaded[t] + 1 \in Nat
        BY <1>t DEF TypeOK
      <4> QED
        BY <4>1, <4>2
    <3>3. sess' = [sess EXCEPT ![on[t]] = r]
      BY <3>1
    <3>4. sess' \in [Sessions -> R]
      <4> HIDE DEF R, r
      <4> QED
        BY <3>1, <3>2, <3>3
    <3> QED
      BY <1>t, <3>4 DEF TypeOK, AccessTypeOK, Stages, Callers
  <2>2. AccessInv'
    BY <1>t, <2>1 DEF TypeOK, AccessInv, AccessTypeOK, ReadersSeeLiveSnapshots, HeldInv, InRcu,
       StampInv, UpToDateMeansCurrent, Policy
  <2>3. (SeenInv /\ RevokedCallersRefused)'
    BY <1>t DEF IInv, TypeOK, AccessTypeOK, HeldInv, InRcu, SeenInv, RevokedCallersRefused, Policy
  <2>4. LifeInv'
    BY <1>t DEF IInv, TypeOK, AccessTypeOK, LifeInv
  <2>5. GuessInv'
    BY <1>t DEF IInv, TypeOK, GuessInv, Capped
  <2> QED
    BY <2>1, <2>2, <2>3, <2>4, <2>5 DEF IInv, AccessInv
<1>12. ASSUME NEW t \in Threads, NEW u \in Callers, NEW s \in Sessions, IoctlCall(t, u, s) PROVE IInv'
  <2> USE <1>12 DEF IoctlCall, Call, FirstGatedStage
  <2>1. TypeOK'
    BY <1>t DEF TypeOK, AccessTypeOK, Stages, Callers, Policy
  <2>2. AccessInv'
    BY <1>t, <2>1 DEF TypeOK, AccessInv, AccessTypeOK, ReadersSeeLiveSnapshots, HeldInv, InRcu,
       StampInv, UpToDateMeansCurrent, Policy
  <2>3. (SeenInv /\ RevokedCallersRefused)'
    BY <1>t DEF IInv, TypeOK, AccessTypeOK, HeldInv, InRcu, SeenInv, RevokedCallersRefused, Policy
  <2>4. LifeInv'
    BY <1>t DEF IInv, TypeOK, AccessTypeOK, LifeInv
  <2>5. GuessInv'
    BY <1>t DEF IInv, TypeOK, GuessInv, Capped
  <2> QED
    BY <2>1, <2>2, <2>3, <2>4, <2>5 DEF IInv, AccessInv
<1>13. ASSUME NEW t \in Threads, Op(t) PROVE IInv'
  <2> USE <1>13 DEF Op, Return
  <2>1. TypeOK'
    BY <1>t DEF TypeOK, AccessTypeOK, Stages, Callers, Policy
  <2>2. AccessInv'
    BY <1>t, <2>1 DEF TypeOK, AccessInv, AccessTypeOK, ReadersSeeLiveSnapshots, HeldInv, InRcu,
       StampInv, UpToDateMeansCurrent, Policy
  <2>3. (SeenInv /\ RevokedCallersRefused)'
    BY <1>t DEF IInv, TypeOK, AccessTypeOK, HeldInv, InRcu, SeenInv, RevokedCallersRefused, Policy
  <2>4. LifeInv'
    BY <1>t DEF IInv, TypeOK, AccessTypeOK, LifeInv
  <2>5. GuessInv'
    BY <1>t DEF IInv, TypeOK, GuessInv, Capped
  <2> QED
    BY <2>1, <2>2, <2>3, <2>4, <2>5 DEF IInv, AccessInv
<1>14. ASSUME AttachCreated PROVE IInv'
  <2> USE <1>14 DEF AttachCreated
  <2>1. TypeOK'
    BY <1>t DEF TypeOK, AccessTypeOK, Stages, Callers, Policy
  <2>2. AccessInv'
    BY <1>t, <2>1 DEF TypeOK, AccessInv, AccessTypeOK, ReadersSeeLiveSnapshots, HeldInv, InRcu,
       StampInv, UpToDateMeansCurrent, Policy
  <2>3. (SeenInv /\ RevokedCallersRefused)'
    BY <1>t DEF IInv, TypeOK, AccessTypeOK, HeldInv, InRcu, SeenInv, RevokedCallersRefused, Policy
  <2>4. LifeInv'
    BY <1>t DEF IInv, TypeOK, AccessTypeOK, LifeInv
  <2>5. GuessInv'
    BY <1>t DEF IInv, TypeOK, GuessInv, Capped
  <2> QED
    BY <2>1, <2>2, <2>3, <2>4, <2>5 DEF IInv, AccessInv
<1>15. ASSUME InitFails PROVE IInv'
  <2> USE <1>15 DEF InitFails
  <2>1. TypeOK'
    BY <1>t DEF TypeOK, AccessTypeOK, Stages, Callers, Policy
  <2>2. AccessInv'
    BY <1>t, <2>1 DEF TypeOK, AccessInv, AccessTypeOK, ReadersSeeLiveSnapshots, HeldInv, InRcu,
       StampInv, UpToDateMeansCurrent, Policy
  <2>3. (SeenInv /\ RevokedCallersRefused)'
    BY <1>t DEF IInv, TypeOK, AccessTypeOK, HeldInv, InRcu, SeenInv, RevokedCallersRefused, Policy
  <2>4. LifeInv'
    BY <1>t DEF IInv, TypeOK, AccessTypeOK, LifeInv
  <2>5. GuessInv'
    BY <1>t DEF IInv, TypeOK, GuessInv, Capped
  <2> QED
    BY <2>1, <2>2, <2>3, <2>4, <2>5 DEF IInv, AccessInv
<1>16. ASSUME ProcRemove PROVE IInv'
  <2> USE <1>16 DEF ProcRemove
  <2>1. TypeOK'
    BY <1>t DEF TypeOK, AccessTypeOK, Stages, Callers, Policy
  <2>2. AccessInv'
    BY <1>t, <2>1 DEF TypeOK, AccessInv, AccessTypeOK, ReadersSeeLiveSnapshots, HeldInv, InRcu,
       StampInv, UpToDateMeansCurrent, Policy
  <2>3. (SeenInv /\ RevokedCallersRefused)'
    BY <1>t DEF IInv, TypeOK, AccessTypeOK, HeldInv, InRcu, SeenInv, RevokedCallersRefused, Policy
  <2>4. LifeInv'
    BY <1>t DEF IInv, TypeOK, AccessTypeOK, LifeInv
  <2>5. GuessInv'
    BY <1>t DEF IInv, TypeOK, GuessInv, Capped
  <2> QED
    BY <2>1, <2>2, <2>3, <2>4, <2>5 DEF IInv, AccessInv
<1>17. ASSUME ProcRemoved PROVE IInv'
  <2> USE <1>17 DEF ProcRemoved
  <2>1. TypeOK'
    <3>1. sess' \in [Sessions -> [open : BOOLEAN, authed : BOOLEAN, failures : Nat, guesses : Nat]]
      <4>1. ASSUME NEW s \in Sessions
            PROVE [sess[s] EXCEPT !.open = FALSE]
                    \in [open : BOOLEAN, authed : BOOLEAN, failures : Nat, guesses : Nat]
        <5>1. sess[s] \in [open : BOOLEAN, authed : BOOLEAN, failures : Nat, guesses : Nat]
          BY <1>t DEF TypeOK
        <5> QED
          BY <5>1
      <4> QED
        BY <4>1
    <3> QED
      BY <1>t, <3>1 DEF TypeOK, AccessTypeOK
  <2>2. AccessInv'
    BY <1>t, <2>1 DEF TypeOK, AccessInv, AccessTypeOK, ReadersSeeLiveSnapshots, HeldInv, InRcu,
       StampInv, UpToDateMeansCurrent, Policy
  <2>3. (SeenInv /\ RevokedCallersRefused)'
    BY <1>t DEF IInv, TypeOK, AccessTypeOK, HeldInv, InRcu, SeenInv, RevokedCallersRefused, Policy
  <2>4. LifeInv'
    BY <1>t DEF IInv, TypeOK, AccessTypeOK, LifeInv
  <2>5. GuessInv'
    BY <1>t DEF IInv, TypeOK, GuessInv, Capped
  <2> QED
    BY <2>1, <2>2, <2>3, <2>4, <2>5 DEF IInv, AccessInv
<1>18. ASSUME AccessExit PROVE IInv'
  <2> USE <1>18 DEF AccessExit, CancelAndUnpublish, Retire, Workless
  <2>0. /\ acl' = NoSnap /\ held' = held
        /\ \A x \in Snaps : /\ snap'[x].users = snap[x].users
                            /\ IF x = acl THEN snap'[x].mem = "retired" /\ snap'[x].waits = {t \in Threads : InRcu(t)}
                               ELSE snap'[x] = snap[x]
    BY <1>t DEF TypeOK, AccessTypeOK
  <2>1. TypeOK'
    <3>1. snap' \in [Snaps -> [mem : {"none", "live", "retired", "freed"},
                               users : SUBSET Users, waits : SUBSET Threads]]
      BY <1>t DEF TypeOK, AccessTypeOK
    <3>2. work' \in [at : {"stopped", "scheduled", "reload", "opened"}, force : BOOLEAN,
                     ino : Nat, stamp : Nat, users : SUBSET Users, resched : BOOLEAN]
      OBVIOUS
    <3> QED
      BY <1>t, <3>1, <3>2 DEF TypeOK, AccessTypeOK
  <2>2. AccessInv'
    <3>1. (ReadersSeeLiveSnapshots /\ HeldInv)'
      BY <1>t, <2>0 DEF TypeOK, AccessInv, AccessTypeOK, ReadersSeeLiveSnapshots, HeldInv, InRcu
    <3>2. (StampInv /\ UpToDateMeansCurrent)'
      BY <1>t DEF AccessInv, AccessTypeOK, StampInv, UpToDateMeansCurrent
    <3> QED
      BY <2>1, <3>1, <3>2 DEF AccessInv, TypeOK
  <2>3. (SeenInv /\ RevokedCallersRefused)'
    BY <1>t DEF IInv, TypeOK, AccessTypeOK, HeldInv, InRcu, SeenInv, RevokedCallersRefused, Policy
  <2>4. LifeInv'
    BY <1>t DEF IInv, TypeOK, AccessTypeOK, LifeInv
  <2>5. GuessInv'
    BY <1>t DEF IInv, TypeOK, GuessInv, Capped
  <2> QED
    BY <2>1, <2>2, <2>3, <2>4, <2>5 DEF IInv, AccessInv
<1>19. ASSUME Gone PROVE IInv'
  <2> USE <1>19 DEF Gone, RcuBarrierDone
  <2>1. TypeOK'
    BY <1>t DEF TypeOK, AccessTypeOK, Stages, Callers, Policy
  <2>2. AccessInv'
    BY <1>t, <2>1 DEF TypeOK, AccessInv, AccessTypeOK, ReadersSeeLiveSnapshots, HeldInv, InRcu,
       StampInv, UpToDateMeansCurrent, Policy
  <2>3. (SeenInv /\ RevokedCallersRefused)'
    BY <1>t DEF IInv, TypeOK, AccessTypeOK, HeldInv, InRcu, SeenInv, RevokedCallersRefused, Policy
  <2>4. LifeInv'
    BY <1>t DEF IInv, TypeOK, AccessTypeOK, LifeInv
  <2>5. GuessInv'
    BY <1>t DEF IInv, TypeOK, GuessInv, Capped
  <2> QED
    BY <2>1, <2>2, <2>3, <2>4, <2>5 DEF IInv, AccessInv
<1>20. ASSUME UNCHANGED vars PROVE IInv'
  BY <1>20 DEF vars, IInv, TypeOK, AccessTypeOK, ReadersSeeLiveSnapshots, HeldInv, InRcu, StampInv,
     UpToDateMeansCurrent, Policy, SeenInv, RevokedCallersRefused, LifeInv, GuessInv
<1> QED
  BY <1>0, <1>1, <1>2, <1>3, <1>4, <1>5, <1>6, <1>7, <1>8, <1>9, <1>10, <1>11, <1>12, <1>13, <1>14, <1>15, <1>16, <1>17, <1>18, <1>19, <1>20
     DEF Next, TaskCall, TaskStep, ModuleNext

\* What the properties below need holds in every state of every behaviour.
THEOREM AlwaysIInv == Spec => []IInv
  BY InitInv, StepInv, PTL DEF Spec

\* Every variable of the gate and of the allowlist keeps its type.
THEOREM TypeCorrect == Spec => []TypeOK
<1>1. IInv => TypeOK
  BY DEF IInv
<1> QED
  BY <1>1, AlwaysIInv, PTL

\* No reader of the allowlist walks freed memory and no allowlist is leaked, for any
\* number of readers and reloads.
THEOREM ReadersSafe == Spec => []ReadersSeeLiveSnapshots
<1>1. IInv => ReadersSeeLiveSnapshots
  BY DEF IInv
<1> QED
  BY <1>1, AlwaysIInv, PTL

\* A fingerprint that equals the file's means that the file's policy is in force: an
\* edit that races a reload is loaded by the next poll.
THEOREM NoLostEdit == Spec => []UpToDateMeansCurrent
<1>1. IInv => UpToDateMeansCurrent
  BY DEF IInv
<1> QED
  BY <1>1, AlwaysIInv, PTL

\* A privileged operation runs only for a caller that a policy in force during its
\* call allowed.
THEOREM GateHolds == Spec => []RevokedCallersRefused
<1>1. IInv => RevokedCallersRefused
  BY DEF IInv
<1> QED
  BY <1>1, AlwaysIInv, PTL

\* The unlocked failure counter never locks an fd before its budget is used up.
THEOREM LockEarned == Spec => []LockIsEarned
<1>1. IInv => LockIsEarned
  <2> SUFFICES ASSUME IInv, NEW s \in Sessions, sess[s].open, sess[s].failures >= MaxFailures
               PROVE  sess[s].guesses = MaxFailures
    BY DEF LockIsEarned, Locked
  <2>1. sess[s].failures \in Nat /\ sess[s].guesses \in Nat
    BY DEF IInv, TypeOK
  <2>2. Capped(sess[s].failures) <= sess[s].guesses /\ sess[s].guesses <= MaxFailures
    BY DEF IInv, GuessInv
  <2> QED
    BY <2>1, <2>2, MaxFailuresAssumption DEF Capped
<1> QED
  BY <1>1, AlwaysIInv, PTL

\* After nemclass_exit nothing of the module is left to run.
THEOREM UnloadClean == Spec => []UnloadedIsClean
<1>1. IInv => UnloadedIsClean
  <2> SUFFICES ASSUME IInv, mod = "gone"
               PROVE  /\ \A t \in Threads : pc[t] = "idle" /\ ~InRcu(t)
                      /\ work.at = "stopped"
                      /\ \A s \in Snaps : snap[s].mem \in {"none", "freed"}
                      /\ \A s \in Sessions : ~sess[s].open
    BY DEF UnloadedIsClean
  <2>1. \A t \in Threads : pc[t] = "idle" /\ ~InRcu(t)
    BY DEF IInv, LifeInv, HeldInv
  <2>2. \A s \in Snaps : snap[s].mem \in {"none", "freed"}
    BY NoSnapAssumption DEF IInv, LifeInv, ReadersSeeLiveSnapshots, TypeOK, AccessTypeOK
  <2> QED
    BY <2>1, <2>2 DEF IInv, LifeInv
<1> QED
  BY <1>1, AlwaysIInv, PTL
=============================================================================
