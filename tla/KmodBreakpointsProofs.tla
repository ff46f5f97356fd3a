------------------------ MODULE KmodBreakpointsProofs ------------------------
(***************************************************************************)
(* Proofs about KmodBreakpoints, for any number of threads, CPUs and slots *)
(* and any ring depth.                                                     *)
(*                                                                         *)
(* None of the safety properties is inductive.  The conjuncts below say    *)
(* who owns a slot at every moment (OwnerInv), where a hooked slot and a   *)
(* running handler can be in the teardown protocol (HookInv, HandlerInv),  *)
(* what ->release may assume (PhaseInv), and when a slot has its id and    *)
(* its pins (NumberInv, PinInv).                                           *)
(***************************************************************************)
EXTENDS KmodBreakpoints, TLAPS

\* Thread t is the one that will publish or free s.
Mine(t, s) == \/ s \in dead[t]
              \/ pc[t] \in SetStages \ {"reply"} /\ cur[t] = s

LocalInv ==
  \A t \in Threads :
    /\ pc[t] \in SetStages => cur[t] \in Slots
    /\ pc[t] = "hw_wait" => cur[t] \in dead[t]
    /\ dead[t] # {} => pc[t] \in TeardownStages

OwnerInv ==
  /\ \A t \in Threads, s \in slots : ~Mine(t, s)
  /\ \A t, u \in Threads, s \in Slots : Mine(t, s) /\ Mine(u, s) => t = u
  /\ \A s \in Slots : mem[s] = "live" <=> s \in slots \/ \E t \in Threads : Mine(t, s)

\* A slot the kernel calls handlers for is listed, about to be, or being detached.
HookInv ==
  \A s \in Slots : hooked[s] =>
    \/ s \in slots
    \/ \E t \in Threads : \/ pc[t] = "insert" /\ cur[t] = s
                          \/ pc[t] \in {"detach", "hw_wait"} /\ s \in dead[t]

\* Thread t still waits, or will still wait, for the handler of s on CPU c.
WaitsFor(t, c, s) ==
  /\ s \in dead[t]
  /\ \/ kind[s] = "hw" /\ pc[t] = "hw_wait" /\ cur[t] = s
     \/ kind[s] = "uprobe" /\ pc[t] \in {"detach", "hw_wait"} /\ needSync[t]
     \/ kind[s] = "uprobe" /\ pc[t] = "sync" /\ c \in graceFor[t]

HandlerInv ==
  \A c \in Cpus :
    /\ hslot[c] = NoSlot <=> hpc[c] = "out"
    /\ hslot[c] # NoSlot => hooked[hslot[c]] \/ \E t \in Threads : WaitsFor(t, c, hslot[c])

PhaseInv ==
  /\ phase # "open" => slots = {} /\ \A t \in Threads : pc[t] \in {"idle"} \cup TeardownStages
  /\ phase = "closing" => \A t, u \in Threads : pc[t] # "idle" /\ pc[u] # "idle" => t = u
  /\ phase = "closed" => \A t \in Threads : pc[t] = "idle"

\* The slot has been through slot->id = sess->next_slot++.
Numbered(s) == mem[s] # "none" /\ \A t \in Threads : pc[t] = "id" => cur[t] # s

IdInv ==
  /\ \A s \in Slots : Numbered(s) => id[s] < nextSlot
  /\ \A r, s \in Slots : Numbered(r) /\ Numbered(s) /\ r # s => id[r] # id[s]

EventInv ==
  \A i \in 1 .. Len(ring), s \in Slots :
    ring[i].src = s => Numbered(s) /\ ring[i].id = id[s]

NumberInv == IdInv /\ EventInv

PinInv ==
  /\ \A s \in Slots : mem[s] # "live" => ~inode[s] /\ ~mm[s]
  /\ \A t \in Threads : pc[t] \in {"id", "arm", "arm_mm", "arm_fail"} =>
                          ~inode[cur[t]] /\ ~mm[cur[t]]
  /\ \A t \in Threads : pc[t] = "arm_reg" => inode[cur[t]] /\ mm[cur[t]]
  /\ ReferencesBalanced

SafeInv == LocalInv /\ OwnerInv /\ HookInv /\ HandlerInv /\ PhaseInv

IInv == TypeOK /\ SafeInv /\ NumberInv /\ PinInv /\ NoLostWakeup
-----------------------------------------------------------------------------
\* Every initial state satisfies the inductive invariant.
LEMMA InitIInv == Init => IInv
<1> SUFFICES ASSUME Init PROVE IInv
  OBVIOUS
<1> USE NoSlotAssumption, RingDepthAssumption
<1>1. TypeOK
  BY DEF Init, TypeOK, Stages, Kinds, Timeouts, Events
<1>2. SafeInv
  BY DEF Init, SafeInv, LocalInv, OwnerInv, HookInv, HandlerInv, PhaseInv, Mine, SetStages,
         TeardownStages
<1>3. NumberInv
  BY DEF Init, NumberInv, IdInv, EventInv, Numbered
<1>4. PinInv
  BY DEF Init, PinInv, ReferencesBalanced, InodeHeld, HoldsTask
<1>5. NoLostWakeup
  BY DEF Init, NoLostWakeup
<1>6. QED
  BY <1>1, <1>2, <1>3, <1>4, <1>5 DEF IInv

\* Every step preserves the types.
LEMMA TypeStep == TypeOK /\ LocalInv /\ HandlerInv /\ [Next]_vars => TypeOK'
<1> SUFFICES ASSUME TypeOK, LocalInv, HandlerInv, [Next]_vars PROVE TypeOK'
  OBVIOUS
<1> USE NoSlotAssumption, RingDepthAssumption DEF TypeOK, Events, Kinds, Timeouts,
            Stages, SetStages, TeardownStages, WaitStages, Goto, sessVars, pinVars,
            slotVars, teardownVars, threadVars, handlerVars
<1>1. ASSUME NEW t \in Threads, NEW s \in Slots, NEW k \in Kinds, BpSetCall(t, s, k) PROVE TypeOK'
  BY <1>1 DEF BpSetCall
<1>2. ASSUME NEW t \in Threads, BpSetId(t) PROVE TypeOK'
  BY <1>2 DEF BpSetId, SlotAfter, LocalInv
<1>3. ASSUME NEW t \in Threads, ArmRefused(t) PROVE TypeOK'
  BY <1>3 DEF ArmRefused
<1>4. ASSUME NEW t \in Threads, ArmUprobeResolve(t) PROVE TypeOK'
  BY <1>4 DEF ArmUprobeResolve, LocalInv
<1>5. ASSUME NEW t \in Threads, ArmUprobePinMm(t) PROVE TypeOK'
  BY <1>5 DEF ArmUprobePinMm, LocalInv
<1>6. ASSUME NEW t \in Threads, ArmUprobeNoMm(t) PROVE TypeOK'
  BY <1>6 DEF ArmUprobeNoMm, Iput, LocalInv
<1>7. ASSUME NEW t \in Threads, ArmUprobeRegisterFails(t) PROVE TypeOK'
  BY <1>7 DEF ArmUprobeRegisterFails, Iput, LocalInv
<1>8. ASSUME NEW t \in Threads, Armed(t) PROVE TypeOK'
  BY <1>8 DEF Armed, LocalInv
<1>9. ASSUME NEW t \in Threads, BpSetFail(t) PROVE TypeOK'
  BY <1>9 DEF BpSetFail, LocalInv
<1>10. ASSUME NEW t \in Threads, BpSetInsert(t) PROVE TypeOK'
  BY <1>10 DEF BpSetInsert, LocalInv
<1>11. ASSUME NEW t \in Threads, BpSetReply(t) PROVE TypeOK'
  BY <1>11 DEF BpSetReply
<1>12. ASSUME NEW t \in Threads, NEW s \in Slots, BpClearCall(t, s) PROVE TypeOK'
  BY <1>12 DEF BpClearCall, ListDel
<1>13. ASSUME NEW t \in Threads, Release(t) PROVE TypeOK'
  BY <1>13 DEF Release, SlotsToFree
<1>14. ASSUME NEW t \in Threads, NEW s \in Slots, DetachHw(t, s) PROVE TypeOK'
  BY <1>14 DEF DetachHw
<1>15. ASSUME NEW t \in Threads, NEW s \in Slots, DetachUprobe(t, s) PROVE TypeOK'
  BY <1>15 DEF DetachUprobe
<1>16. ASSUME NEW t \in Threads, NEW s \in Slots, SlotReclaim(t, s) PROVE TypeOK'
  BY <1>16 DEF SlotReclaim, Iput, StillDead
<1>17. ASSUME NEW t \in Threads, HwQuiesced(t) PROVE TypeOK'
  BY <1>17 DEF HwQuiesced
<1>18. ASSUME NEW t \in Threads, DetachDone(t) PROVE TypeOK'
  <2>1. RunningUprobeHandlers \in SUBSET Cpus
    BY DEF RunningUprobeHandlers
  <2>2. graceFor' \in [Threads -> SUBSET Cpus]
    BY <1>18, <2>1 DEF DetachDone
  <2>3. QED
    BY <1>18, <2>2 DEF DetachDone
<1>19. ASSUME NEW t \in Threads, SyncDone(t) PROVE TypeOK'
  BY <1>19 DEF SyncDone
<1>20. ASSUME NEW t \in Threads, TeardownDone(t) PROVE TypeOK'
  <2>1. CASE phase = "closing"
    BY <1>20, <2>1 DEF TeardownDone
  <2>2. CASE phase # "closing"
    BY <1>20, <2>2 DEF TeardownDone
  <2>3. QED
    BY <2>1, <2>2
<1>21. ASSUME NEW t \in Threads, NEW m \in Timeouts, WaitEventCall(t, m) PROVE TypeOK'
  BY <1>21 DEF WaitEventCall
<1>22. ASSUME NEW t \in Threads, WaitEventCheck(t) PROVE TypeOK'
  BY <1>22 DEF WaitEventCheck
<1>23. ASSUME NEW t \in Threads, WaitEventTimeout(t) PROVE TypeOK'
  BY <1>23 DEF WaitEventTimeout, StageAfterGivingUp
<1>24. ASSUME NEW t \in Threads, WaitEventSignal(t) PROVE TypeOK'
  BY <1>24 DEF WaitEventSignal, StageAfterGivingUp
<1>25. ASSUME NEW t \in Threads, WaitEventTake(t) PROVE TypeOK'
  BY <1>25 DEF WaitEventTake
<1>26. ASSUME NEW c \in Cpus, NEW s \in Slots, HandlerEnter(c, s) PROVE TypeOK'
  BY <1>26 DEF HandlerEnter
<1>27. ASSUME NEW c \in Cpus, EmitEvent(c) PROVE TypeOK'
  <2>1. hslot[c] \in Slots
    BY <1>27 DEF EmitEvent, HandlerInv
  <2>2. [id |-> id[hslot[c]], src |-> hslot[c]] \in Events
    BY <2>1
  <2>3. ring' \in Seq(Events) /\ Len(ring') <= RingDepth
    <3>1. CASE Len(ring) = RingDepth
      BY <1>27, <3>1 DEF EmitEvent, RingFull
    <3>2. CASE Len(ring) # RingDepth
      <4> HIDE DEF Events
      <4>1. ring' = Append(ring, [id |-> id[hslot[c]], src |-> hslot[c]])
        BY <1>27, <3>2 DEF EmitEvent, RingFull
      <4>2. QED
        BY <2>2, <3>2, <4>1
    <3>3. QED
      BY <3>1, <3>2
  <2>4. QED
    BY <1>27, <2>3 DEF EmitEvent
<1>28. ASSUME NEW c \in Cpus, EmitWake(c) PROVE TypeOK'
  BY <1>28 DEF EmitWake, Woken
<1>29. CASE UNCHANGED vars
  BY <1>29 DEF vars
<1> HIDE DEF TypeOK, Events, Kinds, Timeouts, Stages, SetStages, TeardownStages,
             WaitStages, Goto, sessVars, pinVars, slotVars, teardownVars, threadVars,
             handlerVars
<1>30. QED
  BY <1>1, <1>2, <1>3, <1>4, <1>5, <1>6, <1>7, <1>8, <1>9, <1>10, <1>11, <1>12, <1>13,
     <1>14, <1>15, <1>16, <1>17, <1>18, <1>19, <1>20, <1>21, <1>22, <1>23, <1>24,
     <1>25, <1>26, <1>27, <1>28, <1>29
     DEF Next, BpSet, Teardown, WaitEvent, Handler

\* Every step preserves the facts about a thread's locals.
LEMMA LocalStep == TypeOK /\ LocalInv /\ [Next]_vars => LocalInv'
<1> SUFFICES ASSUME TypeOK, LocalInv, [Next]_vars PROVE LocalInv'
  OBVIOUS
<1> USE NoSlotAssumption DEF TypeOK, LocalInv, Stages, SetStages, TeardownStages,
            WaitStages, Goto, sessVars, pinVars, slotVars, teardownVars, threadVars,
            handlerVars
<1>1. ASSUME NEW t \in Threads, NEW s \in Slots, NEW k \in Kinds, BpSetCall(t, s, k) PROVE LocalInv'
  BY <1>1 DEF BpSetCall
<1>2. ASSUME NEW t \in Threads, BpSetId(t) PROVE LocalInv'
  BY <1>2 DEF BpSetId, SlotAfter
<1>3. ASSUME NEW t \in Threads, ArmRefused(t) PROVE LocalInv'
  BY <1>3 DEF ArmRefused
<1>4. ASSUME NEW t \in Threads, ArmUprobeResolve(t) PROVE LocalInv'
  BY <1>4 DEF ArmUprobeResolve
<1>5. ASSUME NEW t \in Threads, ArmUprobePinMm(t) PROVE LocalInv'
  BY <1>5 DEF ArmUprobePinMm
<1>6. ASSUME NEW t \in Threads, ArmUprobeNoMm(t) PROVE LocalInv'
  BY <1>6 DEF ArmUprobeNoMm, Iput
<1>7. ASSUME NEW t \in Threads, ArmUprobeRegisterFails(t) PROVE LocalInv'
  BY <1>7 DEF ArmUprobeRegisterFails, Iput
<1>8. ASSUME NEW t \in Threads, Armed(t) PROVE LocalInv'
  BY <1>8 DEF Armed
<1>9. ASSUME NEW t \in Threads, BpSetFail(t) PROVE LocalInv'
  BY <1>9 DEF BpSetFail
<1>10. ASSUME NEW t \in Threads, BpSetInsert(t) PROVE LocalInv'
  BY <1>10 DEF BpSetInsert
<1>11. ASSUME NEW t \in Threads, BpSetReply(t) PROVE LocalInv'
  BY <1>11 DEF BpSetReply
<1>12. ASSUME NEW t \in Threads, NEW s \in Slots, BpClearCall(t, s) PROVE LocalInv'
  BY <1>12 DEF BpClearCall, ListDel
<1>13. ASSUME NEW t \in Threads, Release(t) PROVE LocalInv'
  BY <1>13 DEF Release, SlotsToFree
<1>14. ASSUME NEW t \in Threads, NEW s \in Slots, DetachHw(t, s) PROVE LocalInv'
  BY <1>14 DEF DetachHw
<1>15. ASSUME NEW t \in Threads, NEW s \in Slots, DetachUprobe(t, s) PROVE LocalInv'
  BY <1>15 DEF DetachUprobe
<1>16. ASSUME NEW t \in Threads, NEW s \in Slots, SlotReclaim(t, s) PROVE LocalInv'
  BY <1>16 DEF SlotReclaim, Iput, StillDead
<1>17. ASSUME NEW t \in Threads, HwQuiesced(t) PROVE LocalInv'
  BY <1>17 DEF HwQuiesced
<1>18. ASSUME NEW t \in Threads, DetachDone(t) PROVE LocalInv'
  BY <1>18 DEF DetachDone, SyncNeeded
<1>19. ASSUME NEW t \in Threads, SyncDone(t) PROVE LocalInv'
  BY <1>19 DEF SyncDone
<1>20. ASSUME NEW t \in Threads, TeardownDone(t) PROVE LocalInv'
  BY <1>20 DEF TeardownDone
<1>21. ASSUME NEW t \in Threads, NEW m \in Timeouts, WaitEventCall(t, m) PROVE LocalInv'
  BY <1>21 DEF WaitEventCall
<1>22. ASSUME NEW t \in Threads, WaitEventCheck(t) PROVE LocalInv'
  BY <1>22 DEF WaitEventCheck
<1>23. ASSUME NEW t \in Threads, WaitEventTimeout(t) PROVE LocalInv'
  BY <1>23 DEF WaitEventTimeout, StageAfterGivingUp
<1>24. ASSUME NEW t \in Threads, WaitEventSignal(t) PROVE LocalInv'
  BY <1>24 DEF WaitEventSignal, StageAfterGivingUp
<1>25. ASSUME NEW t \in Threads, WaitEventTake(t) PROVE LocalInv'
  BY <1>25 DEF WaitEventTake
<1>26. ASSUME NEW c \in Cpus, NEW s \in Slots, HandlerEnter(c, s) PROVE LocalInv'
  BY <1>26 DEF HandlerEnter
<1>27. ASSUME NEW c \in Cpus, EmitEvent(c) PROVE LocalInv'
  BY <1>27 DEF EmitEvent, RingFull
<1>28. ASSUME NEW c \in Cpus, EmitWake(c) PROVE LocalInv'
  BY <1>28 DEF EmitWake, Woken
<1>29. CASE UNCHANGED vars
  BY <1>29 DEF vars
<1> HIDE DEF TypeOK, LocalInv, Stages, SetStages, TeardownStages, WaitStages, Goto,
             sessVars, pinVars, slotVars, teardownVars, threadVars, handlerVars
<1>30. QED
  BY <1>1, <1>2, <1>3, <1>4, <1>5, <1>6, <1>7, <1>8, <1>9, <1>10, <1>11, <1>12, <1>13,
     <1>14, <1>15, <1>16, <1>17, <1>18, <1>19, <1>20, <1>21, <1>22, <1>23, <1>24,
     <1>25, <1>26, <1>27, <1>28, <1>29
     DEF Next, BpSet, Teardown, WaitEvent, Handler

\* Every step preserves unique ownership: a slot moves between the list and the
\* one thread that sets it up or tears it down, and is freed by its owner.
LEMMA OwnerStep == TypeOK /\ LocalInv /\ OwnerInv /\ [Next]_vars => OwnerInv'
<1> SUFFICES ASSUME TypeOK, LocalInv, OwnerInv, [Next]_vars PROVE OwnerInv'
  OBVIOUS
<1> USE NoSlotAssumption DEF TypeOK, LocalInv, OwnerInv, Stages, SetStages,
            TeardownStages, WaitStages, Goto, sessVars, pinVars, slotVars,
            teardownVars, threadVars, handlerVars
<1>1. ASSUME NEW t \in Threads, NEW s \in Slots, NEW k \in Kinds, BpSetCall(t, s, k) PROVE OwnerInv'
  <2>1. dead[t] = {}
    BY <1>1 DEF BpSetCall
  <2>2. \A u \in Threads, x \in Slots : Mine(u, x)' <=> Mine(u, x) \/ (u = t /\ x = s)
    BY <1>1, <2>1 DEF BpSetCall, Mine
  <2>3. s \notin slots /\ \A u \in Threads : ~Mine(u, s)
    BY <1>1, <2>1 DEF BpSetCall, Mine
  <2>4. \A u \in Threads, x \in slots' : ~Mine(u, x)'
    BY <1>1, <2>2, <2>3 DEF BpSetCall
  <2>5. \A u, v \in Threads, x \in Slots : Mine(u, x)' /\ Mine(v, x)' => u = v
    <3>1. SUFFICES ASSUME NEW u \in Threads, NEW v \in Threads, NEW x \in Slots,
                          Mine(u, x)', Mine(v, x)'
                   PROVE  u = v
      OBVIOUS
    <3>2. CASE Mine(u, x) /\ Mine(v, x)
      BY <3>2
    <3>3. CASE ~(Mine(u, x) /\ Mine(v, x))
      BY <2>2, <2>3, <3>1, <3>3
    <3>4. QED
      BY <3>2, <3>3
  <2>6. \A x \in Slots :
          mem'[x] = "live" <=> x \in slots' \/ \E u \in Threads : Mine(u, x)'
    BY <1>1, <2>2, <2>3 DEF BpSetCall
  <2>7. QED
    BY <2>4, <2>5, <2>6
<1>2. ASSUME NEW t \in Threads, BpSetId(t) PROVE OwnerInv'
  <2>1. \A u \in Threads, x \in Slots : Mine(u, x)' <=> Mine(u, x)
    BY <1>2 DEF BpSetId, SlotAfter, Mine
  <2>2. QED
    BY <1>2, <2>1 DEF BpSetId, SlotAfter
<1>3. ASSUME NEW t \in Threads, ArmRefused(t) PROVE OwnerInv'
  <2>1. \A u \in Threads, x \in Slots : Mine(u, x)' <=> Mine(u, x)
    BY <1>3 DEF ArmRefused, Mine
  <2>2. QED
    BY <1>3, <2>1 DEF ArmRefused
<1>4. ASSUME NEW t \in Threads, ArmUprobeResolve(t) PROVE OwnerInv'
  <2>1. \A u \in Threads, x \in Slots : Mine(u, x)' <=> Mine(u, x)
    BY <1>4 DEF ArmUprobeResolve, Mine
  <2>2. QED
    BY <1>4, <2>1 DEF ArmUprobeResolve
<1>5. ASSUME NEW t \in Threads, ArmUprobePinMm(t) PROVE OwnerInv'
  <2>1. \A u \in Threads, x \in Slots : Mine(u, x)' <=> Mine(u, x)
    BY <1>5 DEF ArmUprobePinMm, Mine
  <2>2. QED
    BY <1>5, <2>1 DEF ArmUprobePinMm
<1>6. ASSUME NEW t \in Threads, ArmUprobeNoMm(t) PROVE OwnerInv'
  <2>1. \A u \in Threads, x \in Slots : Mine(u, x)' <=> Mine(u, x)
    BY <1>6 DEF ArmUprobeNoMm, Iput, Mine
  <2>2. QED
    BY <1>6, <2>1 DEF ArmUprobeNoMm, Iput
<1>7. ASSUME NEW t \in Threads, ArmUprobeRegisterFails(t) PROVE OwnerInv'
  <2>1. \A u \in Threads, x \in Slots : Mine(u, x)' <=> Mine(u, x)
    BY <1>7 DEF ArmUprobeRegisterFails, Iput, Mine
  <2>2. QED
    BY <1>7, <2>1 DEF ArmUprobeRegisterFails, Iput
<1>8. ASSUME NEW t \in Threads, Armed(t) PROVE OwnerInv'
  <2>1. \A u \in Threads, x \in Slots : Mine(u, x)' <=> Mine(u, x)
    BY <1>8 DEF Armed, Mine
  <2>2. QED
    BY <1>8, <2>1 DEF Armed
<1>9. ASSUME NEW t \in Threads, BpSetFail(t) PROVE OwnerInv'
  <2>1. dead[t] = {} /\ cur[t] \in Slots
    BY <1>9 DEF BpSetFail
  <2>2. \A u \in Threads, x \in Slots : Mine(u, x)' <=> Mine(u, x) /\ ~(u = t /\ x = cur[t])
    BY <1>9, <2>1 DEF BpSetFail, Mine
  <2>3. cur[t] \in Slots \ slots /\ Mine(t, cur[t]) /\ mem[cur[t]] = "live"
    BY <1>9, <2>1 DEF BpSetFail, Mine
  <2>4. \A u \in Threads, x \in slots' : ~Mine(u, x)'
    BY <1>9, <2>2, <2>3 DEF BpSetFail
  <2>5. \A u, v \in Threads, x \in Slots : Mine(u, x)' /\ Mine(v, x)' => u = v
    <3>1. SUFFICES ASSUME NEW u \in Threads, NEW v \in Threads, NEW x \in Slots,
                          Mine(u, x)', Mine(v, x)'
                   PROVE  u = v
      OBVIOUS
    <3>2. CASE Mine(u, x) /\ Mine(v, x)
      BY <3>2
    <3>3. CASE ~(Mine(u, x) /\ Mine(v, x))
      BY <2>2, <2>3, <3>1, <3>3
    <3>4. QED
      BY <3>2, <3>3
  <2>6. \A x \in Slots :
          mem'[x] = "live" <=> x \in slots' \/ \E u \in Threads : Mine(u, x)'
    BY <1>9, <2>2, <2>3 DEF BpSetFail
  <2>7. QED
    BY <2>4, <2>5, <2>6
<1>10. ASSUME NEW t \in Threads, BpSetInsert(t) PROVE OwnerInv'
  <2>1. dead[t] = {} /\ cur[t] \in Slots
    BY <1>10 DEF BpSetInsert
  <2>2. \A u \in Threads, x \in Slots : Mine(u, x)' <=> Mine(u, x) /\ ~(u = t /\ x = cur[t])
    BY <1>10, <2>1 DEF BpSetInsert, Mine
  <2>3. cur[t] \in Slots \ slots /\ Mine(t, cur[t]) /\ mem[cur[t]] = "live"
    BY <1>10, <2>1 DEF BpSetInsert, Mine
  <2>4. \A u \in Threads, x \in slots' : ~Mine(u, x)'
    BY <1>10, <2>2, <2>3 DEF BpSetInsert
  <2>5. \A u, v \in Threads, x \in Slots : Mine(u, x)' /\ Mine(v, x)' => u = v
    <3>1. SUFFICES ASSUME NEW u \in Threads, NEW v \in Threads, NEW x \in Slots,
                          Mine(u, x)', Mine(v, x)'
                   PROVE  u = v
      OBVIOUS
    <3>2. CASE Mine(u, x) /\ Mine(v, x)
      BY <3>2
    <3>3. CASE ~(Mine(u, x) /\ Mine(v, x))
      BY <2>2, <2>3, <3>1, <3>3
    <3>4. QED
      BY <3>2, <3>3
  <2>6. \A x \in Slots :
          mem'[x] = "live" <=> x \in slots' \/ \E u \in Threads : Mine(u, x)'
    BY <1>10, <2>2, <2>3 DEF BpSetInsert
  <2>7. QED
    BY <2>4, <2>5, <2>6
<1>11. ASSUME NEW t \in Threads, BpSetReply(t) PROVE OwnerInv'
  <2>1. \A u \in Threads, x \in Slots : Mine(u, x)' <=> Mine(u, x)
    BY <1>11 DEF BpSetReply, Mine
  <2>2. QED
    BY <1>11, <2>1 DEF BpSetReply
<1>12. ASSUME NEW t \in Threads, NEW s \in Slots, BpClearCall(t, s) PROVE OwnerInv'
  <2>1. dead[t] = {}
    BY <1>12 DEF BpClearCall, ListDel
  <2>2. \A u \in Threads, x \in Slots : Mine(u, x)' <=> Mine(u, x) \/ (u = t /\ x = s)
    BY <1>12, <2>1 DEF BpClearCall, ListDel, Mine
  <2>3. mem[s] = "live" /\ \A u \in Threads : ~Mine(u, s)
    BY <1>12, <2>1 DEF BpClearCall, ListDel, Mine
  <2>4. \A u \in Threads, x \in slots' : ~Mine(u, x)'
    BY <1>12, <2>2, <2>3 DEF BpClearCall, ListDel
  <2>5. \A u, v \in Threads, x \in Slots : Mine(u, x)' /\ Mine(v, x)' => u = v
    <3>1. SUFFICES ASSUME NEW u \in Threads, NEW v \in Threads, NEW x \in Slots,
                          Mine(u, x)', Mine(v, x)'
                   PROVE  u = v
      OBVIOUS
    <3>2. CASE Mine(u, x) /\ Mine(v, x)
      BY <3>2
    <3>3. CASE ~(Mine(u, x) /\ Mine(v, x))
      BY <2>2, <2>3, <3>1, <3>3
    <3>4. QED
      BY <3>2, <3>3
  <2>6. \A x \in Slots :
          mem'[x] = "live" <=> x \in slots' \/ \E u \in Threads : Mine(u, x)'
    BY <1>12, <2>2, <2>3 DEF BpClearCall, ListDel
  <2>7. QED
    BY <2>4, <2>5, <2>6
<1>13. ASSUME NEW t \in Threads, Release(t) PROVE OwnerInv'
  <2>1. \A u \in Threads : dead[u] = {} /\ pc[u] = "idle"
    BY <1>13 DEF Release, SlotsToFree
  <2>2. \A u \in Threads, x \in Slots : Mine(u, x)' <=> (u = t /\ x \in slots)
    BY <1>13, <2>1 DEF Release, SlotsToFree, Mine
  <2>3. \A u \in Threads, x \in Slots : ~Mine(u, x)
    BY <1>13, <2>1 DEF Release, SlotsToFree, Mine
  <2>4. \A u \in Threads, x \in slots' : ~Mine(u, x)'
    BY <1>13, <2>2, <2>3 DEF Release, SlotsToFree
  <2>5. \A u, v \in Threads, x \in Slots : Mine(u, x)' /\ Mine(v, x)' => u = v
    <3>1. SUFFICES ASSUME NEW u \in Threads, NEW v \in Threads, NEW x \in Slots,
                          Mine(u, x)', Mine(v, x)'
                   PROVE  u = v
      OBVIOUS
    <3>2. CASE Mine(u, x) /\ Mine(v, x)
      BY <3>2
    <3>3. CASE ~(Mine(u, x) /\ Mine(v, x))
      BY <2>2, <2>3, <3>1, <3>3
    <3>4. QED
      BY <3>2, <3>3
  <2>6. \A x \in Slots :
          mem'[x] = "live" <=> x \in slots' \/ \E u \in Threads : Mine(u, x)'
    BY <1>13, <2>2, <2>3 DEF Release, SlotsToFree
  <2>7. QED
    BY <2>4, <2>5, <2>6
<1>14. ASSUME NEW t \in Threads, NEW s \in Slots, DetachHw(t, s) PROVE OwnerInv'
  <2>1. \A u \in Threads, x \in Slots : Mine(u, x)' <=> Mine(u, x)
    BY <1>14 DEF DetachHw, Mine
  <2>2. QED
    BY <1>14, <2>1 DEF DetachHw
<1>15. ASSUME NEW t \in Threads, NEW s \in Slots, DetachUprobe(t, s) PROVE OwnerInv'
  <2>1. \A u \in Threads, x \in Slots : Mine(u, x)' <=> Mine(u, x)
    BY <1>15 DEF DetachUprobe, Mine
  <2>2. QED
    BY <1>15, <2>1 DEF DetachUprobe
<1>16. ASSUME NEW t \in Threads, NEW s \in Slots, SlotReclaim(t, s) PROVE OwnerInv'
  <2>1. pc[t] = "reclaim" /\ s \in dead[t]
    BY <1>16 DEF SlotReclaim, Iput, StillDead
  <2>2. \A u \in Threads, x \in Slots : Mine(u, x)' <=> Mine(u, x) /\ ~(u = t /\ x = s)
    BY <1>16, <2>1 DEF SlotReclaim, Iput, StillDead, Mine
  <2>3. s \notin slots /\ Mine(t, s) /\ mem[s] = "live"
    BY <1>16, <2>1 DEF SlotReclaim, Iput, StillDead, Mine
  <2>4. \A u \in Threads, x \in slots' : ~Mine(u, x)'
    BY <1>16, <2>2, <2>3 DEF SlotReclaim, Iput, StillDead
  <2>5. \A u, v \in Threads, x \in Slots : Mine(u, x)' /\ Mine(v, x)' => u = v
    <3>1. SUFFICES ASSUME NEW u \in Threads, NEW v \in Threads, NEW x \in Slots,
                          Mine(u, x)', Mine(v, x)'
                   PROVE  u = v
      OBVIOUS
    <3>2. CASE Mine(u, x) /\ Mine(v, x)
      BY <3>2
    <3>3. CASE ~(Mine(u, x) /\ Mine(v, x))
      BY <2>2, <2>3, <3>1, <3>3
    <3>4. QED
      BY <3>2, <3>3
  <2>6. \A x \in Slots :
          mem'[x] = "live" <=> x \in slots' \/ \E u \in Threads : Mine(u, x)'
    BY <1>16, <2>2, <2>3 DEF SlotReclaim, Iput, StillDead
  <2>7. QED
    BY <2>4, <2>5, <2>6
<1>17. ASSUME NEW t \in Threads, HwQuiesced(t) PROVE OwnerInv'
  <2>1. \A u \in Threads, x \in Slots : Mine(u, x)' <=> Mine(u, x)
    BY <1>17 DEF HwQuiesced, Mine
  <2>2. QED
    BY <1>17, <2>1 DEF HwQuiesced
<1>18. ASSUME NEW t \in Threads, DetachDone(t) PROVE OwnerInv'
  <2>1. \A u \in Threads, x \in Slots : Mine(u, x)' <=> Mine(u, x)
    BY <1>18 DEF DetachDone, SyncNeeded, Mine
  <2>2. QED
    BY <1>18, <2>1 DEF DetachDone, SyncNeeded
<1>19. ASSUME NEW t \in Threads, SyncDone(t) PROVE OwnerInv'
  <2>1. \A u \in Threads, x \in Slots : Mine(u, x)' <=> Mine(u, x)
    BY <1>19 DEF SyncDone, Mine
  <2>2. QED
    BY <1>19, <2>1 DEF SyncDone
<1>20. ASSUME NEW t \in Threads, TeardownDone(t) PROVE OwnerInv'
  <2>1. \A u \in Threads, x \in Slots : Mine(u, x)' <=> Mine(u, x)
    BY <1>20 DEF TeardownDone, Mine
  <2>2. QED
    BY <1>20, <2>1 DEF TeardownDone
<1>21. ASSUME NEW t \in Threads, NEW m \in Timeouts, WaitEventCall(t, m) PROVE OwnerInv'
  <2>1. \A u \in Threads, x \in Slots : Mine(u, x)' <=> Mine(u, x)
    BY <1>21 DEF WaitEventCall, Mine
  <2>2. QED
    BY <1>21, <2>1 DEF WaitEventCall
<1>22. ASSUME NEW t \in Threads, WaitEventCheck(t) PROVE OwnerInv'
  <2>1. \A u \in Threads, x \in Slots : Mine(u, x)' <=> Mine(u, x)
    BY <1>22 DEF WaitEventCheck, Mine
  <2>2. QED
    BY <1>22, <2>1 DEF WaitEventCheck
<1>23. ASSUME NEW t \in Threads, WaitEventTimeout(t) PROVE OwnerInv'
  <2>1. \A u \in Threads, x \in Slots : Mine(u, x)' <=> Mine(u, x)
    BY <1>23 DEF WaitEventTimeout, StageAfterGivingUp, Mine
  <2>2. QED
    BY <1>23, <2>1 DEF WaitEventTimeout, StageAfterGivingUp
<1>24. ASSUME NEW t \in Threads, WaitEventSignal(t) PROVE OwnerInv'
  <2>1. \A u \in Threads, x \in Slots : Mine(u, x)' <=> Mine(u, x)
    BY <1>24 DEF WaitEventSignal, StageAfterGivingUp, Mine
  <2>2. QED
    BY <1>24, <2>1 DEF WaitEventSignal, StageAfterGivingUp
<1>25. ASSUME NEW t \in Threads, WaitEventTake(t) PROVE OwnerInv'
  <2>1. \A u \in Threads, x \in Slots : Mine(u, x)' <=> Mine(u, x)
    BY <1>25 DEF WaitEventTake, Mine
  <2>2. QED
    BY <1>25, <2>1 DEF WaitEventTake
<1>26. ASSUME NEW c \in Cpus, NEW s \in Slots, HandlerEnter(c, s) PROVE OwnerInv'
  <2>1. \A u \in Threads, x \in Slots : Mine(u, x)' <=> Mine(u, x)
    BY <1>26 DEF HandlerEnter, Mine
  <2>2. QED
    BY <1>26, <2>1 DEF HandlerEnter
<1>27. ASSUME NEW c \in Cpus, EmitEvent(c) PROVE OwnerInv'
  <2>1. \A u \in Threads, x \in Slots : Mine(u, x)' <=> Mine(u, x)
    BY <1>27 DEF EmitEvent, RingFull, Mine
  <2>2. QED
    BY <1>27, <2>1 DEF EmitEvent, RingFull
<1>28. ASSUME NEW c \in Cpus, EmitWake(c) PROVE OwnerInv'
  <2>1. \A u \in Threads, x \in Slots : Mine(u, x)' <=> Mine(u, x)
    BY <1>28 DEF EmitWake, Woken, Mine
  <2>2. QED
    BY <1>28, <2>1 DEF EmitWake, Woken
<1>29. CASE UNCHANGED vars
  BY <1>29 DEF vars, Mine
<1> HIDE DEF TypeOK, LocalInv, OwnerInv, Stages, SetStages, TeardownStages, WaitStages,
             Goto, sessVars, pinVars, slotVars, teardownVars, threadVars, handlerVars
<1>30. QED
  BY <1>1, <1>2, <1>3, <1>4, <1>5, <1>6, <1>7, <1>8, <1>9, <1>10, <1>11, <1>12, <1>13,
     <1>14, <1>15, <1>16, <1>17, <1>18, <1>19, <1>20, <1>21, <1>22, <1>23, <1>24,
     <1>25, <1>26, <1>27, <1>28, <1>29
     DEF Next, BpSet, Teardown, WaitEvent, Handler

\* Every step preserves HookInv: a slot is unhooked before its owner moves on to
\* the grace period.
LEMMA HookStep == TypeOK /\ LocalInv /\ OwnerInv /\ HookInv /\ [Next]_vars => HookInv'
<1> SUFFICES ASSUME TypeOK, LocalInv, OwnerInv, HookInv, [Next]_vars PROVE HookInv'
  OBVIOUS
<1> USE NoSlotAssumption DEF TypeOK, LocalInv, HookInv, Stages, SetStages,
            TeardownStages, WaitStages, Goto, sessVars, pinVars, slotVars,
            teardownVars, threadVars, handlerVars
<1>1. ASSUME NEW t \in Threads, NEW s \in Slots, NEW k \in Kinds, BpSetCall(t, s, k) PROVE HookInv'
  BY <1>1 DEF BpSetCall
<1>2. ASSUME NEW t \in Threads, BpSetId(t) PROVE HookInv'
  BY <1>2 DEF BpSetId, SlotAfter
<1>3. ASSUME NEW t \in Threads, ArmRefused(t) PROVE HookInv'
  BY <1>3 DEF ArmRefused
<1>4. ASSUME NEW t \in Threads, ArmUprobeResolve(t) PROVE HookInv'
  BY <1>4 DEF ArmUprobeResolve
<1>5. ASSUME NEW t \in Threads, ArmUprobePinMm(t) PROVE HookInv'
  BY <1>5 DEF ArmUprobePinMm
<1>6. ASSUME NEW t \in Threads, ArmUprobeNoMm(t) PROVE HookInv'
  BY <1>6 DEF ArmUprobeNoMm, Iput
<1>7. ASSUME NEW t \in Threads, ArmUprobeRegisterFails(t) PROVE HookInv'
  BY <1>7 DEF ArmUprobeRegisterFails, Iput
<1>8. ASSUME NEW t \in Threads, Armed(t) PROVE HookInv'
  BY <1>8 DEF Armed
<1>9. ASSUME NEW t \in Threads, BpSetFail(t) PROVE HookInv'
  BY <1>9 DEF BpSetFail
<1>10. ASSUME NEW t \in Threads, BpSetInsert(t) PROVE HookInv'
  BY <1>10 DEF BpSetInsert
<1>11. ASSUME NEW t \in Threads, BpSetReply(t) PROVE HookInv'
  BY <1>11 DEF BpSetReply
<1>12. ASSUME NEW t \in Threads, NEW s \in Slots, BpClearCall(t, s) PROVE HookInv'
  <2>1. SUFFICES ASSUME NEW x \in Slots, hooked[x], x \notin slots'
                PROVE  \E u \in Threads :
                         \/ pc'[u] = "insert" /\ cur'[u] = x
                         \/ pc'[u] \in {"detach", "hw_wait"} /\ x \in dead'[u]
    BY <1>12 DEF BpClearCall
  <2>2. CASE x = s
    BY <1>12, <2>2 DEF BpClearCall
  <2>3. CASE x # s
    <3>1. PICK u \in Threads :
            (pc[u] = "insert" /\ cur[u] = x)
              \/ (pc[u] \in {"detach", "hw_wait"} /\ x \in dead[u])
      <4>1. x \notin slots
        BY <1>12, <2>1, <2>3 DEF BpClearCall, ListDel
      <4>2. QED
        BY <2>1, <4>1
    <3>2. u # t
      BY <1>12, <3>1 DEF BpClearCall
    <3>3. QED
      BY <1>12, <3>1, <3>2 DEF BpClearCall
  <2>4. QED
    BY <2>2, <2>3
<1>13. ASSUME NEW t \in Threads, Release(t) PROVE HookInv'
  BY <1>13 DEF Release, SlotsToFree
<1>14. ASSUME NEW t \in Threads, NEW s \in Slots, DetachHw(t, s) PROVE HookInv'
  BY <1>14 DEF DetachHw
<1>15. ASSUME NEW t \in Threads, NEW s \in Slots, DetachUprobe(t, s) PROVE HookInv'
  BY <1>15 DEF DetachUprobe
<1>16. ASSUME NEW t \in Threads, NEW s \in Slots, SlotReclaim(t, s) PROVE HookInv'
  BY <1>16 DEF SlotReclaim, Iput, StillDead
<1>17. ASSUME NEW t \in Threads, HwQuiesced(t) PROVE HookInv'
  BY <1>17 DEF HwQuiesced
<1>18. ASSUME NEW t \in Threads, DetachDone(t) PROVE HookInv'
  BY <1>18 DEF DetachDone, SyncNeeded
<1>19. ASSUME NEW t \in Threads, SyncDone(t) PROVE HookInv'
  BY <1>19 DEF SyncDone
<1>20. ASSUME NEW t \in Threads, TeardownDone(t) PROVE HookInv'
  BY <1>20 DEF TeardownDone
<1>21. ASSUME NEW t \in Threads, NEW m \in Timeouts, WaitEventCall(t, m) PROVE HookInv'
  BY <1>21 DEF WaitEventCall
<1>22. ASSUME NEW t \in Threads, WaitEventCheck(t) PROVE HookInv'
  BY <1>22 DEF WaitEventCheck
<1>23. ASSUME NEW t \in Threads, WaitEventTimeout(t) PROVE HookInv'
  BY <1>23 DEF WaitEventTimeout, StageAfterGivingUp
<1>24. ASSUME NEW t \in Threads, WaitEventSignal(t) PROVE HookInv'
  BY <1>24 DEF WaitEventSignal, StageAfterGivingUp
<1>25. ASSUME NEW t \in Threads, WaitEventTake(t) PROVE HookInv'
  BY <1>25 DEF WaitEventTake
<1>26. ASSUME NEW c \in Cpus, NEW s \in Slots, HandlerEnter(c, s) PROVE HookInv'
  BY <1>26 DEF HandlerEnter
<1>27. ASSUME NEW c \in Cpus, EmitEvent(c) PROVE HookInv'
  BY <1>27 DEF EmitEvent, RingFull
<1>28. ASSUME NEW c \in Cpus, EmitWake(c) PROVE HookInv'
  BY <1>28 DEF EmitWake, Woken
<1>29. CASE UNCHANGED vars
  BY <1>29 DEF vars
<1> HIDE DEF TypeOK, LocalInv, HookInv, Stages, SetStages, TeardownStages, WaitStages,
             Goto, sessVars, pinVars, slotVars, teardownVars, threadVars, handlerVars
<1>30. QED
  BY <1>1, <1>2, <1>3, <1>4, <1>5, <1>6, <1>7, <1>8, <1>9, <1>10, <1>11, <1>12, <1>13,
     <1>14, <1>15, <1>16, <1>17, <1>18, <1>19, <1>20, <1>21, <1>22, <1>23, <1>24,
     <1>25, <1>26, <1>27, <1>28, <1>29
     DEF Next, BpSet, Teardown, WaitEvent, Handler

\* Every step preserves PhaseInv.
LEMMA PhaseStep == TypeOK /\ PhaseInv /\ [Next]_vars => PhaseInv'
<1> SUFFICES ASSUME TypeOK, PhaseInv, [Next]_vars PROVE PhaseInv'
  OBVIOUS
<1> USE NoSlotAssumption DEF TypeOK, PhaseInv, Stages, SetStages, TeardownStages,
            WaitStages, Goto, sessVars, pinVars, slotVars, teardownVars, threadVars,
            handlerVars
<1>1. ASSUME NEW t \in Threads, NEW s \in Slots, NEW k \in Kinds, BpSetCall(t, s, k) PROVE PhaseInv'
  BY <1>1 DEF BpSetCall
<1>2. ASSUME NEW t \in Threads, BpSetId(t) PROVE PhaseInv'
  BY <1>2 DEF BpSetId, SlotAfter
<1>3. ASSUME NEW t \in Threads, ArmRefused(t) PROVE PhaseInv'
  BY <1>3 DEF ArmRefused
<1>4. ASSUME NEW t \in Threads, ArmUprobeResolve(t) PROVE PhaseInv'
  BY <1>4 DEF ArmUprobeResolve
<1>5. ASSUME NEW t \in Threads, ArmUprobePinMm(t) PROVE PhaseInv'
  BY <1>5 DEF ArmUprobePinMm
<1>6. ASSUME NEW t \in Threads, ArmUprobeNoMm(t) PROVE PhaseInv'
  BY <1>6 DEF ArmUprobeNoMm, Iput
<1>7. ASSUME NEW t \in Threads, ArmUprobeRegisterFails(t) PROVE PhaseInv'
  BY <1>7 DEF ArmUprobeRegisterFails, Iput
<1>8. ASSUME NEW t \in Threads, Armed(t) PROVE PhaseInv'
  BY <1>8 DEF Armed
<1>9. ASSUME NEW t \in Threads, BpSetFail(t) PROVE PhaseInv'
  BY <1>9 DEF BpSetFail
<1>10. ASSUME NEW t \in Threads, BpSetInsert(t) PROVE PhaseInv'
  BY <1>10 DEF BpSetInsert
<1>11. ASSUME NEW t \in Threads, BpSetReply(t) PROVE PhaseInv'
  BY <1>11 DEF BpSetReply
<1>12. ASSUME NEW t \in Threads, NEW s \in Slots, BpClearCall(t, s) PROVE PhaseInv'
  BY <1>12 DEF BpClearCall, ListDel
<1>13. ASSUME NEW t \in Threads, Release(t) PROVE PhaseInv'
  BY <1>13 DEF Release, SlotsToFree
<1>14. ASSUME NEW t \in Threads, NEW s \in Slots, DetachHw(t, s) PROVE PhaseInv'
  BY <1>14 DEF DetachHw
<1>15. ASSUME NEW t \in Threads, NEW s \in Slots, DetachUprobe(t, s) PROVE PhaseInv'
  BY <1>15 DEF DetachUprobe
<1>16. ASSUME NEW t \in Threads, NEW s \in Slots, SlotReclaim(t, s) PROVE PhaseInv'
  BY <1>16 DEF SlotReclaim, Iput, StillDead
<1>17. ASSUME NEW t \in Threads, HwQuiesced(t) PROVE PhaseInv'
  BY <1>17 DEF HwQuiesced
<1>18. ASSUME NEW t \in Threads, DetachDone(t) PROVE PhaseInv'
  BY <1>18 DEF DetachDone, SyncNeeded
<1>19. ASSUME NEW t \in Threads, SyncDone(t) PROVE PhaseInv'
  BY <1>19 DEF SyncDone
<1>20. ASSUME NEW t \in Threads, TeardownDone(t) PROVE PhaseInv'
  BY <1>20 DEF TeardownDone
<1>21. ASSUME NEW t \in Threads, NEW m \in Timeouts, WaitEventCall(t, m) PROVE PhaseInv'
  BY <1>21 DEF WaitEventCall
<1>22. ASSUME NEW t \in Threads, WaitEventCheck(t) PROVE PhaseInv'
  BY <1>22 DEF WaitEventCheck
<1>23. ASSUME NEW t \in Threads, WaitEventTimeout(t) PROVE PhaseInv'
  BY <1>23 DEF WaitEventTimeout, StageAfterGivingUp
<1>24. ASSUME NEW t \in Threads, WaitEventSignal(t) PROVE PhaseInv'
  BY <1>24 DEF WaitEventSignal, StageAfterGivingUp
<1>25. ASSUME NEW t \in Threads, WaitEventTake(t) PROVE PhaseInv'
  BY <1>25 DEF WaitEventTake
<1>26. ASSUME NEW c \in Cpus, NEW s \in Slots, HandlerEnter(c, s) PROVE PhaseInv'
  BY <1>26 DEF HandlerEnter
<1>27. ASSUME NEW c \in Cpus, EmitEvent(c) PROVE PhaseInv'
  BY <1>27 DEF EmitEvent, RingFull
<1>28. ASSUME NEW c \in Cpus, EmitWake(c) PROVE PhaseInv'
  BY <1>28 DEF EmitWake, Woken
<1>29. CASE UNCHANGED vars
  BY <1>29 DEF vars
<1> HIDE DEF TypeOK, PhaseInv, Stages, SetStages, TeardownStages, WaitStages, Goto,
             sessVars, pinVars, slotVars, teardownVars, threadVars, handlerVars
<1>30. QED
  BY <1>1, <1>2, <1>3, <1>4, <1>5, <1>6, <1>7, <1>8, <1>9, <1>10, <1>11, <1>12, <1>13,
     <1>14, <1>15, <1>16, <1>17, <1>18, <1>19, <1>20, <1>21, <1>22, <1>23, <1>24,
     <1>25, <1>26, <1>27, <1>28, <1>29
     DEF Next, BpSet, Teardown, WaitEvent, Handler

\* A running handler has a live slot: either the slot is still hooked and so has
\* an owner, or its owner waits for the handler.
LEMMA HandlersLive ==
  TypeOK /\ OwnerInv /\ HookInv /\ HandlerInv =>
    \A c \in Cpus : hslot[c] # NoSlot => hslot[c] \in Slots /\ mem[hslot[c]] = "live"
<1> SUFFICES ASSUME TypeOK, OwnerInv, HookInv, HandlerInv,
                    NEW c \in Cpus, hslot[c] # NoSlot
             PROVE  hslot[c] \in Slots /\ mem[hslot[c]] = "live"
  OBVIOUS
<1>1. hslot[c] \in Slots
  BY DEF TypeOK
<1>2. CASE hooked[hslot[c]]
  BY <1>1, <1>2 DEF OwnerInv, HookInv, Mine, SetStages
<1>3. CASE \E t \in Threads : WaitsFor(t, c, hslot[c])
  BY <1>1, <1>3 DEF OwnerInv, WaitsFor, Mine
<1>4. QED
  BY <1>1, <1>2, <1>3 DEF HandlerInv

\* Every step preserves HandlerInv: whoever unhooks a slot waits for its handlers.
LEMMA HandlerStep == TypeOK /\ LocalInv /\ OwnerInv /\ HookInv /\ HandlerInv /\ [Next]_vars => HandlerInv'
<1> SUFFICES ASSUME TypeOK, LocalInv, OwnerInv, HookInv, HandlerInv, [Next]_vars PROVE HandlerInv'
  OBVIOUS
<1> USE NoSlotAssumption DEF TypeOK, LocalInv, HandlerInv, Stages, SetStages,
            TeardownStages, WaitStages, Goto, sessVars, pinVars, slotVars,
            teardownVars, threadVars, handlerVars
<1>1. ASSUME NEW t \in Threads, NEW s \in Slots, NEW k \in Kinds, BpSetCall(t, s, k) PROVE HandlerInv'
  <2>1. SUFFICES ASSUME NEW d \in Cpus, hslot[d] # NoSlot
                PROVE  hooked'[hslot[d]] \/ \E u \in Threads : WaitsFor(u, d, hslot[d])'
    BY <1>1 DEF BpSetCall
  <2>2. hslot[d] \in Slots
    BY <2>1
  <2>3. CASE hooked[hslot[d]]
    BY <1>1, HandlersLive, <2>2, <2>3 DEF BpSetCall
  <2>4. CASE ~hooked[hslot[d]]
    <3>1. PICK u \in Threads : WaitsFor(u, d, hslot[d])
      BY <2>1, <2>4
    <3>2. WaitsFor(u, d, hslot[d])'
      BY <1>1, HandlersLive, <2>1, <2>2, <3>1 DEF BpSetCall, WaitsFor
    <3>3. QED
      BY <3>2
  <2>5. QED
    BY <2>3, <2>4
<1>2. ASSUME NEW t \in Threads, BpSetId(t) PROVE HandlerInv'
  BY <1>2 DEF BpSetId, SlotAfter, WaitsFor
<1>3. ASSUME NEW t \in Threads, ArmRefused(t) PROVE HandlerInv'
  BY <1>3 DEF ArmRefused, WaitsFor
<1>4. ASSUME NEW t \in Threads, ArmUprobeResolve(t) PROVE HandlerInv'
  BY <1>4 DEF ArmUprobeResolve, WaitsFor
<1>5. ASSUME NEW t \in Threads, ArmUprobePinMm(t) PROVE HandlerInv'
  BY <1>5 DEF ArmUprobePinMm, WaitsFor
<1>6. ASSUME NEW t \in Threads, ArmUprobeNoMm(t) PROVE HandlerInv'
  BY <1>6 DEF ArmUprobeNoMm, Iput, WaitsFor
<1>7. ASSUME NEW t \in Threads, ArmUprobeRegisterFails(t) PROVE HandlerInv'
  BY <1>7 DEF ArmUprobeRegisterFails, Iput, WaitsFor
<1>8. ASSUME NEW t \in Threads, Armed(t) PROVE HandlerInv'
  BY <1>8 DEF Armed, WaitsFor
<1>9. ASSUME NEW t \in Threads, BpSetFail(t) PROVE HandlerInv'
  BY <1>9 DEF BpSetFail, WaitsFor
<1>10. ASSUME NEW t \in Threads, BpSetInsert(t) PROVE HandlerInv'
  BY <1>10 DEF BpSetInsert, WaitsFor
<1>11. ASSUME NEW t \in Threads, BpSetReply(t) PROVE HandlerInv'
  BY <1>11 DEF BpSetReply, WaitsFor
<1>12. ASSUME NEW t \in Threads, NEW s \in Slots, BpClearCall(t, s) PROVE HandlerInv'
  BY <1>12 DEF BpClearCall, ListDel, WaitsFor
<1>13. ASSUME NEW t \in Threads, Release(t) PROVE HandlerInv'
  BY <1>13 DEF Release, SlotsToFree, WaitsFor
<1>14. ASSUME NEW t \in Threads, NEW s \in Slots, DetachHw(t, s) PROVE HandlerInv'
  <2>1. SUFFICES ASSUME NEW d \in Cpus, hslot[d] # NoSlot
                PROVE  hooked'[hslot[d]] \/ \E u \in Threads : WaitsFor(u, d, hslot[d])'
    BY <1>14 DEF DetachHw
  <2>2. hslot[d] \in Slots
    BY <2>1
  <2>3. CASE hooked[hslot[d]]
    BY <1>14, <2>2, <2>3 DEF DetachHw, WaitsFor
  <2>4. CASE ~hooked[hslot[d]]
    <3>1. PICK u \in Threads : WaitsFor(u, d, hslot[d])
      BY <2>1, <2>4
    <3>2. WaitsFor(u, d, hslot[d])'
      BY <1>14, <2>1, <2>2, <3>1 DEF DetachHw, WaitsFor
    <3>3. QED
      BY <3>2
  <2>5. QED
    BY <2>3, <2>4
<1>15. ASSUME NEW t \in Threads, NEW s \in Slots, DetachUprobe(t, s) PROVE HandlerInv'
  <2>1. SUFFICES ASSUME NEW d \in Cpus, hslot[d] # NoSlot
                PROVE  hooked'[hslot[d]] \/ \E u \in Threads : WaitsFor(u, d, hslot[d])'
    BY <1>15 DEF DetachUprobe
  <2>2. hslot[d] \in Slots
    BY <2>1
  <2>3. CASE hooked[hslot[d]]
    BY <1>15, <2>2, <2>3 DEF DetachUprobe, WaitsFor
  <2>4. CASE ~hooked[hslot[d]]
    <3>1. PICK u \in Threads : WaitsFor(u, d, hslot[d])
      BY <2>1, <2>4
    <3>2. WaitsFor(u, d, hslot[d])'
      BY <1>15, <2>1, <2>2, <3>1 DEF DetachUprobe, WaitsFor
    <3>3. QED
      BY <3>2
  <2>5. QED
    BY <2>3, <2>4
<1>16. ASSUME NEW t \in Threads, NEW s \in Slots, SlotReclaim(t, s) PROVE HandlerInv'
  BY <1>16 DEF SlotReclaim, Iput, StillDead, WaitsFor, OwnerInv, Mine
<1>17. ASSUME NEW t \in Threads, HwQuiesced(t) PROVE HandlerInv'
  <2>1. SUFFICES ASSUME NEW d \in Cpus, hslot[d] # NoSlot
                PROVE  hooked'[hslot[d]] \/ \E u \in Threads : WaitsFor(u, d, hslot[d])'
    BY <1>17 DEF HwQuiesced
  <2>2. hslot[d] \in Slots
    BY <2>1
  <2>3. CASE hooked[hslot[d]]
    BY <1>17, <2>2, <2>3 DEF HwQuiesced
  <2>4. CASE ~hooked[hslot[d]]
    <3>1. PICK u \in Threads : WaitsFor(u, d, hslot[d])
      BY <2>1, <2>4
    <3>2. WaitsFor(u, d, hslot[d])'
      BY <1>17, <2>1, <2>2, <3>1 DEF HwQuiesced, WaitsFor
    <3>3. QED
      BY <3>2
  <2>5. QED
    BY <2>3, <2>4
<1>18. ASSUME NEW t \in Threads, DetachDone(t) PROVE HandlerInv'
  <2>1. SUFFICES ASSUME NEW d \in Cpus, hslot[d] # NoSlot
                PROVE  hooked'[hslot[d]] \/ \E u \in Threads : WaitsFor(u, d, hslot[d])'
    BY <1>18 DEF DetachDone, SyncNeeded
  <2>2. hslot[d] \in Slots
    BY <2>1
  <2>3. CASE hooked[hslot[d]]
    BY <1>18, <2>2, <2>3 DEF DetachDone, SyncNeeded
  <2>4. CASE ~hooked[hslot[d]]
    <3>1. PICK u \in Threads : WaitsFor(u, d, hslot[d])
      BY <2>1, <2>4
    <3>2. WaitsFor(u, d, hslot[d])'
      BY <1>18, <2>1, <2>2, <3>1 DEF DetachDone, SyncNeeded, WaitsFor, RunningUprobeHandlers
    <3>3. QED
      BY <3>2
  <2>5. QED
    BY <2>3, <2>4
<1>19. ASSUME NEW t \in Threads, SyncDone(t) PROVE HandlerInv'
  BY <1>19 DEF SyncDone, WaitsFor
<1>20. ASSUME NEW t \in Threads, TeardownDone(t) PROVE HandlerInv'
  BY <1>20 DEF TeardownDone, WaitsFor
<1>21. ASSUME NEW t \in Threads, NEW m \in Timeouts, WaitEventCall(t, m) PROVE HandlerInv'
  BY <1>21 DEF WaitEventCall, WaitsFor
<1>22. ASSUME NEW t \in Threads, WaitEventCheck(t) PROVE HandlerInv'
  BY <1>22 DEF WaitEventCheck, WaitsFor
<1>23. ASSUME NEW t \in Threads, WaitEventTimeout(t) PROVE HandlerInv'
  BY <1>23 DEF WaitEventTimeout, StageAfterGivingUp, WaitsFor
<1>24. ASSUME NEW t \in Threads, WaitEventSignal(t) PROVE HandlerInv'
  BY <1>24 DEF WaitEventSignal, StageAfterGivingUp, WaitsFor
<1>25. ASSUME NEW t \in Threads, WaitEventTake(t) PROVE HandlerInv'
  BY <1>25 DEF WaitEventTake, WaitsFor
<1>26. ASSUME NEW c \in Cpus, NEW s \in Slots, HandlerEnter(c, s) PROVE HandlerInv'
  <2>1. \A u \in Threads, d \in Cpus, x \in Slots : WaitsFor(u, d, x)' <=> WaitsFor(u, d, x)
    BY <1>26 DEF HandlerEnter, WaitsFor
  <2>2. QED
    BY <1>26, <2>1 DEF HandlerEnter
<1>27. ASSUME NEW c \in Cpus, EmitEvent(c) PROVE HandlerInv'
  BY <1>27 DEF EmitEvent, RingFull, WaitsFor
<1>28. ASSUME NEW c \in Cpus, EmitWake(c) PROVE HandlerInv'
  <2>1. \A u \in Threads, d \in Cpus, x \in Slots :
          d # c => (WaitsFor(u, d, x)' <=> WaitsFor(u, d, x))
    BY <1>28 DEF EmitWake, Woken, WaitsFor
  <2>2. QED
    BY <1>28, <2>1 DEF EmitWake
<1>29. CASE UNCHANGED vars
  BY <1>29 DEF vars, WaitsFor
<1> HIDE DEF TypeOK, LocalInv, HandlerInv, Stages, SetStages, TeardownStages,
             WaitStages, Goto, sessVars, pinVars, slotVars, teardownVars, threadVars,
             handlerVars
<1>30. QED
  BY <1>1, <1>2, <1>3, <1>4, <1>5, <1>6, <1>7, <1>8, <1>9, <1>10, <1>11, <1>12, <1>13,
     <1>14, <1>15, <1>16, <1>17, <1>18, <1>19, <1>20, <1>21, <1>22, <1>23, <1>24,
     <1>25, <1>26, <1>27, <1>28, <1>29
     DEF Next, BpSet, Teardown, WaitEvent, Handler

\* Every step preserves NoLostWakeup.
LEMMA WakeStep == TypeOK /\ NoLostWakeup /\ [Next]_vars => NoLostWakeup'
<1> SUFFICES ASSUME TypeOK, NoLostWakeup, [Next]_vars PROVE NoLostWakeup'
  OBVIOUS
<1> USE NoSlotAssumption DEF TypeOK, NoLostWakeup, Stages, SetStages, TeardownStages,
            WaitStages, Goto, sessVars, pinVars, slotVars, teardownVars, threadVars,
            handlerVars
<1>1. ASSUME NEW t \in Threads, NEW s \in Slots, NEW k \in Kinds, BpSetCall(t, s, k) PROVE NoLostWakeup'
  BY <1>1 DEF BpSetCall
<1>2. ASSUME NEW t \in Threads, BpSetId(t) PROVE NoLostWakeup'
  BY <1>2 DEF BpSetId, SlotAfter
<1>3. ASSUME NEW t \in Threads, ArmRefused(t) PROVE NoLostWakeup'
  BY <1>3 DEF ArmRefused
<1>4. ASSUME NEW t \in Threads, ArmUprobeResolve(t) PROVE NoLostWakeup'
  BY <1>4 DEF ArmUprobeResolve
<1>5. ASSUME NEW t \in Threads, ArmUprobePinMm(t) PROVE NoLostWakeup'
  BY <1>5 DEF ArmUprobePinMm
<1>6. ASSUME NEW t \in Threads, ArmUprobeNoMm(t) PROVE NoLostWakeup'
  BY <1>6 DEF ArmUprobeNoMm, Iput
<1>7. ASSUME NEW t \in Threads, ArmUprobeRegisterFails(t) PROVE NoLostWakeup'
  BY <1>7 DEF ArmUprobeRegisterFails, Iput
<1>8. ASSUME NEW t \in Threads, Armed(t) PROVE NoLostWakeup'
  BY <1>8 DEF Armed
<1>9. ASSUME NEW t \in Threads, BpSetFail(t) PROVE NoLostWakeup'
  BY <1>9 DEF BpSetFail
<1>10. ASSUME NEW t \in Threads, BpSetInsert(t) PROVE NoLostWakeup'
  BY <1>10 DEF BpSetInsert
<1>11. ASSUME NEW t \in Threads, BpSetReply(t) PROVE NoLostWakeup'
  BY <1>11 DEF BpSetReply
<1>12. ASSUME NEW t \in Threads, NEW s \in Slots, BpClearCall(t, s) PROVE NoLostWakeup'
  BY <1>12 DEF BpClearCall, ListDel
<1>13. ASSUME NEW t \in Threads, Release(t) PROVE NoLostWakeup'
  BY <1>13 DEF Release, SlotsToFree
<1>14. ASSUME NEW t \in Threads, NEW s \in Slots, DetachHw(t, s) PROVE NoLostWakeup'
  BY <1>14 DEF DetachHw
<1>15. ASSUME NEW t \in Threads, NEW s \in Slots, DetachUprobe(t, s) PROVE NoLostWakeup'
  BY <1>15 DEF DetachUprobe
<1>16. ASSUME NEW t \in Threads, NEW s \in Slots, SlotReclaim(t, s) PROVE NoLostWakeup'
  BY <1>16 DEF SlotReclaim, Iput, StillDead
<1>17. ASSUME NEW t \in Threads, HwQuiesced(t) PROVE NoLostWakeup'
  BY <1>17 DEF HwQuiesced
<1>18. ASSUME NEW t \in Threads, DetachDone(t) PROVE NoLostWakeup'
  BY <1>18 DEF DetachDone, SyncNeeded
<1>19. ASSUME NEW t \in Threads, SyncDone(t) PROVE NoLostWakeup'
  BY <1>19 DEF SyncDone
<1>20. ASSUME NEW t \in Threads, TeardownDone(t) PROVE NoLostWakeup'
  BY <1>20 DEF TeardownDone
<1>21. ASSUME NEW t \in Threads, NEW m \in Timeouts, WaitEventCall(t, m) PROVE NoLostWakeup'
  BY <1>21 DEF WaitEventCall
<1>22. ASSUME NEW t \in Threads, WaitEventCheck(t) PROVE NoLostWakeup'
  BY <1>22 DEF WaitEventCheck
<1>23. ASSUME NEW t \in Threads, WaitEventTimeout(t) PROVE NoLostWakeup'
  BY <1>23 DEF WaitEventTimeout, StageAfterGivingUp
<1>24. ASSUME NEW t \in Threads, WaitEventSignal(t) PROVE NoLostWakeup'
  BY <1>24 DEF WaitEventSignal, StageAfterGivingUp
<1>25. ASSUME NEW t \in Threads, WaitEventTake(t) PROVE NoLostWakeup'
  BY <1>25 DEF WaitEventTake
<1>26. ASSUME NEW c \in Cpus, NEW s \in Slots, HandlerEnter(c, s) PROVE NoLostWakeup'
  BY <1>26 DEF HandlerEnter
<1>27. ASSUME NEW c \in Cpus, EmitEvent(c) PROVE NoLostWakeup'
  BY <1>27 DEF EmitEvent, RingFull
<1>28. ASSUME NEW c \in Cpus, EmitWake(c) PROVE NoLostWakeup'
  BY <1>28 DEF EmitWake, Woken
<1>29. CASE UNCHANGED vars
  BY <1>29 DEF vars
<1> HIDE DEF TypeOK, NoLostWakeup, Stages, SetStages, TeardownStages, WaitStages, Goto,
             sessVars, pinVars, slotVars, teardownVars, threadVars, handlerVars
<1>30. QED
  BY <1>1, <1>2, <1>3, <1>4, <1>5, <1>6, <1>7, <1>8, <1>9, <1>10, <1>11, <1>12, <1>13,
     <1>14, <1>15, <1>16, <1>17, <1>18, <1>19, <1>20, <1>21, <1>22, <1>23, <1>24,
     <1>25, <1>26, <1>27, <1>28, <1>29
     DEF Next, BpSet, Teardown, WaitEvent, Handler

\* A running handler's slot has its id: a slot still being numbered is private to
\* a BP_SET that has not armed it.
LEMMA HandlersNumbered ==
  TypeOK /\ LocalInv /\ OwnerInv /\ HookInv /\ HandlerInv =>
    \A c \in Cpus : hslot[c] # NoSlot => Numbered(hslot[c])
<1> SUFFICES ASSUME TypeOK, LocalInv, OwnerInv, HookInv, HandlerInv,
                    NEW c \in Cpus, hslot[c] # NoSlot
             PROVE  Numbered(hslot[c])
  OBVIOUS
<1>1. hslot[c] \in Slots /\ mem[hslot[c]] = "live"
  BY HandlersLive
<1>2. SUFFICES ASSUME NEW t \in Threads, pc[t] = "id", cur[t] = hslot[c]
               PROVE  FALSE
  BY <1>1 DEF Numbered
<1>3. Mine(t, hslot[c])
  BY <1>2 DEF Mine, SetStages
<1>4. dead[t] = {}
  BY <1>2 DEF LocalInv, TeardownStages
<1>5. CASE hooked[hslot[c]]
  <2>1. hslot[c] \notin slots
    BY <1>3 DEF OwnerInv
  <2>2. PICK u \in Threads :
          (pc[u] = "insert" /\ cur[u] = hslot[c])
            \/ (pc[u] \in {"detach", "hw_wait"} /\ hslot[c] \in dead[u])
    BY <1>1, <1>5, <2>1 DEF HookInv
  <2>3. Mine(u, hslot[c])
    BY <2>2 DEF Mine, SetStages
  <2>4. u = t
    BY <1>1, <1>3, <2>3 DEF OwnerInv
  <2>5. QED
    BY <1>2, <2>2, <2>4
<1>6. CASE \E u \in Threads : WaitsFor(u, c, hslot[c])
  <2>1. PICK u \in Threads : hslot[c] \in dead[u]
    BY <1>6 DEF WaitsFor
  <2>2. u = t
    BY <1>1, <1>3, <2>1 DEF OwnerInv, Mine
  <2>3. QED
    BY <1>4, <2>1, <2>2
<1>7. QED
  BY <1>5, <1>6 DEF HandlerInv

\* Every step preserves IdInv: next_slot only grows, and only the slot that takes
\* a number moves.
LEMMA IdStep == TypeOK /\ LocalInv /\ OwnerInv /\ IdInv /\ [Next]_vars => IdInv'
<1> SUFFICES ASSUME TypeOK, LocalInv, OwnerInv, IdInv, [Next]_vars PROVE IdInv'
  OBVIOUS
<1> USE NoSlotAssumption DEF TypeOK, LocalInv, IdInv, Stages, SetStages,
            TeardownStages, WaitStages, Goto, sessVars, pinVars, slotVars,
            teardownVars, threadVars, handlerVars
<1>1. ASSUME NEW t \in Threads, NEW s \in Slots, NEW k \in Kinds, BpSetCall(t, s, k) PROVE IdInv'
  <2>1. \A x \in Slots : Numbered(x)' <=> Numbered(x)
    BY <1>1 DEF BpSetCall, Numbered
  <2>2. QED
    BY <1>1, <2>1 DEF BpSetCall
<1>2. ASSUME NEW t \in Threads, BpSetId(t) PROVE IdInv'
  <2>1. cur[t] \in Slots /\ Mine(t, cur[t])
    BY <1>2 DEF BpSetId, Mine
  <2>2. mem[cur[t]] = "live" /\ \A u \in Threads : pc[u] = "id" /\ cur[u] = cur[t] => u = t
    BY <2>1 DEF OwnerInv, Mine
  <2>3. \A x \in Slots : Numbered(x)' <=> Numbered(x) \/ x = cur[t]
    BY <1>2, <2>1, <2>2 DEF BpSetId, Numbered
  <2>4. ~Numbered(cur[t])
    BY <1>2 DEF BpSetId, Numbered
  <2>5. \A x \in Slots : id'[x] = IF x = cur[t] THEN nextSlot ELSE id[x]
    BY <1>2 DEF BpSetId
  <2>6. nextSlot' = nextSlot + 1
    BY <1>2 DEF BpSetId, SlotAfter
  <2>7. \A x \in Slots : Numbered(x)' => id'[x] < nextSlot'
    <3>1. SUFFICES ASSUME NEW x \in Slots, Numbered(x)' PROVE id'[x] < nextSlot'
      OBVIOUS
    <3>2. CASE x = cur[t]
      BY <2>5, <2>6, <3>2
    <3>3. CASE x # cur[t]
      BY <2>3, <2>5, <2>6, <3>1, <3>3
    <3>4. QED
      BY <3>2, <3>3
  <2>8. \A x, y \in Slots : Numbered(x)' /\ Numbered(y)' /\ x # y => id'[x] # id'[y]
    <3>1. SUFFICES ASSUME NEW x \in Slots, NEW y \in Slots, Numbered(x)', Numbered(y)', x # y
                   PROVE  id'[x] # id'[y]
      OBVIOUS
    <3>2. CASE x # cur[t] /\ y # cur[t]
      BY <2>3, <2>5, <3>1, <3>2
    <3>3. CASE x = cur[t]
      <4>1. Numbered(y) /\ id'[y] = id[y] /\ id'[x] = nextSlot
        BY <2>3, <2>5, <3>1, <3>3
      <4>2. QED
        BY <4>1
    <3>4. CASE y = cur[t]
      <4>1. Numbered(x) /\ id'[x] = id[x] /\ id'[y] = nextSlot
        BY <2>3, <2>5, <3>1, <3>4
      <4>2. QED
        BY <4>1
    <3>5. QED
      BY <3>2, <3>3, <3>4
  <2>9. QED
    BY <2>7, <2>8
<1>3. ASSUME NEW t \in Threads, ArmRefused(t) PROVE IdInv'
  <2>1. \A x \in Slots : Numbered(x)' <=> Numbered(x)
    BY <1>3 DEF ArmRefused, Numbered
  <2>2. QED
    BY <1>3, <2>1 DEF ArmRefused
<1>4. ASSUME NEW t \in Threads, ArmUprobeResolve(t) PROVE IdInv'
  <2>1. \A x \in Slots : Numbered(x)' <=> Numbered(x)
    BY <1>4 DEF ArmUprobeResolve, Numbered
  <2>2. QED
    BY <1>4, <2>1 DEF ArmUprobeResolve
<1>5. ASSUME NEW t \in Threads, ArmUprobePinMm(t) PROVE IdInv'
  <2>1. \A x \in Slots : Numbered(x)' <=> Numbered(x)
    BY <1>5 DEF ArmUprobePinMm, Numbered
  <2>2. QED
    BY <1>5, <2>1 DEF ArmUprobePinMm
<1>6. ASSUME NEW t \in Threads, ArmUprobeNoMm(t) PROVE IdInv'
  <2>1. \A x \in Slots : Numbered(x)' <=> Numbered(x)
    BY <1>6 DEF ArmUprobeNoMm, Iput, Numbered
  <2>2. QED
    BY <1>6, <2>1 DEF ArmUprobeNoMm, Iput
<1>7. ASSUME NEW t \in Threads, ArmUprobeRegisterFails(t) PROVE IdInv'
  <2>1. \A x \in Slots : Numbered(x)' <=> Numbered(x)
    BY <1>7 DEF ArmUprobeRegisterFails, Iput, Numbered
  <2>2. QED
    BY <1>7, <2>1 DEF ArmUprobeRegisterFails, Iput
<1>8. ASSUME NEW t \in Threads, Armed(t) PROVE IdInv'
  <2>1. \A x \in Slots : Numbered(x)' <=> Numbered(x)
    BY <1>8 DEF Armed, Numbered
  <2>2. QED
    BY <1>8, <2>1 DEF Armed
<1>9. ASSUME NEW t \in Threads, BpSetFail(t) PROVE IdInv'
  <2>0. mem[cur[t]] = "live"
    BY <1>9 DEF BpSetFail, OwnerInv, Mine
  <2>1. \A x \in Slots : Numbered(x)' <=> Numbered(x)
    BY <1>9, <2>0 DEF BpSetFail, Numbered
  <2>2. QED
    BY <1>9, <2>1 DEF BpSetFail
<1>10. ASSUME NEW t \in Threads, BpSetInsert(t) PROVE IdInv'
  <2>1. \A x \in Slots : Numbered(x)' <=> Numbered(x)
    BY <1>10 DEF BpSetInsert, Numbered
  <2>2. QED
    BY <1>10, <2>1 DEF BpSetInsert
<1>11. ASSUME NEW t \in Threads, BpSetReply(t) PROVE IdInv'
  <2>1. \A x \in Slots : Numbered(x)' <=> Numbered(x)
    BY <1>11 DEF BpSetReply, Numbered
  <2>2. QED
    BY <1>11, <2>1 DEF BpSetReply
<1>12. ASSUME NEW t \in Threads, NEW s \in Slots, BpClearCall(t, s) PROVE IdInv'
  <2>1. \A x \in Slots : Numbered(x)' <=> Numbered(x)
    BY <1>12 DEF BpClearCall, ListDel, Numbered
  <2>2. QED
    BY <1>12, <2>1 DEF BpClearCall, ListDel
<1>13. ASSUME NEW t \in Threads, Release(t) PROVE IdInv'
  <2>1. \A x \in Slots : Numbered(x)' <=> Numbered(x)
    BY <1>13 DEF Release, SlotsToFree, Numbered
  <2>2. QED
    BY <1>13, <2>1 DEF Release, SlotsToFree
<1>14. ASSUME NEW t \in Threads, NEW s \in Slots, DetachHw(t, s) PROVE IdInv'
  <2>1. \A x \in Slots : Numbered(x)' <=> Numbered(x)
    BY <1>14 DEF DetachHw, Numbered
  <2>2. QED
    BY <1>14, <2>1 DEF DetachHw
<1>15. ASSUME NEW t \in Threads, NEW s \in Slots, DetachUprobe(t, s) PROVE IdInv'
  <2>1. \A x \in Slots : Numbered(x)' <=> Numbered(x)
    BY <1>15 DEF DetachUprobe, Numbered
  <2>2. QED
    BY <1>15, <2>1 DEF DetachUprobe
<1>16. ASSUME NEW t \in Threads, NEW s \in Slots, SlotReclaim(t, s) PROVE IdInv'
  <2>0. mem[s] = "live"
    BY <1>16 DEF SlotReclaim, OwnerInv, Mine
  <2>1. \A x \in Slots : Numbered(x)' <=> Numbered(x)
    BY <1>16, <2>0 DEF SlotReclaim, Iput, StillDead, Numbered
  <2>2. QED
    BY <1>16, <2>1 DEF SlotReclaim, Iput, StillDead
<1>17. ASSUME NEW t \in Threads, HwQuiesced(t) PROVE IdInv'
  <2>1. \A x \in Slots : Numbered(x)' <=> Numbered(x)
    BY <1>17 DEF HwQuiesced, Numbered
  <2>2. QED
    BY <1>17, <2>1 DEF HwQuiesced
<1>18. ASSUME NEW t \in Threads, DetachDone(t) PROVE IdInv'
  <2>1. \A x \in Slots : Numbered(x)' <=> Numbered(x)
    BY <1>18 DEF DetachDone, SyncNeeded, Numbered
  <2>2. QED
    BY <1>18, <2>1 DEF DetachDone, SyncNeeded
<1>19. ASSUME NEW t \in Threads, SyncDone(t) PROVE IdInv'
  <2>1. \A x \in Slots : Numbered(x)' <=> Numbered(x)
    BY <1>19 DEF SyncDone, Numbered
  <2>2. QED
    BY <1>19, <2>1 DEF SyncDone
<1>20. ASSUME NEW t \in Threads, TeardownDone(t) PROVE IdInv'
  <2>1. \A x \in Slots : Numbered(x)' <=> Numbered(x)
    BY <1>20 DEF TeardownDone, Numbered
  <2>2. QED
    BY <1>20, <2>1 DEF TeardownDone
<1>21. ASSUME NEW t \in Threads, NEW m \in Timeouts, WaitEventCall(t, m) PROVE IdInv'
  <2>1. \A x \in Slots : Numbered(x)' <=> Numbered(x)
    BY <1>21 DEF WaitEventCall, Numbered
  <2>2. QED
    BY <1>21, <2>1 DEF WaitEventCall
<1>22. ASSUME NEW t \in Threads, WaitEventCheck(t) PROVE IdInv'
  <2>1. \A x \in Slots : Numbered(x)' <=> Numbered(x)
    BY <1>22 DEF WaitEventCheck, Numbered
  <2>2. QED
    BY <1>22, <2>1 DEF WaitEventCheck
<1>23. ASSUME NEW t \in Threads, WaitEventTimeout(t) PROVE IdInv'
  <2>1. \A x \in Slots : Numbered(x)' <=> Numbered(x)
    BY <1>23 DEF WaitEventTimeout, StageAfterGivingUp, Numbered
  <2>2. QED
    BY <1>23, <2>1 DEF WaitEventTimeout, StageAfterGivingUp
<1>24. ASSUME NEW t \in Threads, WaitEventSignal(t) PROVE IdInv'
  <2>1. \A x \in Slots : Numbered(x)' <=> Numbered(x)
    BY <1>24 DEF WaitEventSignal, StageAfterGivingUp, Numbered
  <2>2. QED
    BY <1>24, <2>1 DEF WaitEventSignal, StageAfterGivingUp
<1>25. ASSUME NEW t \in Threads, WaitEventTake(t) PROVE IdInv'
  <2>1. \A x \in Slots : Numbered(x)' <=> Numbered(x)
    BY <1>25 DEF WaitEventTake, Numbered
  <2>2. QED
    BY <1>25, <2>1 DEF WaitEventTake
<1>26. ASSUME NEW c \in Cpus, NEW s \in Slots, HandlerEnter(c, s) PROVE IdInv'
  <2>1. \A x \in Slots : Numbered(x)' <=> Numbered(x)
    BY <1>26 DEF HandlerEnter, Numbered
  <2>2. QED
    BY <1>26, <2>1 DEF HandlerEnter
<1>27. ASSUME NEW c \in Cpus, EmitEvent(c) PROVE IdInv'
  <2>1. \A x \in Slots : Numbered(x)' <=> Numbered(x)
    BY <1>27 DEF EmitEvent, RingFull, Numbered
  <2>2. QED
    BY <1>27, <2>1 DEF EmitEvent, RingFull
<1>28. ASSUME NEW c \in Cpus, EmitWake(c) PROVE IdInv'
  <2>1. \A x \in Slots : Numbered(x)' <=> Numbered(x)
    BY <1>28 DEF EmitWake, Woken, Numbered
  <2>2. QED
    BY <1>28, <2>1 DEF EmitWake, Woken
<1>29. CASE UNCHANGED vars
  BY <1>29 DEF vars, Numbered
<1> HIDE DEF TypeOK, LocalInv, IdInv, Stages, SetStages, TeardownStages, WaitStages,
             Goto, sessVars, pinVars, slotVars, teardownVars, threadVars, handlerVars
<1>30. QED
  BY <1>1, <1>2, <1>3, <1>4, <1>5, <1>6, <1>7, <1>8, <1>9, <1>10, <1>11, <1>12, <1>13,
     <1>14, <1>15, <1>16, <1>17, <1>18, <1>19, <1>20, <1>21, <1>22, <1>23, <1>24,
     <1>25, <1>26, <1>27, <1>28, <1>29
     DEF Next, BpSet, Teardown, WaitEvent, Handler

\* Every step preserves EventInv: an id is final before anything can be emitted
\* under it.
LEMMA EventStep == TypeOK /\ LocalInv /\ OwnerInv /\ HookInv /\ HandlerInv /\ EventInv /\ [Next]_vars => EventInv'
<1> SUFFICES ASSUME TypeOK, LocalInv, OwnerInv, HookInv, HandlerInv, EventInv, [Next]_vars PROVE EventInv'
  OBVIOUS
<1> USE NoSlotAssumption DEF TypeOK, LocalInv, EventInv, Events, Stages, SetStages,
            TeardownStages, WaitStages, Goto, sessVars, pinVars, slotVars,
            teardownVars, threadVars, handlerVars
<1>1. ASSUME NEW t \in Threads, NEW s \in Slots, NEW k \in Kinds, BpSetCall(t, s, k) PROVE EventInv'
  <2>1. \A x \in Slots : Numbered(x)' <=> Numbered(x)
    BY <1>1 DEF BpSetCall, Numbered
  <2>2. id' = id /\ ring' = ring
    BY <1>1 DEF BpSetCall
  <2>3. QED
    BY <2>1, <2>2
<1>2. ASSUME NEW t \in Threads, BpSetId(t) PROVE EventInv'
  <2>1. cur[t] \in Slots /\ Mine(t, cur[t])
    BY <1>2 DEF BpSetId, Mine
  <2>2. mem[cur[t]] = "live" /\ \A u \in Threads : pc[u] = "id" /\ cur[u] = cur[t] => u = t
    BY <2>1 DEF OwnerInv, Mine
  <2>3. \A x \in Slots : Numbered(x)' <=> Numbered(x) \/ x = cur[t]
    BY <1>2, <2>1, <2>2 DEF BpSetId, Numbered
  <2>4. ~Numbered(cur[t])
    BY <1>2 DEF BpSetId, Numbered
  <2>5. ring' = ring /\ \A x \in Slots : x # cur[t] => id'[x] = id[x]
    BY <1>2 DEF BpSetId
  <2>6. SUFFICES ASSUME NEW i \in 1 .. Len(ring'), NEW x \in Slots, ring'[i].src = x
                 PROVE  Numbered(x)' /\ ring'[i].id = id'[x]
    OBVIOUS
  <2>7. Numbered(x) /\ ring[i].id = id[x]
    BY <2>5, <2>6
  <2>8. QED
    BY <2>3, <2>4, <2>5, <2>7
<1>3. ASSUME NEW t \in Threads, ArmRefused(t) PROVE EventInv'
  <2>1. \A x \in Slots : Numbered(x)' <=> Numbered(x)
    BY <1>3 DEF ArmRefused, Numbered
  <2>2. id' = id /\ ring' = ring
    BY <1>3 DEF ArmRefused
  <2>3. QED
    BY <2>1, <2>2
<1>4. ASSUME NEW t \in Threads, ArmUprobeResolve(t) PROVE EventInv'
  <2>1. \A x \in Slots : Numbered(x)' <=> Numbered(x)
    BY <1>4 DEF ArmUprobeResolve, Numbered
  <2>2. id' = id /\ ring' = ring
    BY <1>4 DEF ArmUprobeResolve
  <2>3. QED
    BY <2>1, <2>2
<1>5. ASSUME NEW t \in Threads, ArmUprobePinMm(t) PROVE EventInv'
  <2>1. \A x \in Slots : Numbered(x)' <=> Numbered(x)
    BY <1>5 DEF ArmUprobePinMm, Numbered
  <2>2. id' = id /\ ring' = ring
    BY <1>5 DEF ArmUprobePinMm
  <2>3. QED
    BY <2>1, <2>2
<1>6. ASSUME NEW t \in Threads, ArmUprobeNoMm(t) PROVE EventInv'
  <2>1. \A x \in Slots : Numbered(x)' <=> Numbered(x)
    BY <1>6 DEF ArmUprobeNoMm, Iput, Numbered
  <2>2. id' = id /\ ring' = ring
    BY <1>6 DEF ArmUprobeNoMm, Iput
  <2>3. QED
    BY <2>1, <2>2
<1>7. ASSUME NEW t \in Threads, ArmUprobeRegisterFails(t) PROVE EventInv'
  <2>1. \A x \in Slots : Numbered(x)' <=> Numbered(x)
    BY <1>7 DEF ArmUprobeRegisterFails, Iput, Numbered
  <2>2. id' = id /\ ring' = ring
    BY <1>7 DEF ArmUprobeRegisterFails, Iput
  <2>3. QED
    BY <2>1, <2>2
<1>8. ASSUME NEW t \in Threads, Armed(t) PROVE EventInv'
  <2>1. \A x \in Slots : Numbered(x)' <=> Numbered(x)
    BY <1>8 DEF Armed, Numbered
  <2>2. id' = id /\ ring' = ring
    BY <1>8 DEF Armed
  <2>3. QED
    BY <2>1, <2>2
<1>9. ASSUME NEW t \in Threads, BpSetFail(t) PROVE EventInv'
  <2>0. mem[cur[t]] = "live"
    BY <1>9 DEF BpSetFail, OwnerInv, Mine
  <2>1. \A x \in Slots : Numbered(x)' <=> Numbered(x)
    BY <1>9, <2>0 DEF BpSetFail, Numbered
  <2>2. id' = id /\ ring' = ring
    BY <1>9 DEF BpSetFail
  <2>3. QED
    BY <2>1, <2>2
<1>10. ASSUME NEW t \in Threads, BpSetInsert(t) PROVE EventInv'
  <2>1. \A x \in Slots : Numbered(x)' <=> Numbered(x)
    BY <1>10 DEF BpSetInsert, Numbered
  <2>2. id' = id /\ ring' = ring
    BY <1>10 DEF BpSetInsert
  <2>3. QED
    BY <2>1, <2>2
<1>11. ASSUME NEW t \in Threads, BpSetReply(t) PROVE EventInv'
  <2>1. \A x \in Slots : Numbered(x)' <=> Numbered(x)
    BY <1>11 DEF BpSetReply, Numbered
  <2>2. id' = id /\ ring' = ring
    BY <1>11 DEF BpSetReply
  <2>3. QED
    BY <2>1, <2>2
<1>12. ASSUME NEW t \in Threads, NEW s \in Slots, BpClearCall(t, s) PROVE EventInv'
  <2>1. \A x \in Slots : Numbered(x)' <=> Numbered(x)
    BY <1>12 DEF BpClearCall, ListDel, Numbered
  <2>2. id' = id /\ ring' = ring
    BY <1>12 DEF BpClearCall, ListDel
  <2>3. QED
    BY <2>1, <2>2
<1>13. ASSUME NEW t \in Threads, Release(t) PROVE EventInv'
  <2>1. \A x \in Slots : Numbered(x)' <=> Numbered(x)
    BY <1>13 DEF Release, SlotsToFree, Numbered
  <2>2. id' = id /\ ring' = ring
    BY <1>13 DEF Release, SlotsToFree
  <2>3. QED
    BY <2>1, <2>2
<1>14. ASSUME NEW t \in Threads, NEW s \in Slots, DetachHw(t, s) PROVE EventInv'
  <2>1. \A x \in Slots : Numbered(x)' <=> Numbered(x)
    BY <1>14 DEF DetachHw, Numbered
  <2>2. id' = id /\ ring' = ring
    BY <1>14 DEF DetachHw
  <2>3. QED
    BY <2>1, <2>2
<1>15. ASSUME NEW t \in Threads, NEW s \in Slots, DetachUprobe(t, s) PROVE EventInv'
  <2>1. \A x \in Slots : Numbered(x)' <=> Numbered(x)
    BY <1>15 DEF DetachUprobe, Numbered
  <2>2. id' = id /\ ring' = ring
    BY <1>15 DEF DetachUprobe
  <2>3. QED
    BY <2>1, <2>2
<1>16. ASSUME NEW t \in Threads, NEW s \in Slots, SlotReclaim(t, s) PROVE EventInv'
  <2>0. mem[s] = "live"
    BY <1>16 DEF SlotReclaim, OwnerInv, Mine
  <2>1. \A x \in Slots : Numbered(x)' <=> Numbered(x)
    BY <1>16, <2>0 DEF SlotReclaim, Iput, StillDead, Numbered
  <2>2. id' = id /\ ring' = ring
    BY <1>16 DEF SlotReclaim, Iput, StillDead
  <2>3. QED
    BY <2>1, <2>2
<1>17. ASSUME NEW t \in Threads, HwQuiesced(t) PROVE EventInv'
  <2>1. \A x \in Slots : Numbered(x)' <=> Numbered(x)
    BY <1>17 DEF HwQuiesced, Numbered
  <2>2. id' = id /\ ring' = ring
    BY <1>17 DEF HwQuiesced
  <2>3. QED
    BY <2>1, <2>2
<1>18. ASSUME NEW t \in Threads, DetachDone(t) PROVE EventInv'
  <2>1. \A x \in Slots : Numbered(x)' <=> Numbered(x)
    BY <1>18 DEF DetachDone, SyncNeeded, Numbered
  <2>2. id' = id /\ ring' = ring
    BY <1>18 DEF DetachDone, SyncNeeded
  <2>3. QED
    BY <2>1, <2>2
<1>19. ASSUME NEW t \in Threads, SyncDone(t) PROVE EventInv'
  <2>1. \A x \in Slots : Numbered(x)' <=> Numbered(x)
    BY <1>19 DEF SyncDone, Numbered
  <2>2. id' = id /\ ring' = ring
    BY <1>19 DEF SyncDone
  <2>3. QED
    BY <2>1, <2>2
<1>20. ASSUME NEW t \in Threads, TeardownDone(t) PROVE EventInv'
  <2>1. \A x \in Slots : Numbered(x)' <=> Numbered(x)
    BY <1>20 DEF TeardownDone, Numbered
  <2>2. id' = id
    BY <1>20 DEF TeardownDone
  <2>3. CASE ring' = ring
    BY <2>1, <2>2, <2>3
  <2>4. CASE ring' = <<>>
    <3>1. Len(ring') = 0
      BY <2>4
    <3>2. QED
      BY <3>1
  <2>5. QED
    BY <1>20, <2>3, <2>4 DEF TeardownDone
<1>21. ASSUME NEW t \in Threads, NEW m \in Timeouts, WaitEventCall(t, m) PROVE EventInv'
  <2>1. \A x \in Slots : Numbered(x)' <=> Numbered(x)
    BY <1>21 DEF WaitEventCall, Numbered
  <2>2. id' = id /\ ring' = ring
    BY <1>21 DEF WaitEventCall
  <2>3. QED
    BY <2>1, <2>2
<1>22. ASSUME NEW t \in Threads, WaitEventCheck(t) PROVE EventInv'
  <2>1. \A x \in Slots : Numbered(x)' <=> Numbered(x)
    BY <1>22 DEF WaitEventCheck, Numbered
  <2>2. id' = id /\ ring' = ring
    BY <1>22 DEF WaitEventCheck
  <2>3. QED
    BY <2>1, <2>2
<1>23. ASSUME NEW t \in Threads, WaitEventTimeout(t) PROVE EventInv'
  <2>1. \A x \in Slots : Numbered(x)' <=> Numbered(x)
    BY <1>23 DEF WaitEventTimeout, StageAfterGivingUp, Numbered
  <2>2. id' = id /\ ring' = ring
    BY <1>23 DEF WaitEventTimeout, StageAfterGivingUp
  <2>3. QED
    BY <2>1, <2>2
<1>24. ASSUME NEW t \in Threads, WaitEventSignal(t) PROVE EventInv'
  <2>1. \A x \in Slots : Numbered(x)' <=> Numbered(x)
    BY <1>24 DEF WaitEventSignal, StageAfterGivingUp, Numbered
  <2>2. id' = id /\ ring' = ring
    BY <1>24 DEF WaitEventSignal, StageAfterGivingUp
  <2>3. QED
    BY <2>1, <2>2
<1>25. ASSUME NEW t \in Threads, WaitEventTake(t) PROVE EventInv'
  <2>1. \A x \in Slots : Numbered(x)' <=> Numbered(x)
    BY <1>25 DEF WaitEventTake, Numbered
  <2>2. id' = id
    BY <1>25 DEF WaitEventTake
  <2>3. CASE ring = <<>>
    BY <1>25, <2>1, <2>2, <2>3 DEF WaitEventTake
  <2>4. CASE ring # <<>>
    <3>1. ring' = Tail(ring)
      BY <1>25, <2>4 DEF WaitEventTake
    <3>2. \A i \in 1 .. Len(ring') : i + 1 \in 1 .. Len(ring) /\ ring'[i] = ring[i + 1]
      BY <2>4, <3>1
    <3>3. SUFFICES ASSUME NEW i \in 1 .. Len(ring'), NEW x \in Slots, ring'[i].src = x
                   PROVE  Numbered(x)' /\ ring'[i].id = id'[x]
      OBVIOUS
    <3>4. i + 1 \in 1 .. Len(ring) /\ ring'[i] = ring[i + 1]
      BY <3>2
    <3>5. Numbered(x) /\ ring[i + 1].id = id[x]
      BY <3>3, <3>4
    <3>6. QED
      BY <2>1, <2>2, <3>4, <3>5
  <2>5. QED
    BY <2>3, <2>4
<1>26. ASSUME NEW c \in Cpus, NEW s \in Slots, HandlerEnter(c, s) PROVE EventInv'
  <2>1. \A x \in Slots : Numbered(x)' <=> Numbered(x)
    BY <1>26 DEF HandlerEnter, Numbered
  <2>2. id' = id /\ ring' = ring
    BY <1>26 DEF HandlerEnter
  <2>3. QED
    BY <2>1, <2>2
<1>27. ASSUME NEW c \in Cpus, EmitEvent(c) PROVE EventInv'
  <2>1. \A x \in Slots : Numbered(x)' <=> Numbered(x)
    BY <1>27 DEF EmitEvent, Numbered
  <2>2. id' = id
    BY <1>27 DEF EmitEvent
  <2>3. hslot[c] \in Slots /\ Numbered(hslot[c])
    BY <1>27, HandlersNumbered DEF EmitEvent, HandlerInv
  <2>4. CASE ring' = ring
    BY <2>1, <2>2, <2>4
  <2>5. CASE ring' = Append(ring, [id |-> id[hslot[c]], src |-> hslot[c]])
    <3>1. \A i \in 1 .. Len(ring') :
            \/ i \in 1 .. Len(ring) /\ ring'[i] = ring[i]
            \/ ring'[i] = [id |-> id[hslot[c]], src |-> hslot[c]]
      BY <2>5
    <3>2. SUFFICES ASSUME NEW i \in 1 .. Len(ring'), NEW x \in Slots, ring'[i].src = x
                   PROVE  Numbered(x)' /\ ring'[i].id = id'[x]
      OBVIOUS
    <3>3. CASE i \in 1 .. Len(ring) /\ ring'[i] = ring[i]
      <4>1. Numbered(x) /\ ring[i].id = id[x]
        BY <3>2, <3>3
      <4>2. QED
        BY <2>1, <2>2, <3>3, <4>1
    <3>4. CASE ring'[i] = [id |-> id[hslot[c]], src |-> hslot[c]]
      <4>1. x = hslot[c] /\ ring'[i].id = id[x]
        BY <3>2, <3>4
      <4>2. QED
        BY <2>1, <2>2, <2>3, <4>1
    <3>5. QED
      BY <3>1, <3>3, <3>4
  <2>6. QED
    BY <1>27, <2>4, <2>5 DEF EmitEvent
<1>28. ASSUME NEW c \in Cpus, EmitWake(c) PROVE EventInv'
  <2>1. \A x \in Slots : Numbered(x)' <=> Numbered(x)
    BY <1>28 DEF EmitWake, Woken, Numbered
  <2>2. id' = id /\ ring' = ring
    BY <1>28 DEF EmitWake, Woken
  <2>3. QED
    BY <2>1, <2>2
<1>29. CASE UNCHANGED vars
  <2>1. \A x \in Slots : Numbered(x)' <=> Numbered(x)
    BY <1>29 DEF vars, Numbered
  <2>2. id' = id /\ ring' = ring
    BY <1>29 DEF vars
  <2>3. QED
    BY <2>1, <2>2
<1> HIDE DEF TypeOK, LocalInv, EventInv, Events, Stages, SetStages, TeardownStages,
             WaitStages, Goto, sessVars, pinVars, slotVars, teardownVars, threadVars,
             handlerVars
<1>30. QED
  BY <1>1, <1>2, <1>3, <1>4, <1>5, <1>6, <1>7, <1>8, <1>9, <1>10, <1>11, <1>12, <1>13,
     <1>14, <1>15, <1>16, <1>17, <1>18, <1>19, <1>20, <1>21, <1>22, <1>23, <1>24,
     <1>25, <1>26, <1>27, <1>28, <1>29
     DEF Next, BpSet, Teardown, WaitEvent, Handler

\* Every step preserves PinInv: references follow the slot's fields.
LEMMA PinStep == TypeOK /\ LocalInv /\ OwnerInv /\ PinInv /\ [Next]_vars => PinInv'
<1> SUFFICES ASSUME TypeOK, LocalInv, OwnerInv, PinInv, [Next]_vars PROVE PinInv'
  OBVIOUS
<1> USE NoSlotAssumption DEF TypeOK, LocalInv, PinInv, ReferencesBalanced, HoldsTask,
            Stages, SetStages, TeardownStages, WaitStages, Goto, sessVars, pinVars,
            slotVars, teardownVars, threadVars, handlerVars
<1>1. ASSUME NEW t \in Threads, NEW s \in Slots, NEW k \in Kinds, BpSetCall(t, s, k) PROVE PinInv'
  <2>1. \A u \in Threads : pc[u] \in SetStages \ {"reply"} => cur[u] # s
    BY <1>1 DEF BpSetCall, OwnerInv, Mine
  <2>2. (\A x \in Slots : mem[x] # "live" => ~inode[x] /\ ~mm[x])'
    BY <1>1, <2>1 DEF BpSetCall
  <2>3. (\A u \in Threads : pc[u] \in {"id", "arm", "arm_mm", "arm_fail"} =>
                            ~inode[cur[u]] /\ ~mm[cur[u]])'
    BY <1>1, <2>1 DEF BpSetCall
  <2>4. (\A u \in Threads : pc[u] = "arm_reg" => inode[cur[u]] /\ mm[cur[u]])'
    BY <1>1, <2>1 DEF BpSetCall
  <2>5. (\A x \in Slots : inodeRef[x] = IF InodeHeld(x) THEN 1 ELSE 0)'
    BY <1>1, <2>1 DEF BpSetCall, InodeHeld
  <2>6. (\A x \in Slots : mmRef[x] = IF mem[x] = "live" /\ mm[x] THEN 1 ELSE 0)'
    BY <1>1, <2>1 DEF BpSetCall
  <2>7. (\A u \in Threads : taskRef[u] = IF pc[u] \in HoldsTask THEN 1 ELSE 0)'
    BY <1>1, <2>1 DEF BpSetCall
  <2>8. QED
    BY <2>2, <2>3, <2>4, <2>5, <2>6, <2>7
<1>2. ASSUME NEW t \in Threads, BpSetId(t) PROVE PinInv'
  BY <1>2 DEF BpSetId, SlotAfter, InodeHeld
<1>3. ASSUME NEW t \in Threads, ArmRefused(t) PROVE PinInv'
  BY <1>3 DEF ArmRefused, InodeHeld
<1>4. ASSUME NEW t \in Threads, ArmUprobeResolve(t) PROVE PinInv'
  <2>1. cur[t] \in Slots /\ mem[cur[t]] = "live"
        /\ \A u \in Threads : pc[u] \in SetStages \ {"reply"} /\ cur[u] = cur[t] => u = t
    BY <1>4 DEF ArmUprobeResolve, OwnerInv, Mine
  <2>2. (\A x \in Slots : mem[x] # "live" => ~inode[x] /\ ~mm[x])'
    BY <1>4, <2>1 DEF ArmUprobeResolve
  <2>3. (\A u \in Threads : pc[u] \in {"id", "arm", "arm_mm", "arm_fail"} =>
                            ~inode[cur[u]] /\ ~mm[cur[u]])'
    BY <1>4, <2>1 DEF ArmUprobeResolve
  <2>4. (\A u \in Threads : pc[u] = "arm_reg" => inode[cur[u]] /\ mm[cur[u]])'
    BY <1>4, <2>1 DEF ArmUprobeResolve
  <2>5. (\A x \in Slots : inodeRef[x] = IF InodeHeld(x) THEN 1 ELSE 0)'
    BY <1>4, <2>1 DEF ArmUprobeResolve, InodeHeld
  <2>6. (\A x \in Slots : mmRef[x] = IF mem[x] = "live" /\ mm[x] THEN 1 ELSE 0)'
    BY <1>4, <2>1 DEF ArmUprobeResolve
  <2>7. (\A u \in Threads : taskRef[u] = IF pc[u] \in HoldsTask THEN 1 ELSE 0)'
    BY <1>4, <2>1 DEF ArmUprobeResolve
  <2>8. QED
    BY <2>2, <2>3, <2>4, <2>5, <2>6, <2>7
<1>5. ASSUME NEW t \in Threads, ArmUprobePinMm(t) PROVE PinInv'
  <2>1. cur[t] \in Slots /\ mem[cur[t]] = "live"
        /\ \A u \in Threads : pc[u] \in SetStages \ {"reply"} /\ cur[u] = cur[t] => u = t
    BY <1>5 DEF ArmUprobePinMm, OwnerInv, Mine
  <2>2. (\A x \in Slots : mem[x] # "live" => ~inode[x] /\ ~mm[x])'
    BY <1>5, <2>1 DEF ArmUprobePinMm
  <2>3. (\A u \in Threads : pc[u] \in {"id", "arm", "arm_mm", "arm_fail"} =>
                            ~inode[cur[u]] /\ ~mm[cur[u]])'
    BY <1>5, <2>1 DEF ArmUprobePinMm
  <2>4. (\A u \in Threads : pc[u] = "arm_reg" => inode[cur[u]] /\ mm[cur[u]])'
    BY <1>5, <2>1 DEF ArmUprobePinMm
  <2>5. (\A x \in Slots : inodeRef[x] = IF InodeHeld(x) THEN 1 ELSE 0)'
    BY <1>5, <2>1 DEF ArmUprobePinMm, InodeHeld
  <2>6. (\A x \in Slots : mmRef[x] = IF mem[x] = "live" /\ mm[x] THEN 1 ELSE 0)'
    BY <1>5, <2>1 DEF ArmUprobePinMm
  <2>7. (\A u \in Threads : taskRef[u] = IF pc[u] \in HoldsTask THEN 1 ELSE 0)'
    BY <1>5, <2>1 DEF ArmUprobePinMm
  <2>8. QED
    BY <2>2, <2>3, <2>4, <2>5, <2>6, <2>7
<1>6. ASSUME NEW t \in Threads, ArmUprobeNoMm(t) PROVE PinInv'
  <2>1. cur[t] \in Slots /\ mem[cur[t]] = "live"
        /\ \A u \in Threads : pc[u] \in SetStages \ {"reply"} /\ cur[u] = cur[t] => u = t
    BY <1>6 DEF ArmUprobeNoMm, OwnerInv, Mine
  <2>2. (\A x \in Slots : mem[x] # "live" => ~inode[x] /\ ~mm[x])'
    BY <1>6, <2>1 DEF ArmUprobeNoMm, Iput
  <2>3. (\A u \in Threads : pc[u] \in {"id", "arm", "arm_mm", "arm_fail"} =>
                            ~inode[cur[u]] /\ ~mm[cur[u]])'
    BY <1>6, <2>1 DEF ArmUprobeNoMm, Iput
  <2>4. (\A u \in Threads : pc[u] = "arm_reg" => inode[cur[u]] /\ mm[cur[u]])'
    BY <1>6, <2>1 DEF ArmUprobeNoMm, Iput
  <2>5. (\A x \in Slots : inodeRef[x] = IF InodeHeld(x) THEN 1 ELSE 0)'
    BY <1>6, <2>1 DEF ArmUprobeNoMm, Iput, InodeHeld
  <2>6. (\A x \in Slots : mmRef[x] = IF mem[x] = "live" /\ mm[x] THEN 1 ELSE 0)'
    BY <1>6, <2>1 DEF ArmUprobeNoMm, Iput
  <2>7. (\A u \in Threads : taskRef[u] = IF pc[u] \in HoldsTask THEN 1 ELSE 0)'
    BY <1>6, <2>1 DEF ArmUprobeNoMm, Iput
  <2>8. QED
    BY <2>2, <2>3, <2>4, <2>5, <2>6, <2>7
<1>7. ASSUME NEW t \in Threads, ArmUprobeRegisterFails(t) PROVE PinInv'
  <2>1. cur[t] \in Slots /\ mem[cur[t]] = "live"
        /\ \A u \in Threads : pc[u] \in SetStages \ {"reply"} /\ cur[u] = cur[t] => u = t
    BY <1>7 DEF ArmUprobeRegisterFails, OwnerInv, Mine
  <2>2. (\A x \in Slots : mem[x] # "live" => ~inode[x] /\ ~mm[x])'
    BY <1>7, <2>1 DEF ArmUprobeRegisterFails, Iput
  <2>3. (\A u \in Threads : pc[u] \in {"id", "arm", "arm_mm", "arm_fail"} =>
                            ~inode[cur[u]] /\ ~mm[cur[u]])'
    BY <1>7, <2>1 DEF ArmUprobeRegisterFails, Iput
  <2>4. (\A u \in Threads : pc[u] = "arm_reg" => inode[cur[u]] /\ mm[cur[u]])'
    BY <1>7, <2>1 DEF ArmUprobeRegisterFails, Iput
  <2>5. (\A x \in Slots : inodeRef[x] = IF InodeHeld(x) THEN 1 ELSE 0)'
    BY <1>7, <2>1 DEF ArmUprobeRegisterFails, Iput, InodeHeld
  <2>6. (\A x \in Slots : mmRef[x] = IF mem[x] = "live" /\ mm[x] THEN 1 ELSE 0)'
    BY <1>7, <2>1 DEF ArmUprobeRegisterFails, Iput
  <2>7. (\A u \in Threads : taskRef[u] = IF pc[u] \in HoldsTask THEN 1 ELSE 0)'
    BY <1>7, <2>1 DEF ArmUprobeRegisterFails, Iput
  <2>8. QED
    BY <2>2, <2>3, <2>4, <2>5, <2>6, <2>7
<1>8. ASSUME NEW t \in Threads, Armed(t) PROVE PinInv'
  BY <1>8 DEF Armed, InodeHeld
<1>9. ASSUME NEW t \in Threads, BpSetFail(t) PROVE PinInv'
  BY <1>9 DEF BpSetFail, InodeHeld
<1>10. ASSUME NEW t \in Threads, BpSetInsert(t) PROVE PinInv'
  BY <1>10 DEF BpSetInsert, InodeHeld
<1>11. ASSUME NEW t \in Threads, BpSetReply(t) PROVE PinInv'
  BY <1>11 DEF BpSetReply, InodeHeld
<1>12. ASSUME NEW t \in Threads, NEW s \in Slots, BpClearCall(t, s) PROVE PinInv'
  BY <1>12 DEF BpClearCall, ListDel, InodeHeld
<1>13. ASSUME NEW t \in Threads, Release(t) PROVE PinInv'
  BY <1>13 DEF Release, SlotsToFree, InodeHeld
<1>14. ASSUME NEW t \in Threads, NEW s \in Slots, DetachHw(t, s) PROVE PinInv'
  BY <1>14 DEF DetachHw, InodeHeld
<1>15. ASSUME NEW t \in Threads, NEW s \in Slots, DetachUprobe(t, s) PROVE PinInv'
  BY <1>15 DEF DetachUprobe, InodeHeld
<1>16. ASSUME NEW t \in Threads, NEW s \in Slots, SlotReclaim(t, s) PROVE PinInv'
  <2>1. mem[s] = "live" /\ \A u \in Threads : pc[u] \in SetStages \ {"reply"} => cur[u] # s
    BY <1>16 DEF SlotReclaim, OwnerInv, Mine
  <2>2. (\A x \in Slots : mem[x] # "live" => ~inode[x] /\ ~mm[x])'
    BY <1>16, <2>1 DEF SlotReclaim, Iput, StillDead
  <2>3. (\A u \in Threads : pc[u] \in {"id", "arm", "arm_mm", "arm_fail"} =>
                            ~inode[cur[u]] /\ ~mm[cur[u]])'
    BY <1>16, <2>1 DEF SlotReclaim, Iput, StillDead
  <2>4. (\A u \in Threads : pc[u] = "arm_reg" => inode[cur[u]] /\ mm[cur[u]])'
    BY <1>16, <2>1 DEF SlotReclaim, Iput, StillDead
  <2>5. (\A x \in Slots : inodeRef[x] = IF InodeHeld(x) THEN 1 ELSE 0)'
    BY <1>16, <2>1 DEF SlotReclaim, Iput, StillDead, InodeHeld
  <2>6. (\A x \in Slots : mmRef[x] = IF mem[x] = "live" /\ mm[x] THEN 1 ELSE 0)'
    BY <1>16, <2>1 DEF SlotReclaim, Iput, StillDead
  <2>7. (\A u \in Threads : taskRef[u] = IF pc[u] \in HoldsTask THEN 1 ELSE 0)'
    BY <1>16, <2>1 DEF SlotReclaim, Iput, StillDead
  <2>8. QED
    BY <2>2, <2>3, <2>4, <2>5, <2>6, <2>7
<1>17. ASSUME NEW t \in Threads, HwQuiesced(t) PROVE PinInv'
  BY <1>17 DEF HwQuiesced, InodeHeld
<1>18. ASSUME NEW t \in Threads, DetachDone(t) PROVE PinInv'
  BY <1>18 DEF DetachDone, SyncNeeded, InodeHeld
<1>19. ASSUME NEW t \in Threads, SyncDone(t) PROVE PinInv'
  BY <1>19 DEF SyncDone, InodeHeld
<1>20. ASSUME NEW t \in Threads, TeardownDone(t) PROVE PinInv'
  BY <1>20 DEF TeardownDone, InodeHeld
<1>21. ASSUME NEW t \in Threads, NEW m \in Timeouts, WaitEventCall(t, m) PROVE PinInv'
  BY <1>21 DEF WaitEventCall, InodeHeld
<1>22. ASSUME NEW t \in Threads, WaitEventCheck(t) PROVE PinInv'
  BY <1>22 DEF WaitEventCheck, InodeHeld
<1>23. ASSUME NEW t \in Threads, WaitEventTimeout(t) PROVE PinInv'
  BY <1>23 DEF WaitEventTimeout, StageAfterGivingUp, InodeHeld
<1>24. ASSUME NEW t \in Threads, WaitEventSignal(t) PROVE PinInv'
  BY <1>24 DEF WaitEventSignal, StageAfterGivingUp, InodeHeld
<1>25. ASSUME NEW t \in Threads, WaitEventTake(t) PROVE PinInv'
  BY <1>25 DEF WaitEventTake, InodeHeld
<1>26. ASSUME NEW c \in Cpus, NEW s \in Slots, HandlerEnter(c, s) PROVE PinInv'
  BY <1>26 DEF HandlerEnter, InodeHeld
<1>27. ASSUME NEW c \in Cpus, EmitEvent(c) PROVE PinInv'
  BY <1>27 DEF EmitEvent, RingFull, InodeHeld
<1>28. ASSUME NEW c \in Cpus, EmitWake(c) PROVE PinInv'
  BY <1>28 DEF EmitWake, Woken, InodeHeld
<1>29. CASE UNCHANGED vars
  BY <1>29 DEF vars, InodeHeld
<1> HIDE DEF TypeOK, LocalInv, PinInv, ReferencesBalanced, HoldsTask, Stages,
             SetStages, TeardownStages, WaitStages, Goto, sessVars, pinVars, slotVars,
             teardownVars, threadVars, handlerVars
<1>30. QED
  BY <1>1, <1>2, <1>3, <1>4, <1>5, <1>6, <1>7, <1>8, <1>9, <1>10, <1>11, <1>12, <1>13,
     <1>14, <1>15, <1>16, <1>17, <1>18, <1>19, <1>20, <1>21, <1>22, <1>23, <1>24,
     <1>25, <1>26, <1>27, <1>28, <1>29
     DEF Next, BpSet, Teardown, WaitEvent, Handler

\* The inductive step.
LEMMA StepIInv == IInv /\ [Next]_vars => IInv'
  BY TypeStep, LocalStep, OwnerStep, HookStep, HandlerStep, PhaseStep, IdStep, EventStep,
     PinStep, WakeStep DEF IInv, SafeInv, NumberInv

\* The inductive invariant holds in every reachable state.
THEOREM Invariance == Spec => []IInv
  BY InitIInv, StepIInv, PTL DEF Spec

\* A closed session has no live slot.
LEMMA ClosedHasNoSlot ==
  TypeOK /\ SafeInv /\ phase = "closed" => \A s \in Slots : mem[s] # "live"
<1> SUFFICES ASSUME TypeOK, SafeInv, phase = "closed", NEW s \in Slots
             PROVE  mem[s] # "live"
  OBVIOUS
<1>1. slots = {} /\ \A t \in Threads : pc[t] = "idle"
  BY DEF SafeInv, PhaseInv
<1>2. \A t \in Threads : dead[t] = {}
  BY <1>1 DEF SafeInv, LocalInv, TeardownStages
<1>3. \A t \in Threads : ~Mine(t, s)
  BY <1>1, <1>2 DEF Mine, SetStages
<1>4. QED
  BY <1>1, <1>3 DEF SafeInv, OwnerInv

\* Types are preserved by every ioctl, handler and close.
THEOREM TypeCorrect == Spec => []TypeOK
<1>1. IInv => TypeOK
  BY DEF IInv
<1>2. QED
  BY <1>1, Invariance, PTL

\* No handler ever touches a freed slot or a freed session.
THEOREM HandlersSafe == Spec => []HandlersSeeLiveSlots
<1>1. IInv => HandlersSeeLiveSlots
  <2>1. SUFFICES ASSUME IInv, NEW c \in Cpus, hslot[c] # NoSlot
                 PROVE  mem[hslot[c]] = "live" /\ phase # "closed"
    BY DEF HandlersSeeLiveSlots
  <2>2. hslot[c] \in Slots /\ mem[hslot[c]] = "live"
    BY <2>1, HandlersLive DEF IInv, SafeInv
  <2>3. QED
    BY <2>1, <2>2, ClosedHasNoSlot DEF IInv
<1>2. QED
  BY <1>1, Invariance, PTL

\* Every queued event carries the id of the slot that emitted it.
THEOREM EventsCorrect == Spec => []EventsNameTheirSlot
<1>1. IInv => EventsNameTheirSlot
  <2>1. SUFFICES ASSUME IInv, NEW i \in 1 .. Len(ring)
                 PROVE  ring[i].id = id[ring[i].src]
    BY DEF EventsNameTheirSlot
  <2>2. ring[i] \in Events
    BY <2>1 DEF IInv, TypeOK
  <2>3. ring[i].src \in Slots
    BY <2>2 DEF Events
  <2>4. QED
    BY <2>1, <2>3 DEF IInv, NumberInv, EventInv
<1>2. QED
  BY <1>1, Invariance, PTL

\* Slot ids are unique for the life of the fd.
THEOREM IdsUnique == Spec => []SlotIdsNeverReused
<1>1. IInv => SlotIdsNeverReused
  BY DEF IInv, NumberInv, IdInv, Numbered, SlotIdsNeverReused
<1>2. QED
  BY <1>1, Invariance, PTL

\* A slot has one owner as long as it lives: no leak, no double free.
THEOREM Ownership == Spec => []OneOwner
<1>1. IInv => OneOwner
  <2>1. SUFFICES ASSUME IInv PROVE OneOwner
    OBVIOUS
  <2>2. \A t \in Threads, s \in Slots : s \in Private(t) <=> Mine(t, s)
    BY <2>1 DEF Private, Mine, IInv, TypeOK
  <2>3. \A t \in Threads : Private(t) \subseteq Slots
    BY <2>1 DEF Private, IInv, TypeOK, SafeInv, LocalInv
  <2>4. \A t \in Threads : Private(t) \cap slots = {}
    BY <2>1, <2>2, <2>3 DEF IInv, SafeInv, OwnerInv
  <2>5. \A t, u \in Threads : t # u => Private(t) \cap Private(u) = {}
    BY <2>1, <2>2, <2>3 DEF IInv, SafeInv, OwnerInv
  <2>6. {s \in Slots : mem[s] = "live"} = slots \cup UNION {Private(t) : t \in Threads}
    BY <2>1, <2>2, <2>3 DEF IInv, SafeInv, OwnerInv, TypeOK
  <2>7. QED
    BY <2>4, <2>5, <2>6 DEF OneOwner
<1>2. QED
  BY <1>1, Invariance, PTL

\* Every reference is put exactly once.
THEOREM References == Spec => []ReferencesBalanced
<1>1. IInv => ReferencesBalanced
  BY DEF IInv, PinInv
<1>2. QED
  BY <1>1, Invariance, PTL

\* A waiter never sleeps through an event.
THEOREM WakeupsKept == Spec => []NoLostWakeup
<1>1. IInv => NoLostWakeup
  BY DEF IInv
<1>2. QED
  BY <1>1, Invariance, PTL

\* After ->release nothing is armed, allocated or pinned.
THEOREM CloseCleans == Spec => []ClosedIsClean
<1>1. IInv => ClosedIsClean
  <2>1. SUFFICES ASSUME IInv, phase = "closed", NEW s \in Slots
                 PROVE  ~hooked[s] /\ mem[s] # "live" /\ inodeRef[s] = 0 /\ mmRef[s] = 0
    BY DEF ClosedIsClean
  <2>2. mem[s] # "live"
    BY <2>1, ClosedHasNoSlot DEF IInv
  <2>3. \A t \in Threads : pc[t] = "idle"
    BY <2>1 DEF IInv, SafeInv, PhaseInv
  <2>4. ~hooked[s]
    BY <2>1, <2>2, <2>3 DEF IInv, SafeInv, HookInv, OwnerInv
  <2>5. inodeRef[s] = 0 /\ mmRef[s] = 0
    BY <2>1, <2>2, <2>3 DEF IInv, PinInv, ReferencesBalanced, InodeHeld
  <2>6. QED
    BY <2>2, <2>4, <2>5
<1>2. QED
  BY <1>1, Invariance, PTL

-----------------------------------------------------------------------------
(***************************************************************************)
(* The refinement: KmodBreakpoints implements BreakpointSession.           *)
(*                                                                         *)
(* The abstract session speaks of ids, the module of slot objects, so the  *)
(* step of the proof is that ids stand for slots: two slots that are being *)
(* armed or can fire never share an id, and a slot that is being armed     *)
(* cannot fire yet (ArmingFacts, FiringFacts).  Both follow from IInv.     *)
(***************************************************************************)

Fresh == {id[cur[t]] : t \in {u \in Threads : Arming(u)}}
ArmedIds == {id[s] : s \in {r \in Slots : Firing(r)}}
Queue == [i \in 1 .. Len(ring) |-> ring[i].id]

-----------------------------------------------------------------------------
\* A slot that is being armed has its number and its one owner, and cannot fire.
LEMMA ArmingFacts ==
  ASSUME IInv, NEW t \in Threads, Arming(t)
  PROVE  /\ cur[t] \in Slots /\ Numbered(cur[t]) /\ ~Firing(cur[t])
         /\ \A u \in Threads : (Arming(u) \/ pc[u] = "id") /\ u # t => cur[u] # cur[t]
<1> USE DEF IInv, SafeInv
<1>1. pc[t] \in SetStages \ {"reply", "insert", "id"} /\ pc[t] \notin TeardownStages
  BY DEF Arming, SetStages, TeardownStages
<1>2. cur[t] \in Slots /\ dead[t] = {} /\ Mine(t, cur[t])
  BY <1>1 DEF LocalInv, Mine
<1>3. \A u \in Threads : Mine(u, cur[t]) => u = t
  BY <1>2 DEF OwnerInv
<1>4. \A u \in Threads : (Arming(u) \/ pc[u] = "id") /\ u # t => cur[u] # cur[t]
  BY <1>3 DEF Mine, Arming, SetStages
<1>5. mem[cur[t]] = "live" /\ cur[t] \notin slots
  BY <1>2 DEF OwnerInv
<1>6. Numbered(cur[t])
  BY <1>1, <1>4, <1>5 DEF Numbered
<1>7. ~hooked[cur[t]]
  BY <1>1, <1>2, <1>3, <1>5 DEF HookInv, Mine, SetStages
<1>8. \A c \in Cpus : hslot[c] # cur[t]
  <2> SUFFICES ASSUME NEW c \in Cpus, hslot[c] = cur[t] PROVE FALSE
    OBVIOUS
  <2>1. hslot[c] # NoSlot
    BY <1>2, NoSlotAssumption
  <2>2. PICK u \in Threads : cur[t] \in dead[u]
    BY <1>7, <2>1 DEF HandlerInv, WaitsFor
  <2> QED
    BY <1>2, <1>3, <2>2 DEF Mine
<1> QED
  BY <1>2, <1>4, <1>6, <1>7, <1>8 DEF Firing

\* A slot that can fire has its number.
LEMMA FiringFacts ==
  ASSUME IInv, NEW s \in Slots, Firing(s)
  PROVE  Numbered(s)
<1> USE DEF IInv, SafeInv
<1>1. CASE \E c \in Cpus : hslot[c] = s
  BY <1>1, HandlersNumbered, NoSlotAssumption
<1>2. CASE hooked[s]
  <2>1. mem[s] = "live"
    BY <1>2 DEF OwnerInv, HookInv, Mine, SetStages
  <2>2. ASSUME NEW t \in Threads, pc[t] = "id", cur[t] = s PROVE FALSE
    <3>1. Mine(t, s) /\ dead[t] = {}
      BY <2>2 DEF Mine, SetStages, LocalInv, TeardownStages
    <3>2. s \notin slots /\ \A u \in Threads : Mine(u, s) => u = t
      BY <3>1 DEF OwnerInv
    <3> QED
      BY <1>2, <2>2, <3>1, <3>2 DEF HookInv, Mine, SetStages
  <2> QED
    BY <2>1, <2>2 DEF Numbered
<1> QED
  BY <1>1, <1>2 DEF Firing

\* Numbered slots are told apart by their ids.
LEMMA IdsTellApart ==
  ASSUME IInv, NEW r \in Slots, NEW s \in Slots, Numbered(r), Numbered(s), r # s
  PROVE  id[r] # id[s]
  BY DEF IInv, NumberInv, IdInv

\* A step that leaves the ids, the arming calls and their slots alone leaves Fresh.
LEMMA FreshKept ==
  ASSUME id' = id, \A u \in Threads : Arming(u)' <=> Arming(u),
         \A u \in Threads : Arming(u) => cur'[u] = cur[u]
  PROVE  Fresh' = Fresh
  BY DEF Fresh

LEMMA ArmedKept ==
  ASSUME id' = id, \A s \in Slots : Firing(s)' <=> Firing(s)
  PROVE  ArmedIds' = ArmedIds
  BY DEF ArmedIds

\* When t's call leaves the arming stages, just its id leaves Fresh.
LEMMA FreshLess ==
  ASSUME IInv, NEW t \in Threads, Arming(t), ~Arming(t)', id' = id, cur' = cur,
         \A u \in Threads : u # t => (Arming(u)' <=> Arming(u))
  PROVE  id[cur[t]] \in Fresh /\ Fresh' = Fresh \ {id[cur[t]]}
<1>1. id[cur[t]] \in Fresh
  BY DEF Fresh
<1>2. ASSUME NEW u \in Threads, Arming(u), u # t PROVE id[cur[u]] # id[cur[t]]
  BY <1>2, ArmingFacts, IdsTellApart
<1>3. \A x : x \in Fresh' <=> \E u \in Threads : Arming(u) /\ u # t /\ x = id[cur[u]]
  BY DEF Fresh
<1>4. \A x : x \in Fresh <=> \E u \in Threads : Arming(u) /\ x = id[cur[u]]
  BY DEF Fresh
<1>5. \A x : x \in Fresh' <=> x \in Fresh /\ x # id[cur[t]]
  BY <1>2, <1>3, <1>4
<1> QED
  BY <1>1, <1>5

\* When a slot stops firing, just its id leaves ArmedIds.
LEMMA ArmedLess ==
  ASSUME IInv, NEW s \in Slots, Firing(s), ~Firing(s)', id' = id,
         \A r \in Slots : r # s => (Firing(r)' <=> Firing(r))
  PROVE  id[s] \in ArmedIds /\ ArmedIds' = ArmedIds \ {id[s]}
<1>1. id[s] \in ArmedIds
  BY DEF ArmedIds
<1>2. ASSUME NEW r \in Slots, Firing(r), r # s PROVE id[r] # id[s]
  BY <1>2, FiringFacts, IdsTellApart
<1>3. \A x : x \in ArmedIds' <=> \E r \in Slots : Firing(r) /\ r # s /\ x = id[r]
  BY DEF ArmedIds
<1>4. \A x : x \in ArmedIds <=> \E r \in Slots : Firing(r) /\ x = id[r]
  BY DEF ArmedIds
<1>5. \A x : x \in ArmedIds' <=> x \in ArmedIds /\ x # id[s]
  BY <1>2, <1>3, <1>4
<1> QED
  BY <1>1, <1>5

-----------------------------------------------------------------------------
(* The steps of the abstract session, told of the mapped state.            *)

StillOpen == phase' # "closed" <=> phase # "closed"

LEMMA MapStutter ==
  ASSUME StillOpen, nextSlot' = nextSlot, Fresh' = Fresh, ArmedIds' = ArmedIds, Queue' = Queue
  PROVE  UNCHANGED Session!sessionVars
  BY DEF StillOpen, Session!sessionVars, Fresh, ArmedIds, Queue

LEMMA MapIssue ==
  ASSUME phase # "closed", phase' # "closed", nextSlot' = nextSlot + 1,
         Fresh' = Fresh \cup {nextSlot}, ArmedIds' = ArmedIds, Queue' = Queue
  PROVE  Session!SessionNext
  BY DEF Session!SessionNext, Session!Issue, Session!NewId, Fresh, ArmedIds, Queue

LEMMA MapRefuse ==
  ASSUME NEW i \in Fresh, StillOpen, nextSlot' = nextSlot, Fresh' = Fresh \ {i},
         ArmedIds' = ArmedIds, Queue' = Queue
  PROVE  Session!SessionNext
  BY DEF StillOpen, Session!SessionNext, Session!Refuse, Fresh, ArmedIds, Queue

LEMMA MapArm ==
  ASSUME NEW i \in Fresh, StillOpen, nextSlot' = nextSlot, Fresh' = Fresh \ {i},
         ArmedIds' = ArmedIds \cup {i}, Queue' = Queue
  PROVE  Session!SessionNext
  BY DEF StillOpen, Session!SessionNext, Session!Arm, Fresh, ArmedIds, Queue

LEMMA MapDisarm ==
  ASSUME NEW i \in ArmedIds, StillOpen, nextSlot' = nextSlot, Fresh' = Fresh,
         ArmedIds' = ArmedIds \ {i}, Queue' = Queue
  PROVE  Session!SessionNext
  BY DEF StillOpen, Session!SessionNext, Session!Disarm, Fresh, ArmedIds, Queue

LEMMA MapHit ==
  ASSUME NEW i \in ArmedIds, StillOpen, nextSlot' = nextSlot, Fresh' = Fresh,
         ArmedIds' = ArmedIds, Len(Queue) < RingDepth, Queue' = Append(Queue, i)
  PROVE  Session!SessionNext
  BY DEF StillOpen, Session!SessionNext, Session!Hit, Fresh, ArmedIds, Queue

LEMMA MapTake ==
  ASSUME StillOpen, nextSlot' = nextSlot, Fresh' = Fresh, ArmedIds' = ArmedIds,
         Queue # <<>>, Queue' = Tail(Queue)
  PROVE  Session!SessionNext
  BY DEF StillOpen, Session!SessionNext, Session!Take, Fresh, ArmedIds, Queue

LEMMA MapClose ==
  ASSUME phase # "closed", phase' = "closed", nextSlot' = nextSlot, Fresh = {}, ArmedIds = {},
         Fresh' = Fresh, ArmedIds' = ArmedIds, Queue' = <<>>
  PROVE  Session!SessionNext
  BY DEF Session!SessionNext, Session!Close, Fresh, ArmedIds, Queue

-----------------------------------------------------------------------------
(* Every step of the module is a step of the session or changes nothing of *)
(* it.                                                                     *)

\* The steps that only move a call along are invisible outside.
LEMMA QuietStep ==
  ASSUME id' = id, hooked' = hooked, hslot' = hslot, ring' = ring, nextSlot' = nextSlot, StillOpen,
         \A u \in Threads : (Arming(u)' <=> Arming(u)) /\ (Arming(u) => cur'[u] = cur[u])
  PROVE  UNCHANGED Session!sessionVars
<1>1. Fresh' = Fresh
  BY FreshKept
<1>2. \A s \in Slots : Firing(s)' <=> Firing(s)
  BY DEF Firing
<1>3. ArmedIds' = ArmedIds
  BY <1>2, ArmedKept
<1>4. Queue' = Queue
  BY DEF Queue
<1> QED
  BY <1>1, <1>3, <1>4, MapStutter

LEMMA QuietSteps ==
  ASSUME IInv,
         \E t \in Threads :
           \/ \E s \in Slots, k \in Kinds : BpSetCall(t, s, k)
           \/ ArmUprobeResolve(t) \/ ArmUprobePinMm(t)
           \/ BpSetFail(t) \/ BpSetInsert(t) \/ BpSetReply(t)
           \/ \E s \in Slots : BpClearCall(t, s) \/ SlotReclaim(t, s)
           \/ Release(t) \/ HwQuiesced(t) \/ DetachDone(t) \/ SyncDone(t)
           \/ \E m \in Timeouts : WaitEventCall(t, m)
           \/ WaitEventCheck(t) \/ WaitEventTimeout(t) \/ WaitEventSignal(t)
  PROVE  UNCHANGED Session!sessionVars
<1> USE DEF Goto, sessVars, pinVars, slotVars, teardownVars, threadVars, handlerVars
<1>t. pc \in [Threads -> Stages] /\ cur \in [Threads -> Slots \cup {NoSlot}]
  BY DEF IInv, TypeOK
<1>1. ASSUME NEW t \in Threads, NEW s \in Slots, NEW k \in Kinds, BpSetCall(t, s, k) PROVE UNCHANGED Session!sessionVars
  <2>1. \A u \in Threads : (Arming(u)' <=> Arming(u)) /\ (Arming(u) => cur'[u] = cur[u])
    BY <1>1, <1>t DEF BpSetCall, Arming
  <2> QED
    BY <1>1, <2>1, QuietStep DEF BpSetCall, StillOpen
<1>2. ASSUME NEW t \in Threads, ArmUprobeResolve(t) PROVE UNCHANGED Session!sessionVars
  <2>1. \A u \in Threads : (Arming(u)' <=> Arming(u)) /\ (Arming(u) => cur'[u] = cur[u])
    BY <1>2, <1>t DEF ArmUprobeResolve, Arming
  <2> QED
    BY <1>2, <2>1, QuietStep DEF ArmUprobeResolve, StillOpen
<1>3. ASSUME NEW t \in Threads, ArmUprobePinMm(t) PROVE UNCHANGED Session!sessionVars
  <2>1. \A u \in Threads : (Arming(u)' <=> Arming(u)) /\ (Arming(u) => cur'[u] = cur[u])
    BY <1>3, <1>t DEF ArmUprobePinMm, Arming
  <2> QED
    BY <1>3, <2>1, QuietStep DEF ArmUprobePinMm, StillOpen
<1>4. ASSUME NEW t \in Threads, BpSetFail(t) PROVE UNCHANGED Session!sessionVars
  <2>1. \A u \in Threads : (Arming(u)' <=> Arming(u)) /\ (Arming(u) => cur'[u] = cur[u])
    BY <1>4, <1>t DEF BpSetFail, Arming
  <2> QED
    BY <1>4, <2>1, QuietStep DEF BpSetFail, StillOpen
<1>5. ASSUME NEW t \in Threads, BpSetInsert(t) PROVE UNCHANGED Session!sessionVars
  <2>1. \A u \in Threads : (Arming(u)' <=> Arming(u)) /\ (Arming(u) => cur'[u] = cur[u])
    BY <1>5, <1>t DEF BpSetInsert, Arming
  <2> QED
    BY <1>5, <2>1, QuietStep DEF BpSetInsert, StillOpen
<1>6. ASSUME NEW t \in Threads, BpSetReply(t) PROVE UNCHANGED Session!sessionVars
  <2>1. \A u \in Threads : (Arming(u)' <=> Arming(u)) /\ (Arming(u) => cur'[u] = cur[u])
    BY <1>6, <1>t DEF BpSetReply, Arming
  <2> QED
    BY <1>6, <2>1, QuietStep DEF BpSetReply, StillOpen
<1>7. ASSUME NEW t \in Threads, NEW s \in Slots, BpClearCall(t, s) PROVE UNCHANGED Session!sessionVars
  <2>1. \A u \in Threads : (Arming(u)' <=> Arming(u)) /\ (Arming(u) => cur'[u] = cur[u])
    BY <1>7, <1>t DEF BpClearCall, Arming
  <2> QED
    BY <1>7, <2>1, QuietStep DEF BpClearCall, StillOpen
<1>8. ASSUME NEW t \in Threads, Release(t) PROVE UNCHANGED Session!sessionVars
  <2>1. \A u \in Threads : (Arming(u)' <=> Arming(u)) /\ (Arming(u) => cur'[u] = cur[u])
    BY <1>8, <1>t DEF Release, Arming
  <2> QED
    BY <1>8, <2>1, QuietStep DEF Release, StillOpen
<1>9. ASSUME NEW t \in Threads, NEW s \in Slots, SlotReclaim(t, s) PROVE UNCHANGED Session!sessionVars
  <2>1. \A u \in Threads : (Arming(u)' <=> Arming(u)) /\ (Arming(u) => cur'[u] = cur[u])
    BY <1>9, <1>t DEF SlotReclaim, Arming
  <2> QED
    BY <1>9, <2>1, QuietStep DEF SlotReclaim, StillOpen
<1>10. ASSUME NEW t \in Threads, HwQuiesced(t) PROVE UNCHANGED Session!sessionVars
  <2>1. \A u \in Threads : (Arming(u)' <=> Arming(u)) /\ (Arming(u) => cur'[u] = cur[u])
    BY <1>10, <1>t DEF HwQuiesced, Arming
  <2> QED
    BY <1>10, <2>1, QuietStep DEF HwQuiesced, StillOpen
<1>11. ASSUME NEW t \in Threads, DetachDone(t) PROVE UNCHANGED Session!sessionVars
  <2>1. \A u \in Threads : (Arming(u)' <=> Arming(u)) /\ (Arming(u) => cur'[u] = cur[u])
    BY <1>11, <1>t DEF DetachDone, Arming
  <2> QED
    BY <1>11, <2>1, QuietStep DEF DetachDone, StillOpen
<1>12. ASSUME NEW t \in Threads, SyncDone(t) PROVE UNCHANGED Session!sessionVars
  <2>1. \A u \in Threads : (Arming(u)' <=> Arming(u)) /\ (Arming(u) => cur'[u] = cur[u])
    BY <1>12, <1>t DEF SyncDone, Arming
  <2> QED
    BY <1>12, <2>1, QuietStep DEF SyncDone, StillOpen
<1>13. ASSUME NEW t \in Threads, NEW m \in Timeouts, WaitEventCall(t, m) PROVE UNCHANGED Session!sessionVars
  <2>1. \A u \in Threads : (Arming(u)' <=> Arming(u)) /\ (Arming(u) => cur'[u] = cur[u])
    BY <1>13, <1>t DEF WaitEventCall, Arming
  <2> QED
    BY <1>13, <2>1, QuietStep DEF WaitEventCall, StillOpen
<1>14. ASSUME NEW t \in Threads, WaitEventCheck(t) PROVE UNCHANGED Session!sessionVars
  <2>1. \A u \in Threads : (Arming(u)' <=> Arming(u)) /\ (Arming(u) => cur'[u] = cur[u])
    BY <1>14, <1>t DEF WaitEventCheck, Arming
  <2> QED
    BY <1>14, <2>1, QuietStep DEF WaitEventCheck, StillOpen
<1>15. ASSUME NEW t \in Threads, WaitEventTimeout(t) PROVE UNCHANGED Session!sessionVars
  <2>1. \A u \in Threads : (Arming(u)' <=> Arming(u)) /\ (Arming(u) => cur'[u] = cur[u])
    BY <1>15, <1>t DEF WaitEventTimeout, StageAfterGivingUp, Arming
  <2> QED
    BY <1>15, <2>1, QuietStep DEF WaitEventTimeout, StillOpen
<1>16. ASSUME NEW t \in Threads, WaitEventSignal(t) PROVE UNCHANGED Session!sessionVars
  <2>1. \A u \in Threads : (Arming(u)' <=> Arming(u)) /\ (Arming(u) => cur'[u] = cur[u])
    BY <1>16, <1>t DEF WaitEventSignal, StageAfterGivingUp, Arming
  <2> QED
    BY <1>16, <2>1, QuietStep DEF WaitEventSignal, StillOpen
<1> QED
  BY <1>1, <1>2, <1>3, <1>4, <1>5, <1>6, <1>7, <1>8, <1>9, <1>10, <1>11, <1>12, <1>13, <1>14, <1>15, <1>16

\* The steps that the client or the traced program can see.
LEMMA VisibleSteps ==
  ASSUME IInv, [Next]_vars,
         \/ \E t \in Threads :
              \/ BpSetId(t) \/ ArmRefused(t) \/ ArmUprobeNoMm(t) \/ ArmUprobeRegisterFails(t) \/ Armed(t)
              \/ \E s \in Slots : DetachHw(t, s) \/ DetachUprobe(t, s)
              \/ TeardownDone(t) \/ WaitEventTake(t)
         \/ \E c \in Cpus : Handler(c)
  PROVE  [Session!SessionNext]_(Session!sessionVars)
<1> USE DEF Goto, sessVars, pinVars, slotVars, teardownVars, threadVars, handlerVars
<1>t. /\ pc \in [Threads -> Stages] /\ cur \in [Threads -> Slots \cup {NoSlot}]
      /\ hooked \in [Slots -> BOOLEAN] /\ hslot \in [Cpus -> Slots \cup {NoSlot}]
      /\ ring \in Seq(Events) /\ Len(ring) <= RingDepth /\ nextSlot \in Nat
      /\ id \in [Slots -> Nat]
  BY DEF IInv, TypeOK
<1>1. ASSUME NEW t \in Threads, BpSetId(t) PROVE Session!SessionNext
  <2>1. phase = "open" /\ cur[t] \in Slots /\ ~Arming(t)
    BY <1>1 DEF BpSetId, IInv, SafeInv, LocalInv, PhaseInv, SetStages, TeardownStages, TypeOK, Arming
  <2>2. /\ id'[cur[t]] = nextSlot /\ \A s \in Slots : s # cur[t] => id'[s] = id[s]
        /\ nextSlot' = nextSlot + 1 /\ phase' = phase /\ ring' = ring /\ cur' = cur
        /\ hooked' = hooked /\ hslot' = hslot
    BY <1>1, <1>t, <2>1 DEF BpSetId, SlotAfter
  <2>3. \A u \in Threads : Arming(u)' <=> Arming(u) \/ u = t
    BY <1>1, <1>t DEF BpSetId, Arming
  <2>4. \A u \in Threads : Arming(u) => cur[u] \in Slots /\ cur[u] # cur[t]
    BY <1>1, <2>1, ArmingFacts DEF BpSetId
  <2>5. Fresh' = Fresh \cup {nextSlot}
    <3>1. \A x : x \in Fresh' <=> \E u \in Threads : (Arming(u) \/ u = t) /\ x = id'[cur[u]]
      BY <2>2, <2>3 DEF Fresh
    <3>2. \A x : x \in Fresh <=> \E u \in Threads : Arming(u) /\ x = id[cur[u]]
      BY DEF Fresh
    <3> QED
      BY <2>2, <2>4, <3>1, <3>2
  <2>6. \A s \in Slots : Firing(s)' <=> Firing(s)
    BY <2>2 DEF Firing
  <2>7. \A s \in Slots : Firing(s) => id'[s] = id[s]
    BY <1>1, <2>2, FiringFacts DEF Numbered, BpSetId
  <2>8. ArmedIds' = ArmedIds
    <3>1. \A x : x \in ArmedIds' <=> \E s \in Slots : Firing(s) /\ x = id'[s]
      BY <2>6 DEF ArmedIds
    <3>2. \A x : x \in ArmedIds <=> \E s \in Slots : Firing(s) /\ x = id[s]
      BY DEF ArmedIds
    <3> QED
      BY <2>7, <3>1, <3>2
  <2>9. Queue' = Queue
    BY <2>2 DEF Queue
  <2> QED
    BY <2>1, <2>2, <2>5, <2>8, <2>9, MapIssue
<1>2. ASSUME NEW t \in Threads, ArmRefused(t) \/ ArmUprobeNoMm(t) \/ ArmUprobeRegisterFails(t)
      PROVE  Session!SessionNext
  <2> USE DEF ArmRefused, ArmUprobeNoMm, ArmUprobeRegisterFails
  <2>1. /\ Arming(t) /\ ~Arming(t)' /\ \A u \in Threads : u # t => (Arming(u)' <=> Arming(u))
        /\ id' = id /\ cur' = cur /\ hooked' = hooked /\ hslot' = hslot
        /\ ring' = ring /\ nextSlot' = nextSlot /\ phase' = phase
    BY <1>2, <1>t DEF Arming
  <2>2. id[cur[t]] \in Fresh /\ Fresh' = Fresh \ {id[cur[t]]}
    BY <2>1, FreshLess
  <2>3. ArmedIds' = ArmedIds
    BY <2>1, ArmedKept DEF Firing
  <2>4. Queue' = Queue
    BY <2>1 DEF Queue
  <2> QED
    BY <2>1, <2>2, <2>3, <2>4, MapRefuse DEF StillOpen
<1>3. ASSUME NEW t \in Threads, Armed(t) PROVE Session!SessionNext
  <2>1. /\ Arming(t) /\ ~Arming(t)' /\ \A u \in Threads : u # t => (Arming(u)' <=> Arming(u))
        /\ id' = id /\ cur' = cur /\ hooked' = [hooked EXCEPT ![cur[t]] = TRUE] /\ hslot' = hslot
        /\ ring' = ring /\ nextSlot' = nextSlot /\ phase' = phase
    BY <1>3, <1>t DEF Armed, Arming
  <2>2. id[cur[t]] \in Fresh /\ Fresh' = Fresh \ {id[cur[t]]}
    BY <2>1, FreshLess
  <2>3. cur[t] \in Slots
    BY <2>1, ArmingFacts
  <2>4. \A s \in Slots : Firing(s)' <=> Firing(s) \/ s = cur[t]
    BY <1>t, <2>1, <2>3 DEF Firing
  <2>5. ArmedIds' = ArmedIds \cup {id[cur[t]]}
    <3>1. \A x : x \in ArmedIds' <=> \E s \in Slots : (Firing(s) \/ s = cur[t]) /\ x = id[s]
      BY <2>1, <2>4 DEF ArmedIds
    <3>2. \A x : x \in ArmedIds <=> \E s \in Slots : Firing(s) /\ x = id[s]
      BY DEF ArmedIds
    <3> QED
      BY <2>3, <3>1, <3>2
  <2>6. Queue' = Queue
    BY <2>1 DEF Queue
  <2> QED
    BY <2>1, <2>2, <2>5, <2>6, MapArm DEF StillOpen
<1>4. ASSUME NEW s \in Slots, Firing(s), id' = id, ring' = ring, nextSlot' = nextSlot, phase' = phase,
             Fresh' = Fresh, \A r \in Slots : r # s => (Firing(r)' <=> Firing(r))
      PROVE  [Session!SessionNext]_(Session!sessionVars)
  <2>1. Queue' = Queue
    BY <1>4 DEF Queue
  <2>2. CASE Firing(s)'
    <3>1. ArmedIds' = ArmedIds
      BY <1>4, <2>2, ArmedKept
    <3> QED
      BY <1>4, <2>1, <3>1, MapStutter DEF StillOpen
  <2>3. CASE ~Firing(s)'
    <3>1. id[s] \in ArmedIds /\ ArmedIds' = ArmedIds \ {id[s]}
      BY <1>4, <2>3, ArmedLess
    <3> QED
      BY <1>4, <2>1, <3>1, MapDisarm DEF StillOpen
  <2> QED
    BY <2>2, <2>3
<1>5. ASSUME NEW t \in Threads, NEW s \in Slots, DetachHw(t, s) \/ DetachUprobe(t, s)
      PROVE  [Session!SessionNext]_(Session!sessionVars)
  <2> USE DEF DetachHw, DetachUprobe
  <2>1. /\ hooked[s] /\ hooked' = [hooked EXCEPT ![s] = FALSE] /\ hslot' = hslot /\ id' = id
        /\ ring' = ring /\ nextSlot' = nextSlot /\ phase' = phase
        /\ \A u \in Threads : (Arming(u)' <=> Arming(u)) /\ (Arming(u) => cur'[u] = cur[u])
    BY <1>5, <1>t DEF Arming
  <2>2. Firing(s) /\ \A r \in Slots : r # s => (Firing(r)' <=> Firing(r))
    BY <1>t, <2>1 DEF Firing
  <2>3. Fresh' = Fresh
    BY <2>1, FreshKept
  <2> QED
    BY <1>4, <2>1, <2>2, <2>3
<1>6. ASSUME NEW t \in Threads, TeardownDone(t) PROVE [Session!SessionNext]_(Session!sessionVars)
  <2>1. /\ id' = id /\ hooked' = hooked /\ hslot' = hslot /\ nextSlot' = nextSlot
        /\ \A u \in Threads : (Arming(u)' <=> Arming(u)) /\ (Arming(u) => cur'[u] = cur[u])
    BY <1>6, <1>t DEF TeardownDone, Arming
  <2>2. CASE phase # "closing"
    BY <1>6, <2>1, <2>2, QuietStep DEF TeardownDone, StillOpen
  <2>3. CASE phase = "closing"
    <3>1. phase' = "closed" /\ ring' = <<>>
      BY <1>6, <2>3 DEF TeardownDone
    <3>2. \A u \in Threads : u # t => pc[u] = "idle"
      BY <1>6, <2>3 DEF TeardownDone, IInv, SafeInv, PhaseInv
    <3>3. Fresh = {}
      BY <1>6, <3>2 DEF TeardownDone, Fresh, Arming
    <3>4. \A u \in Threads, s \in Slots : ~Mine(u, s)
      BY <1>6, <3>2 DEF TeardownDone, IInv, SafeInv, LocalInv, Mine, SetStages, TeardownStages
    <3>5. ASSUME NEW s \in Slots, Firing(s) PROVE FALSE
      <4>1. slots = {}
        BY <2>3 DEF IInv, SafeInv, PhaseInv
      <4>2. mem[s] # "live"
        BY <3>4, <4>1 DEF IInv, SafeInv, OwnerInv
      <4>3. ~hooked[s]
        BY <3>4, <4>1 DEF IInv, SafeInv, HookInv, Mine, SetStages
      <4> QED
        BY <3>5, <4>2, <4>3, HandlersLive, NoSlotAssumption DEF Firing, IInv, SafeInv
    <3>6. ArmedIds = {}
      BY <3>5 DEF ArmedIds
    <3>7. Fresh' = Fresh
      BY <2>1, FreshKept
    <3>8. ArmedIds' = ArmedIds
      BY <2>1, ArmedKept DEF Firing
    <3>9. Queue' = <<>>
      BY <3>1 DEF Queue
    <3> QED
      BY <2>1, <2>3, <3>1, <3>3, <3>6, <3>7, <3>8, <3>9, MapClose
  <2> QED
    BY <2>2, <2>3
<1>7. ASSUME NEW t \in Threads, WaitEventTake(t) PROVE [Session!SessionNext]_(Session!sessionVars)
  <2>1. /\ id' = id /\ hooked' = hooked /\ hslot' = hslot /\ nextSlot' = nextSlot /\ phase' = phase
        /\ \A u \in Threads : (Arming(u)' <=> Arming(u)) /\ (Arming(u) => cur'[u] = cur[u])
    BY <1>7, <1>t DEF WaitEventTake, Arming
  <2>2. CASE ring = <<>>
    BY <1>7, <2>1, <2>2, QuietStep DEF WaitEventTake, StillOpen
  <2>3. CASE ring # <<>>
    <3>1. ring' = Tail(ring)
      BY <1>7, <2>3 DEF WaitEventTake
    <3>2. Queue # <<>> /\ Queue' = Tail(Queue)
      BY <1>t, <2>3, <3>1 DEF Queue
    <3>3. Fresh' = Fresh
      BY <2>1, FreshKept
    <3>4. ArmedIds' = ArmedIds
      BY <2>1, ArmedKept DEF Firing
    <3> QED
      BY <2>1, <3>2, <3>3, <3>4, MapTake DEF StillOpen
  <2> QED
    BY <2>2, <2>3
<1>8. ASSUME NEW c \in Cpus, NEW s \in Slots, HandlerEnter(c, s)
      PROVE [Session!SessionNext]_(Session!sessionVars)
  <2>1. /\ hooked[s] /\ hooked' = hooked /\ hslot' = [hslot EXCEPT ![c] = s] /\ id' = id
        /\ ring' = ring /\ nextSlot' = nextSlot /\ phase' = phase /\ pc' = pc /\ cur' = cur
        /\ hpc[c] = "out"
    BY <1>8 DEF HandlerEnter
  <2>2. hslot[c] = NoSlot
    BY <2>1 DEF IInv, SafeInv, HandlerInv
  <2>3. Firing(s) /\ \A r \in Slots : r # s => (Firing(r)' <=> Firing(r))
    BY <1>t, <2>1, <2>2, NoSlotAssumption DEF Firing
  <2>4. Fresh' = Fresh
    BY <2>1, FreshKept DEF Arming
  <2> QED
    BY <1>4, <2>1, <2>3, <2>4
<1>9. ASSUME NEW c \in Cpus, EmitEvent(c) PROVE [Session!SessionNext]_(Session!sessionVars)
  <2>1. /\ hooked' = hooked /\ hslot' = hslot /\ id' = id /\ hpc[c] = "entered"
        /\ nextSlot' = nextSlot /\ phase' = phase /\ pc' = pc /\ cur' = cur
    BY <1>9 DEF EmitEvent
  <2>2. hslot[c] \in Slots
    BY <1>t, <2>1 DEF IInv, SafeInv, HandlerInv
  <2>3. CASE Len(ring) = RingDepth
    BY <1>9, <2>1, <2>3, QuietStep DEF EmitEvent, RingFull, StillOpen, Arming
  <2>4. CASE Len(ring) # RingDepth
    <3>1. ring' = Append(ring, [id |-> id[hslot[c]], src |-> hslot[c]])
      BY <1>9, <2>4 DEF EmitEvent, RingFull
    <3>2. id[hslot[c]] \in ArmedIds
      BY <2>2 DEF ArmedIds, Firing
    <3>3. Len(Queue) < RingDepth /\ Queue' = Append(Queue, id[hslot[c]])
      BY <1>t, <2>2, <2>4, <3>1, RingDepthAssumption DEF Queue
    <3>4. Fresh' = Fresh
      BY <2>1, FreshKept DEF Arming
    <3>5. ArmedIds' = ArmedIds
      BY <2>1, ArmedKept DEF Firing
    <3> QED
      BY <2>1, <3>2, <3>3, <3>4, <3>5, MapHit DEF StillOpen
  <2> QED
    BY <2>3, <2>4
<1>10. ASSUME NEW c \in Cpus, EmitWake(c) PROVE [Session!SessionNext]_(Session!sessionVars)
  <2>1. /\ hooked' = hooked /\ hslot' = [hslot EXCEPT ![c] = NoSlot] /\ id' = id /\ hpc[c] = "wake"
        /\ ring' = ring /\ nextSlot' = nextSlot /\ phase' = phase /\ cur' = cur
        /\ \A u \in Threads : Arming(u)' <=> Arming(u)
    BY <1>10, <1>t DEF EmitWake, Woken, Arming
  <2>2. hslot[c] \in Slots
    BY <1>t, <2>1 DEF IInv, SafeInv, HandlerInv
  <2>3. Firing(hslot[c]) /\ \A r \in Slots : r # hslot[c] => (Firing(r)' <=> Firing(r))
    BY <1>t, <2>1, <2>2, NoSlotAssumption DEF Firing
  <2>4. Fresh' = Fresh
    BY <2>1, FreshKept
  <2> QED
    BY <1>4, <2>1, <2>2, <2>3, <2>4
<1> QED
  BY <1>1, <1>2, <1>3, <1>5, <1>6, <1>7, <1>8, <1>9, <1>10 DEF Handler

\* Every step of the module maps to a step of the session or to a stutter.
LEMMA StepMaps == IInv /\ [Next]_vars => [Session!SessionNext]_(Session!sessionVars)
<1> SUFFICES ASSUME IInv, [Next]_vars PROVE [Session!SessionNext]_(Session!sessionVars)
  OBVIOUS
<1>1. CASE UNCHANGED vars
  BY <1>1, QuietStep DEF vars, StillOpen, Arming
<1>2. CASE Next
  BY <1>2, QuietSteps, VisibleSteps DEF Next, BpSet, Teardown, WaitEvent
<1> QED
  BY <1>1, <1>2

LEMMA InitMaps == Init => Session!SessionInit
<1> SUFFICES ASSUME Init PROVE Session!SessionInit
  OBVIOUS
<1>1. Fresh = {}
  BY DEF Init, Fresh, Arming
<1>2. ArmedIds = {}
  BY NoSlotAssumption DEF Init, ArmedIds, Firing
<1>3. Queue = <<>>
  BY DEF Init, Queue
<1> QED
  BY <1>1, <1>2, <1>3 DEF Init, Session!SessionInit, Fresh, ArmedIds, Queue

\* The locks, grace periods and handlers of debugger.c implement the breakpoint
\* session that a client of one fd relies on.
THEOREM Refinement == Spec => ImplementsSession
  BY InitMaps, StepMaps, Invariance, PTL DEF Spec, ImplementsSession, Session!SessionSpec
=============================================================================
