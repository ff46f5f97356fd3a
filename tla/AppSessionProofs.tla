-------------------------- MODULE AppSessionProofs --------------------------
(***************************************************************************)
(* Proofs about AppSession, for any set of processes and classes and any   *)
(* choice of the parts that are looked at together.                        *)
(*                                                                         *)
(* The properties of what is on screen rest on facts about the jobs that   *)
(* no property states: an attach job is only ever in flight while nothing  *)
(* is attached (AttachInv), a job that is not idle carries the process it  *)
(* was started in (JobInv, ResolveInv), and a job that is idle carries     *)
(* none.                                                                   *)
(***************************************************************************)
EXTENDS AppSession, TLAPS

\* do_attach leaves the attached process before its job starts, and nothing else
\* attaches: when the job's result lands there is no session to overwrite.
AttachInv == attachJob.st # "idle" => proc = NoPid /\ attachJob.pid \in Pids

ResolveInv == resolveJob.st # "idle" => resolveJob.pid \in Pids /\ resolveJob.class \in Classes

JobInv ==
  \A p \in Panels : IF job[p].st = "idle" THEN job[p].pid = NoPid ELSE job[p].pid \in Pids

\* The Scanner is held by the panel or travels in the panel's job.
PartsInv == "scanner" \in Panels <=> "scanner" \in Holders

IInv ==
  /\ TypeOK /\ AttachInv /\ ResolveInv /\ JobInv /\ PartsInv
  /\ NothingStaleWithoutSwitch /\ ResetPanelsFollow
  /\ ScriptsKnowTheTarget /\ BaseOfSelectedClass

-----------------------------------------------------------------------------
USE DEF MaybePids, NoBase, NoJob, Spawn, JobType, Outcomes

LEMMA InitInv == Init => IInv
<1> SUFFICES ASSUME Init PROVE IInv
  OBVIOUS
<1>1. PICK P \in PartSets :
        /\ job = [p \in P \cap AllPanels |-> NoJob]
        /\ rows = [p \in P \cap AllPanels |-> NoPid]
        /\ bound = [h \in {"memory_viewer"} \cup (P \cap ({"scanner"} \cup AllSessions)) |-> NoPid]
  BY DEF Init
<1>2. Panels = P \cap AllPanels
  BY <1>1 DEF Panels
<1>3. Holders = {"memory_viewer"} \cup (P \cap ({"scanner"} \cup AllSessions))
  BY <1>1 DEF Holders
<1>4. TypeOK
  BY <1>1, <1>2, <1>3 DEF Init, TypeOK
<1>5. AttachInv /\ ResolveInv /\ JobInv /\ PartsInv
  BY <1>1, <1>2, <1>3 DEF Init, AttachInv, ResolveInv, JobInv, PartsInv, AllPanels, AllSessions
<1>6. NothingStaleWithoutSwitch /\ ResetPanelsFollow
  BY <1>1, <1>2, <1>3 DEF Init, NothingStaleWithoutSwitch, ResetPanelsFollow
<1>7. ScriptsKnowTheTarget /\ BaseOfSelectedClass
  BY DEF Init, ScriptsKnowTheTarget, BaseOfSelectedClass
<1> QED
  BY <1>4, <1>5, <1>6, <1>7 DEF IInv

\* Every step leaves the parts of the instance what they are and the invariant true.
LEMMA StepInv == IInv /\ [Next]_vars => IInv'
<1> SUFFICES ASSUME IInv, [Next]_vars PROVE IInv'
  OBVIOUS
<1> USE NoPidAssumption, NoClassAssumption DEF IInv
<1>1. ASSUME NEW p \in Pids, NEW started \in BOOLEAN, DoAttach(p, started) PROVE IInv'
  <2> USE <1>1 DEF DoAttach, ToldAfterDetachFirst, JobsAfterDetachFirst
  <2>1. Panels' = Panels /\ Holders' = Holders
    BY DEF TypeOK, Panels, Holders
  <2>2. attachJob' \in JobType({"none", "attach"}) /\ (AttachInv /\ ResolveInv)'
    BY DEF TypeOK, AttachInv, ResolveInv
  <2>3. job' \in [Panels -> JobType({"none", "search", "refine"})] /\ JobInv'
    <3>1. CASE proc = NoPid
      BY <2>1, <3>1 DEF TypeOK, JobInv
    <3>2. CASE job' = [q \in Panels |-> IF q = "disassembly" THEN NoJob ELSE job[q]]
      <4>1. NoJob \in JobType({"none", "search", "refine"})
        OBVIOUS
      <4>2. \A q \in Panels : job'[q] \in {NoJob, job[q]}
        BY <3>2
      <4> QED
        BY <2>1, <3>2, <4>1, <4>2 DEF TypeOK, JobInv
    <3> QED
      BY <3>1, <3>2
  <2>4. proc' \in MaybePids /\ told' \in MaybePids /\ base' \in [pid : Pids, class : Classes] \cup {NoBase}
        /\ rows' \in [Panels -> MaybePids] /\ bound' \in [Holders -> MaybePids] /\ switched' \in BOOLEAN
    BY DEF TypeOK
  <2>5. (TypeOK /\ PartsInv)'
    <3> HIDE DEF JobType
    <3> QED
      BY <2>1, <2>2, <2>3, <2>4 DEF TypeOK, PartsInv
  <2>6. (NothingStaleWithoutSwitch /\ ResetPanelsFollow /\ ScriptsKnowTheTarget
           /\ BaseOfSelectedClass)'
    BY <2>1 DEF TypeOK, JobInv, PartsInv,
       NothingStaleWithoutSwitch, ResetPanelsFollow, ScriptsKnowTheTarget, BaseOfSelectedClass
  <2> QED
    BY <2>2, <2>3, <2>5, <2>6
<1>2. ASSUME DoDetach PROVE IInv'
  <2>1. Panels' = Panels /\ Holders' = Holders
    BY <1>2 DEF DoDetach, JobsAfterDetach, TypeOK, Panels, Holders
  <2>2. (TypeOK /\ AttachInv /\ ResolveInv /\ JobInv /\ PartsInv)'
    BY <1>2, <2>1 DEF DoDetach, JobsAfterDetach, TypeOK, AttachInv, ResolveInv, JobInv, PartsInv
  <2>3. (NothingStaleWithoutSwitch /\ ResetPanelsFollow /\ ScriptsKnowTheTarget
           /\ BaseOfSelectedClass)'
    BY <1>2, <2>1 DEF DoDetach, JobsAfterDetach, TypeOK, JobInv, PartsInv,
       NothingStaleWithoutSwitch, ResetPanelsFollow, ScriptsKnowTheTarget, BaseOfSelectedClass
  <2> QED
    BY <2>2, <2>3
<1>3. ASSUME NEW c \in Classes \cup {NoClass}, SelectClass(c) PROVE IInv'
  <2>1. Panels' = Panels /\ Holders' = Holders
    BY <1>3 DEF SelectClass, TypeOK, Panels, Holders
  <2>2. (TypeOK /\ AttachInv /\ ResolveInv /\ JobInv /\ PartsInv)'
    BY <1>3, <2>1 DEF SelectClass, TypeOK, AttachInv, ResolveInv, JobInv, PartsInv
  <2>3. (NothingStaleWithoutSwitch /\ ResetPanelsFollow /\ ScriptsKnowTheTarget
           /\ BaseOfSelectedClass)'
    BY <1>3, <2>1 DEF SelectClass, TypeOK, JobInv, PartsInv,
       NothingStaleWithoutSwitch, ResetPanelsFollow, ScriptsKnowTheTarget, BaseOfSelectedClass
  <2> QED
    BY <2>2, <2>3
<1>4. ASSUME NEW c \in Classes \cup {NoClass}, ReplaceProject(c) PROVE IInv'
  <2>1. Panels' = Panels /\ Holders' = Holders
    BY <1>4 DEF ReplaceProject, TypeOK, Panels, Holders
  <2>2. (TypeOK /\ AttachInv /\ ResolveInv /\ JobInv /\ PartsInv)'
    BY <1>4, <2>1 DEF ReplaceProject, TypeOK, AttachInv, ResolveInv, JobInv, PartsInv
  <2>3. (NothingStaleWithoutSwitch /\ ResetPanelsFollow /\ ScriptsKnowTheTarget
           /\ BaseOfSelectedClass)'
    BY <1>4, <2>1 DEF ReplaceProject, TypeOK, JobInv, PartsInv,
       NothingStaleWithoutSwitch, ResetPanelsFollow, ScriptsKnowTheTarget, BaseOfSelectedClass
  <2> QED
    BY <2>2, <2>3
<1>5. ASSUME EditFormula PROVE IInv'
  <2>1. Panels' = Panels /\ Holders' = Holders
    BY <1>5 DEF EditFormula, TypeOK, Panels, Holders
  <2>2. (TypeOK /\ AttachInv /\ ResolveInv /\ JobInv /\ PartsInv)'
    BY <1>5, <2>1 DEF EditFormula, TypeOK, AttachInv, ResolveInv, JobInv, PartsInv
  <2>3. (NothingStaleWithoutSwitch /\ ResetPanelsFollow /\ ScriptsKnowTheTarget
           /\ BaseOfSelectedClass)'
    BY <1>5, <2>1 DEF EditFormula, TypeOK, JobInv, PartsInv,
       NothingStaleWithoutSwitch, ResetPanelsFollow, ScriptsKnowTheTarget, BaseOfSelectedClass
  <2> QED
    BY <2>2, <2>3
<1>6. ASSUME NEW c \in Classes, FollowPointer(c) PROVE IInv'
  <2>1. Panels' = Panels /\ Holders' = Holders
    BY <1>6 DEF FollowPointer, TypeOK, Panels, Holders
  <2>2. (TypeOK /\ AttachInv /\ ResolveInv /\ JobInv /\ PartsInv)'
    BY <1>6, <2>1 DEF FollowPointer, TypeOK, AttachInv, ResolveInv, JobInv, PartsInv
  <2>3. (NothingStaleWithoutSwitch /\ ResetPanelsFollow /\ ScriptsKnowTheTarget
           /\ BaseOfSelectedClass)'
    BY <1>6, <2>1 DEF FollowPointer, TypeOK, JobInv, PartsInv,
       NothingStaleWithoutSwitch, ResetPanelsFollow, ScriptsKnowTheTarget, BaseOfSelectedClass
  <2> QED
    BY <2>2, <2>3
<1>7. ASSUME DoResolveClassAddress PROVE IInv'
  <2>1. Panels' = Panels /\ Holders' = Holders
    BY <1>7 DEF DoResolveClassAddress, SelectedAndAttached, TypeOK, Panels, Holders
  <2>2. (TypeOK /\ AttachInv /\ ResolveInv /\ JobInv /\ PartsInv)'
    BY <1>7, <2>1 DEF DoResolveClassAddress, SelectedAndAttached, TypeOK, AttachInv, ResolveInv, JobInv, PartsInv
  <2>3. (NothingStaleWithoutSwitch /\ ResetPanelsFollow /\ ScriptsKnowTheTarget
           /\ BaseOfSelectedClass)'
    BY <1>7, <2>1 DEF DoResolveClassAddress, SelectedAndAttached, TypeOK, JobInv, PartsInv,
       NothingStaleWithoutSwitch, ResetPanelsFollow, ScriptsKnowTheTarget, BaseOfSelectedClass
  <2> QED
    BY <2>2, <2>3
<1>8. ASSUME NEW p \in Panels, Search(p) PROVE IInv'
  <2>1. Panels' = Panels /\ Holders' = Holders
    BY <1>8 DEF Search, TypeOK, Panels, Holders
  <2>2. (TypeOK /\ AttachInv /\ ResolveInv /\ JobInv /\ PartsInv)'
    BY <1>8, <2>1 DEF Search, TypeOK, AttachInv, ResolveInv, JobInv, PartsInv
  <2>3. (NothingStaleWithoutSwitch /\ ResetPanelsFollow /\ ScriptsKnowTheTarget
           /\ BaseOfSelectedClass)'
    BY <1>8, <2>1 DEF Search, TypeOK, JobInv, PartsInv,
       NothingStaleWithoutSwitch, ResetPanelsFollow, ScriptsKnowTheTarget, BaseOfSelectedClass
  <2> QED
    BY <2>2, <2>3
<1>9. ASSUME PointerScanRefused PROVE IInv'
  <2>1. Panels' = Panels /\ Holders' = Holders
    BY <1>9 DEF PointerScanRefused, TypeOK, Panels, Holders
  <2>2. (TypeOK /\ AttachInv /\ ResolveInv /\ JobInv /\ PartsInv)'
    BY <1>9, <2>1 DEF PointerScanRefused, TypeOK, AttachInv, ResolveInv, JobInv, PartsInv
  <2>3. (NothingStaleWithoutSwitch /\ ResetPanelsFollow /\ ScriptsKnowTheTarget
           /\ BaseOfSelectedClass)'
    BY <1>9, <2>1 DEF PointerScanRefused, TypeOK, JobInv, PartsInv,
       NothingStaleWithoutSwitch, ResetPanelsFollow, ScriptsKnowTheTarget, BaseOfSelectedClass
  <2> QED
    BY <2>2, <2>3
<1>10. ASSUME NextScan PROVE IInv'
  <2>1. Panels' = Panels /\ Holders' = Holders
    BY <1>10 DEF NextScan, TypeOK, Panels, Holders
  <2>2. (TypeOK /\ AttachInv /\ ResolveInv /\ JobInv /\ PartsInv)'
    BY <1>10, <2>1 DEF NextScan, TypeOK, AttachInv, ResolveInv, JobInv, PartsInv
  <2>3. (NothingStaleWithoutSwitch /\ ResetPanelsFollow /\ ScriptsKnowTheTarget
           /\ BaseOfSelectedClass)'
    BY <1>10, <2>1 DEF NextScan, TypeOK, JobInv, PartsInv,
       NothingStaleWithoutSwitch, ResetPanelsFollow, ScriptsKnowTheTarget, BaseOfSelectedClass
  <2> QED
    BY <2>2, <2>3
<1>11. ASSUME NEW p \in Panels, Refine(p) PROVE IInv'
  <2>1. Panels' = Panels /\ Holders' = Holders
    BY <1>11 DEF Refine, TypeOK, Panels, Holders
  <2>2. (TypeOK /\ AttachInv /\ ResolveInv /\ JobInv /\ PartsInv)'
    BY <1>11, <2>1 DEF Refine, TypeOK, AttachInv, ResolveInv, JobInv, PartsInv
  <2>3. (NothingStaleWithoutSwitch /\ ResetPanelsFollow /\ ScriptsKnowTheTarget
           /\ BaseOfSelectedClass)'
    BY <1>11, <2>1 DEF Refine, TypeOK, JobInv, PartsInv,
       NothingStaleWithoutSwitch, ResetPanelsFollow, ScriptsKnowTheTarget, BaseOfSelectedClass
  <2> QED
    BY <2>2, <2>3
<1>12. ASSUME NEW p \in Panels, NewSearch(p) PROVE IInv'
  <2>1. Panels' = Panels /\ Holders' = Holders
    BY <1>12 DEF NewSearch, TypeOK, Panels, Holders
  <2>2. (TypeOK /\ AttachInv /\ ResolveInv /\ JobInv /\ PartsInv)'
    BY <1>12, <2>1 DEF NewSearch, TypeOK, AttachInv, ResolveInv, JobInv, PartsInv
  <2>3. (NothingStaleWithoutSwitch /\ ResetPanelsFollow /\ ScriptsKnowTheTarget
           /\ BaseOfSelectedClass)'
    BY <1>12, <2>1 DEF NewSearch, TypeOK, JobInv, PartsInv,
       NothingStaleWithoutSwitch, ResetPanelsFollow, ScriptsKnowTheTarget, BaseOfSelectedClass
  <2> QED
    BY <2>2, <2>3
<1>13. ASSUME NEW h \in Holders, OpenSession(h) PROVE IInv'
  <2>1. Panels' = Panels /\ Holders' = Holders
    BY <1>13 DEF OpenSession, AllSessions, TypeOK, Panels, Holders
  <2>2. (TypeOK /\ AttachInv /\ ResolveInv /\ JobInv /\ PartsInv)'
    BY <1>13, <2>1 DEF OpenSession, AllSessions, TypeOK, AttachInv, ResolveInv, JobInv, PartsInv
  <2>3. (NothingStaleWithoutSwitch /\ ResetPanelsFollow /\ ScriptsKnowTheTarget
           /\ BaseOfSelectedClass)'
    BY <1>13, <2>1 DEF OpenSession, AllSessions, TypeOK, JobInv, PartsInv,
       NothingStaleWithoutSwitch, ResetPanelsFollow, ScriptsKnowTheTarget, BaseOfSelectedClass
  <2> QED
    BY <2>2, <2>3
<1>14. ASSUME NEW h \in Holders, CloseSession(h) PROVE IInv'
  <2>1. Panels' = Panels /\ Holders' = Holders
    BY <1>14 DEF CloseSession, AllSessions, TypeOK, Panels, Holders
  <2>2. (TypeOK /\ AttachInv /\ ResolveInv /\ JobInv /\ PartsInv)'
    BY <1>14, <2>1 DEF CloseSession, AllSessions, TypeOK, AttachInv, ResolveInv, JobInv, PartsInv
  <2>3. (NothingStaleWithoutSwitch /\ ResetPanelsFollow /\ ScriptsKnowTheTarget
           /\ BaseOfSelectedClass)'
    BY <1>14, <2>1 DEF CloseSession, AllSessions, TypeOK, JobInv, PartsInv,
       NothingStaleWithoutSwitch, ResetPanelsFollow, ScriptsKnowTheTarget, BaseOfSelectedClass
  <2> QED
    BY <2>2, <2>3
<1>15. ASSUME NEW p \in Panels, NEW o \in Outcomes, PanelWorkerEnds(p, o) PROVE IInv'
  <2>1. Panels' = Panels /\ Holders' = Holders
    BY <1>15 DEF PanelWorkerEnds, TypeOK, Panels, Holders
  <2>2. (TypeOK /\ AttachInv /\ ResolveInv /\ JobInv /\ PartsInv)'
    BY <1>15, <2>1 DEF PanelWorkerEnds, TypeOK, AttachInv, ResolveInv, JobInv, PartsInv
  <2>3. (NothingStaleWithoutSwitch /\ ResetPanelsFollow /\ ScriptsKnowTheTarget
           /\ BaseOfSelectedClass)'
    BY <1>15, <2>1 DEF PanelWorkerEnds, TypeOK, JobInv, PartsInv,
       NothingStaleWithoutSwitch, ResetPanelsFollow, ScriptsKnowTheTarget, BaseOfSelectedClass
  <2> QED
    BY <2>2, <2>3
<1>16. ASSUME NEW o \in Outcomes, AttachWorkerEnds(o) PROVE IInv'
  <2>1. Panels' = Panels /\ Holders' = Holders
    BY <1>16 DEF AttachWorkerEnds, TypeOK, Panels, Holders
  <2>2. (TypeOK /\ AttachInv /\ ResolveInv /\ JobInv /\ PartsInv)'
    BY <1>16, <2>1 DEF AttachWorkerEnds, TypeOK, AttachInv, ResolveInv, JobInv, PartsInv
  <2>3. (NothingStaleWithoutSwitch /\ ResetPanelsFollow /\ ScriptsKnowTheTarget
           /\ BaseOfSelectedClass)'
    BY <1>16, <2>1 DEF AttachWorkerEnds, TypeOK, JobInv, PartsInv,
       NothingStaleWithoutSwitch, ResetPanelsFollow, ScriptsKnowTheTarget, BaseOfSelectedClass
  <2> QED
    BY <2>2, <2>3
<1>17. ASSUME NEW o \in Outcomes, ResolveWorkerEnds(o) PROVE IInv'
  <2>1. Panels' = Panels /\ Holders' = Holders
    BY <1>17 DEF ResolveWorkerEnds, TypeOK, Panels, Holders
  <2>2. (TypeOK /\ AttachInv /\ ResolveInv /\ JobInv /\ PartsInv)'
    BY <1>17, <2>1 DEF ResolveWorkerEnds, TypeOK, AttachInv, ResolveInv, JobInv, PartsInv
  <2>3. (NothingStaleWithoutSwitch /\ ResetPanelsFollow /\ ScriptsKnowTheTarget
           /\ BaseOfSelectedClass)'
    BY <1>17, <2>1 DEF ResolveWorkerEnds, TypeOK, JobInv, PartsInv,
       NothingStaleWithoutSwitch, ResetPanelsFollow, ScriptsKnowTheTarget, BaseOfSelectedClass
  <2> QED
    BY <2>2, <2>3
<1>18. ASSUME Frame PROVE IInv'
  <2>1. Panels' = Panels /\ Holders' = Holders
    BY <1>18 DEF Frame, Panels, Holders
  <2>2. Attached => proc = NoPid /\ attachJob.pid \in Pids
    BY DEF Attached, AttachInv
  <2>3. \A p \in Panels : rows'[p] = IF Attached /\ p = "disassembly" THEN NoPid ELSE RowsAfterPoll(p)
    BY <1>18 DEF Frame
  <2>4. \A p \in Panels : job'[p] = IF Attached /\ p = "disassembly" THEN NoJob ELSE Polled(job[p])
    BY <1>18 DEF Frame
  <2>5. \A p \in Panels : RowsAfterPoll(p) \in {rows[p], NoPid, job[p].pid}
    BY DEF RowsAfterPoll
  <2>6. \A p \in Panels : Polled(job[p]) \in {job[p], NoJob}
    BY DEF Polled
  <2>7. \A h \in Holders : bound'[h] = CASE h = "scanner" -> ScannerAfterPoll
                                         [] h = "memory_viewer" /\ Attached -> attachJob.pid
                                         [] OTHER -> bound[h]
    BY <1>18 DEF Frame
  <2>8. ScannerAfterPoll \in {NoPid, bound["scanner"], job["scanner"].pid}
    BY DEF ScannerAfterPoll
  <2>9. attachJob' \in JobType({"none", "attach"}) /\ (AttachInv /\ ResolveInv)'
    BY <1>18, <2>2 DEF Frame, TypeOK, Polled, Attached, AttachInv, ResolveInv
  <2>10. base' \in [pid : Pids, class : Classes] \cup {NoBase} /\ BaseOfSelectedClass'
    BY <1>18 DEF Frame, TypeOK, ResolveInv, StillSelected, BaseOfSelectedClass
  <2>11. job' \in [Panels -> JobType({"none", "search", "refine"})] /\ JobInv'
    BY <1>18, <2>1, <2>4, <2>6 DEF Frame, TypeOK, JobInv
  <2>12. rows' \in [Panels -> MaybePids]
    BY <1>18, <2>3, <2>5 DEF Frame, TypeOK
  <2>13. bound' \in [Holders -> MaybePids]
    BY <1>18, <2>2, <2>7, <2>8 DEF Frame, TypeOK, PartsInv
  <2>14. (TypeOK /\ PartsInv /\ ScriptsKnowTheTarget)'
    BY <1>18, <2>1, <2>2, <2>9, <2>10, <2>11, <2>12, <2>13
       DEF Frame, TypeOK, PartsInv, ScriptsKnowTheTarget
  <2>15. NothingStaleWithoutSwitch'
    BY <1>18, <2>1, <2>2, <2>3, <2>4, <2>5, <2>6, <2>7, <2>8
       DEF Frame, TypeOK, JobInv, PartsInv, NothingStaleWithoutSwitch
  <2>16. ResetPanelsFollow'
    BY <1>18, <2>1, <2>2, <2>3, <2>4, <2>5, <2>6, <2>7
       DEF Frame, TypeOK, JobInv, ResetPanelsFollow
  <2> QED
    BY <2>9, <2>10, <2>11, <2>14, <2>15, <2>16
<1>19. ASSUME UNCHANGED vars PROVE IInv'
  BY <1>19 DEF vars, TypeOK, AttachInv, ResolveInv, JobInv, PartsInv, Panels, Holders,
     NothingStaleWithoutSwitch, ResetPanelsFollow, ScriptsKnowTheTarget, BaseOfSelectedClass
<1> QED
  <2> HIDE DEF IInv
  <2> QED
    BY <1>1, <1>2, <1>3, <1>4, <1>5, <1>6, <1>7, <1>8, <1>9, <1>10, <1>11, <1>12, <1>13,
       <1>14, <1>15, <1>16, <1>17, <1>18, <1>19 DEF Next, Click, WorkerEnds

\* What the properties below need holds in every state of every behaviour.
THEOREM AlwaysIInv == Spec => []IInv
  BY InitInv, StepInv, PTL DEF Spec

\* Every variable keeps its type: a base in force has a process and a class.
THEOREM TypeCorrect == Spec => []TypeOK
<1>1. IInv => TypeOK
  BY DEF IInv
<1> QED
  BY <1>1, AlwaysIInv, PTL

\* While every process is left by Detach, no row, job or open session of one process
\* is ever met in the session of another.
THEOREM NoStaleResults == Spec => []NothingStaleWithoutSwitch
<1>1. IInv => NothingStaleWithoutSwitch
  BY DEF IInv
<1> QED
  BY <1>1, AlwaysIInv, PTL

\* do_attach over a live session leaves nothing of the old process in the memory
\* viewer and the disassembler.
THEOREM ResetPanels == Spec => []ResetPanelsFollow
<1>1. IInv => ResetPanelsFollow
  BY DEF IInv
<1> QED
  BY <1>1, AlwaysIInv, PTL

\* The scripts' last OnAttach or OnDetach names the attached process (do_attach,
\* detach), whatever is attached over what.
THEOREM ScriptsFollow == Spec => []ScriptsKnowTheTarget
<1>1. IInv => ScriptsKnowTheTarget
  BY DEF IInv
<1> QED
  BY <1>1, AlwaysIInv, PTL

\* A resolved base in force belongs to the selected class (ingest_resolve), also when
\* the answer of the resolver lands after other classes were selected.
THEOREM BaseFollows == Spec => []BaseOfSelectedClass
<1>1. IInv => BaseOfSelectedClass
  BY DEF IInv
<1> QED
  BY <1>1, AlwaysIInv, PTL
=============================================================================
