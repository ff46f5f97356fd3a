----------------------------- MODULE AppSession -----------------------------
(***************************************************************************)
(* The attach session of the desktop app (nemclass-ui: views/mod.rs,       *)
(* views/tasks.rs and the panels that run background jobs).                *)
(*                                                                         *)
(* One UI thread runs frames: each frame drains the finished jobs, then    *)
(* the user's clicks change the session.  Every slow operation runs on a   *)
(* pool thread and hands its result back through a BackgroundJob.  The     *)
(* question is which process a result, a row on screen or a resolved base  *)
(* belongs to when it lands: every datum carries the process it came from. *)
(***************************************************************************)
EXTENDS Integers

CONSTANTS
  Pids,        \* processes the user can attach to
  NoPid,
  Classes,     \* class uuids, of this project or of another one
  NoClass,
  PartSets     \* which parts are looked at together: they only meet through proc

ASSUME NoPidAssumption == NoPid \notin Pids
ASSUME NoClassAssumption == NoClass \notin Classes

AllPanels == {"scanner", "pointer_scan", "spider", "disassembly"}
AllSessions == {"debugger", "script_scanner"}

ASSUME PartSetsAssumption == PartSets \subseteq SUBSET (AllPanels \cup AllSessions)

VARIABLES
  proc,        \* self.process
  told,        \* the process of the last OnAttach / OnDetach the scripts got
  selected,    \* self.selected_class
  base,        \* self.script_resolved_base: the class it is for, the process it is in
  attachJob,
  resolveJob,
  job,         \* each panel's scan / rescan / refine / dissect job
  rows,        \* the process each panel's results came from
  bound,       \* the process a synchronously opened session is bound to
  switched     \* ghost: attached over a live session since the last full detach

vars == <<proc, told, selected, base, attachJob, resolveJob, job, rows, bound, switched>>

\* The parts of this instance, chosen by Init.
Panels == DOMAIN rows
Holders == DOMAIN bound
MaybePids == Pids \cup {NoPid}
NoBase == [pid |-> NoPid, class |-> NoClass]

\* BackgroundJob: the result is "ok" or "err" (failed, or stopped by the user);
\* "dead" is a worker that went away without sending.  took is what it was given.
NoJob == [st |-> "idle", pid |-> NoPid, kind |-> "none", took |-> NoPid]
Spawn(p, kind, took) == [st |-> "running", pid |-> p, kind |-> kind, took |-> took]
Outcomes == {"ok", "err", "dead"}

\* Mutation: a lost worker leaves its receiver in place.
StuckOnLostWorker(j) == IF j.st \in {"ok", "err"} THEN NoJob ELSE j

\* BackgroundJob::poll: whatever came back, the job is idle again.
Polled(j) == IF j.st \in Outcomes THEN NoJob ELSE j

Init ==
  /\ proc = NoPid /\ told = NoPid
  /\ selected \in Classes \cup {NoClass}
  /\ base = NoBase
  /\ attachJob = NoJob
  /\ resolveJob = [st |-> "idle", pid |-> NoPid, class |-> NoClass]
  /\ \E P \in PartSets :
       /\ job = [p \in P \cap AllPanels |-> NoJob]
       /\ rows = [p \in P \cap AllPanels |-> NoPid]
       /\ bound = [h \in {"memory_viewer"} \cup (P \cap ({"scanner"} \cup AllSessions)) |-> NoPid]
  /\ switched = FALSE

-----------------------------------------------------------------------------
(* Attach and detach, clicked by the user.                                 *)

\* Mutation: the scripts are not told that the old process is left.
StillTold == told

ToldAfterDetachFirst == NoPid

\* Mutation: the disassembler keeps its dissect job.
AllJobsKept == job

JobsAfterDetachFirst == [q \in Panels |-> IF q = "disassembly" THEN NoJob ELSE job[q]]

\* do_attach: an attached process is left first, but only these panels hear of it.
\* The provider may be gone, and then no job starts.
DoAttach(p, started) ==
  /\ attachJob.st = "idle"
  /\ IF proc = NoPid
       THEN UNCHANGED <<proc, told, base, job, rows, bound, switched>>
       ELSE /\ proc' = NoPid /\ told' = ToldAfterDetachFirst
            /\ base' = NoBase
            /\ job' = JobsAfterDetachFirst
            /\ rows' = [q \in Panels |-> IF q = "disassembly" THEN NoPid ELSE rows[q]]
            /\ bound' = [bound EXCEPT !["memory_viewer"] = NoPid]
            /\ switched' = TRUE
  /\ attachJob' = IF started THEN Spawn(p, "attach", NoPid) ELSE attachJob
  /\ UNCHANGED <<selected, resolveJob>>

\* Mutation: a panel that is told of a detach forgets its job in flight.
KeepJobs == job

JobsAfterDetach == [q \in Panels |-> NoJob]

\* do_detach: every panel hears of it, and drops the job it has in flight.
DoDetach ==
  /\ proc # NoPid
  /\ proc' = NoPid /\ told' = NoPid
  /\ base' = NoBase
  /\ job' = JobsAfterDetach
  /\ rows' = [q \in Panels |-> NoPid]
  /\ bound' = [h \in Holders |-> NoPid]
  /\ switched' = FALSE
  /\ UNCHANGED <<selected, attachJob, resolveJob>>

-----------------------------------------------------------------------------
(* The class view.                                                         *)

\* A click in the class list, a new or deleted class, or a script's ui action.
SelectClass(c) ==
  /\ c # selected
  /\ selected' = c
  /\ base' = NoBase
  /\ UNCHANGED <<proc, told, attachJob, resolveJob, job, rows, bound, switched>>

\* replace_project: the new project may be the same one, opened again.
ReplaceProject(c) ==
  /\ selected' = c
  /\ base' = NoBase
  /\ bound' = [h \in Holders |-> IF h = "script_scanner" THEN NoPid ELSE bound[h]]
  /\ UNCHANGED <<proc, told, attachJob, resolveJob, job, rows, switched>>

\* Editing the formula takes control back from a resolved base.
EditFormula ==
  /\ selected # NoClass
  /\ base' = NoBase
  /\ UNCHANGED <<proc, told, selected, attachJob, resolveJob, job, rows, bound, switched>>

FollowPointer(c) ==
  /\ proc # NoPid
  /\ selected' = c
  /\ base' = [pid |-> proc, class |-> c]
  /\ UNCHANGED <<proc, told, attachJob, resolveJob, job, rows, bound, switched>>

SelectedAndAttached == selected # NoClass /\ proc # NoPid

DoResolveClassAddress ==
  /\ SelectedAndAttached /\ resolveJob.st = "idle"
  /\ resolveJob' = [st |-> "running", pid |-> proc, class |-> selected]
  /\ UNCHANGED <<proc, told, selected, base, attachJob, job, rows, bound, switched>>

-----------------------------------------------------------------------------
(* The panels.                                                             *)

\* First scan, pointer scan, spider search, dissect.  The pointer scan and the
\* spider clear their rows first; the other two keep them until the result lands.
Search(p) ==
  /\ proc # NoPid /\ job[p].st = "idle"
  /\ p = "spider" => rows[p] = NoPid
  /\ job' = [job EXCEPT ![p] = Spawn(proc, "search", NoPid)]
  /\ rows' = IF p = "pointer_scan" THEN [rows EXCEPT ![p] = NoPid] ELSE rows
  /\ UNCHANGED <<proc, told, selected, base, attachJob, resolveJob, bound, switched>>

\* run_scan of the pointer panel drops its rows before it finds that the goal or the
\* modules to anchor a chain are missing.
PointerScanRefused ==
  /\ "pointer_scan" \in Panels /\ proc # NoPid /\ job["pointer_scan"].st = "idle"
  /\ rows' = [rows EXCEPT !["pointer_scan"] = NoPid]
  /\ UNCHANGED <<proc, told, selected, base, attachJob, resolveJob, job, bound, switched>>

\* Next scan: the Scanner, which reads its own process, travels into the job.
NextScan ==
  /\ "scanner" \in Panels /\ proc # NoPid
  /\ job["scanner"].st = "idle" /\ bound["scanner"] # NoPid
  /\ job' = [job EXCEPT !["scanner"] = Spawn(bound["scanner"], "refine", rows["scanner"])]
  /\ bound' = [bound EXCEPT !["scanner"] = NoPid]
  /\ UNCHANGED <<proc, told, selected, base, attachJob, resolveJob, rows, switched>>

\* Rescan of the pointer scan, refine of the spider: the rows travel into the job,
\* which checks them against the process attached now.
Refine(p) ==
  /\ p \in {"pointer_scan", "spider"}
  /\ proc # NoPid /\ job[p].st = "idle" /\ rows[p] # NoPid
  /\ job' = [job EXCEPT ![p] = Spawn(proc, "refine", rows[p])]
  /\ rows' = [rows EXCEPT ![p] = NoPid]
  /\ UNCHANGED <<proc, told, selected, base, attachJob, resolveJob, bound, switched>>

\* New scan / new search.  The scanner's button works during a scan, too.
NewSearch(p) ==
  /\ p \in {"scanner", "spider"}
  /\ p = "spider" => job[p].st = "idle"
  /\ rows' = [rows EXCEPT ![p] = NoPid]
  /\ bound' = IF p = "scanner" THEN [bound EXCEPT ![p] = NoPid] ELSE bound
  /\ UNCHANGED <<proc, told, selected, base, attachJob, resolveJob, job, switched>>

\* The debugger panel's own attach, and scan.first of a script.
OpenSession(h) ==
  /\ h \in AllSessions /\ proc # NoPid
  /\ h = "debugger" => bound[h] = NoPid
  /\ bound' = [bound EXCEPT ![h] = proc]
  /\ UNCHANGED <<proc, told, selected, base, attachJob, resolveJob, job, rows, switched>>

CloseSession(h) ==
  /\ h \in AllSessions /\ bound[h] # NoPid
  /\ bound' = [bound EXCEPT ![h] = NoPid]
  /\ UNCHANGED <<proc, told, selected, base, attachJob, resolveJob, job, rows, switched>>

-----------------------------------------------------------------------------
(* The pool threads.                                                       *)

\* The pointer rescan returns no error.
CanFail(p) == ~(p = "pointer_scan" /\ job[p].kind = "refine")

PanelWorkerEnds(p, o) ==
  /\ job[p].st = "running" /\ (o = "err" => CanFail(p))
  /\ job' = [job EXCEPT ![p].st = o]
  /\ UNCHANGED <<proc, told, selected, base, attachJob, resolveJob, rows, bound, switched>>

AttachWorkerEnds(o) ==
  /\ attachJob.st = "running"
  /\ attachJob' = [attachJob EXCEPT !.st = o]
  /\ UNCHANGED <<proc, told, selected, base, resolveJob, job, rows, bound, switched>>

\* "err" is an answer of None.
ResolveWorkerEnds(o) ==
  /\ resolveJob.st = "running"
  /\ resolveJob' = [resolveJob EXCEPT !.st = o]
  /\ UNCHANGED <<proc, told, selected, base, attachJob, job, rows, bound, switched>>

-----------------------------------------------------------------------------
(* A frame of the UI thread: NemclassApp::logic.                           *)

Attached == attachJob.st = "ok"

\* The panel's poll: what it shows after its job's outcome was drained.
RowsAfterPoll(p) ==
  CASE job[p].st = "ok" -> job[p].pid
    [] job[p].st = "err" /\ (p = "disassembly" \/ (p = "scanner" /\ job[p].kind = "search"))
         -> NoPid
    [] OTHER -> rows[p]

\* The Scanner comes back with the result; one that never scanned is dropped.
ScannerAfterPoll ==
  LET j == job["scanner"]
  IN CASE j.st = "ok" \/ (j.st = "err" /\ j.kind = "refine") -> j.pid
       [] j.st = "err" -> NoPid
       [] OTHER -> bound["scanner"]

\* Mutation: a resolved base is applied to whatever class is selected by now.
ApplyAnyway(class) == TRUE

StillSelected(class) == selected = class

\* poll_background_jobs (ingest_attach, then ingest_resolve), then the panels' polls.
\* ingest_attach resets the disassembler, whose own poll then finds no job.
Frame ==
  /\ attachJob' = Polled(attachJob)
  /\ proc' = IF Attached THEN attachJob.pid ELSE proc
  /\ told' = IF Attached THEN attachJob.pid ELSE told
  /\ resolveJob' = IF resolveJob.st \in Outcomes
                     THEN [st |-> "idle", pid |-> NoPid, class |-> NoClass] ELSE resolveJob
  /\ base' = IF resolveJob.st = "ok" /\ StillSelected(resolveJob.class)
               THEN [pid |-> resolveJob.pid, class |-> resolveJob.class] ELSE base
  /\ job' = [p \in Panels |->
               IF Attached /\ p = "disassembly" THEN NoJob ELSE Polled(job[p])]
  /\ rows' = [p \in Panels |->
               IF Attached /\ p = "disassembly" THEN NoPid ELSE RowsAfterPoll(p)]
  /\ bound' = [h \in Holders |->
                CASE h = "scanner" -> ScannerAfterPoll
                  [] h = "memory_viewer" /\ Attached -> attachJob.pid
                  [] OTHER -> bound[h]]
  /\ UNCHANGED <<selected, switched>>

Click ==
  \/ \E p \in Pids, started \in BOOLEAN : DoAttach(p, started)
  \/ DoDetach \/ EditFormula \/ DoResolveClassAddress
  \/ NextScan \/ PointerScanRefused
  \/ \E c \in Classes : FollowPointer(c)
  \/ \E c \in Classes \cup {NoClass} : SelectClass(c) \/ ReplaceProject(c)
  \/ \E p \in Panels : Search(p) \/ Refine(p) \/ NewSearch(p)
  \/ \E h \in Holders : OpenSession(h) \/ CloseSession(h)

WorkerEnds(p) == \E o \in Outcomes : PanelWorkerEnds(p, o)

Next ==
  \/ Click
  \/ \E p \in Panels : WorkerEnds(p)
  \/ \E o \in Outcomes : AttachWorkerEnds(o) \/ ResolveWorkerEnds(o)
  \/ Frame

Spec == Init /\ [][Next]_vars

\* A worker ends, and a finished one asks for a repaint, so that frames go on.
FairSpec ==
  /\ Spec
  /\ WF_vars(Frame)
  /\ \A p \in AllPanels : WF_vars(p \in Panels /\ WorkerEnds(p))
  /\ WF_vars(\E o \in Outcomes : AttachWorkerEnds(o))

-----------------------------------------------------------------------------
JobType(kinds) ==
  [st : {"idle", "running"} \cup Outcomes, pid : MaybePids, kind : kinds, took : MaybePids]

TypeOK ==
  /\ proc \in MaybePids /\ told \in MaybePids
  /\ selected \in Classes \cup {NoClass}
  /\ base \in [pid : Pids, class : Classes] \cup {NoBase}
  /\ attachJob \in JobType({"none", "attach"})
  /\ resolveJob \in [st : {"idle", "running"} \cup Outcomes, pid : MaybePids,
                     class : Classes \cup {NoClass}]
  /\ job \in [Panels -> JobType({"none", "search", "refine"})]
  /\ rows \in [Panels -> MaybePids]
  /\ bound \in [Holders -> MaybePids] /\ "memory_viewer" \in Holders
  /\ switched \in BOOLEAN

\* As long as every process was left by Detach and not by attaching over it, all
\* that is on screen, open or under way belongs to the attached process: no result
\* of a job that was in flight at a detach lands in the next session.
NothingStaleWithoutSwitch ==
  ~switched =>
    /\ \A p \in Panels : rows[p] \in {proc, NoPid}
                         /\ (job[p].st # "idle" => job[p].pid = proc)
    /\ \A h \in Holders : bound[h] \in {proc, NoPid}

\* Even when a process is attached over another, the panels that do_attach resets
\* never show or wait for something of the old one.
ResetPanelsFollow ==
  /\ bound["memory_viewer"] \in {proc, NoPid}
  /\ "disassembly" \in Panels => /\ rows["disassembly"] \in {proc, NoPid}
                                 /\ job["disassembly"].pid \in {proc, NoPid}

\* The scripts are told of every attach and detach: at every moment the last event
\* they got names the process the app is attached to.
ScriptsKnowTheTarget == told = proc

\* A resolved base is only ever in force for the class it was resolved for, though
\* the selection can change many times while the resolver runs.
BaseOfSelectedClass == base # NoBase => base.class = selected

\* Every job comes to an end on screen: no button stays disabled and no spinner
\* turns for ever, whatever the worker did.
JobsDrain ==
  /\ attachJob.st # "idle" ~> attachJob.st = "idle"
  /\ \A p \in AllPanels :
       p \in Panels /\ job[p].st # "idle" ~> p \in Panels /\ job[p].st = "idle"

\* A resolved base does not outlive the process it was resolved in.
BaseFollowsProcess == base # NoBase => base.pid = proc

\* A refine that was stopped leaves the result set as it was.
StoppedRefineKeepsRows ==
  [][Frame => \A p \in Panels :
       job[p].kind = "refine" /\ job[p].st = "err" => rows'[p] = job[p].took]_vars
=============================================================================
