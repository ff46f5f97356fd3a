---------------------------- MODULE ScannerPanel ----------------------------
(***************************************************************************)
(* The scanner panel (views/scanner_panel.rs): which session the panel     *)
(* holds, which results are on screen and what the controls offer while a  *)
(* scan runs on a worker.  The scanner itself is ScanSession; here it is   *)
(* its value type and its generations of results, each a number, and a     *)
(* scan either adds one or fails.                                          *)
(***************************************************************************)
EXTENDS Integers, Sequences, FiniteSets, SequencesExt
CONSTANTS
  ScanTypes,      \* value types: the widths in bytes
  LoadedModules,  \* the modules of the target: name -> <<base, end>>
  Scopes,         \* what the "Scan range" fields may hold
  AddrTop,        \* usize::MAX
  MaxScans, MaxPanelOps    \* bounds: scans started, other operations

VARIABLES
  scAttached,     \* process
  valueType, compare,
  selectedModules,\* names; may outlive the module
  scanner,        \* the session on the panel: [type, gens], or NoScanner
  scanJob,        \* scan_job and the scanner that travels in it
  snapshot,       \* result_snapshot: [gen, type], or NoRows
  liveCache,      \* the type the live column was read as, or 0: empty
  frozenRow,      \* what the last Freeze handed over: [tag, shown]
  scans, panelOps, \* counters of the bounds
  disowned        \* ghost: New Scan was pressed while the running scan held the session

scanVars == <<scAttached, valueType, compare, selectedModules, scanner, scanJob, snapshot,
              liveCache, frozenRow, scans, panelOps, disowned>>

NoScanner == [gens |-> <<>>]
NoRows == [gen |-> 0, type |-> 0]
NoScan == [st |-> "idle"]
HasScan == scanner # NoScanner
Scanning == scanJob # NoScan

ScanInit ==
  /\ scAttached = TRUE
  /\ valueType = CHOOSE t \in ScanTypes : \A u \in ScanTypes : t <= u
  /\ compare = "Exact"
  /\ selectedModules = {}
  /\ scanner = NoScanner /\ scanJob = NoScan
  /\ snapshot = NoRows /\ liveCache = 0 /\ frozenRow = [tag |-> 0, shown |-> "none"]
  /\ scans = 0 /\ panelOps = 0 /\ disowned = FALSE

PanelOp == panelOps < MaxPanelOps /\ panelOps' = panelOps + 1 /\ UNCHANGED scans

---------------------------------------------------------------------------
(* Compares and the scan range.                                            *)

\* available_compares: FIRST_SCAN_COMPARES or NEXT_SCAN_COMPARES, one of each sort.
AvailableCompares(hasScan) == {"Exact", IF hasScan THEN "Changed" ELSE "Unknown"}

SnapCompare(cmp, hasScan) ==
  IF cmp \in AvailableCompares(hasScan) THEN cmp ELSE IF hasScan THEN "Changed" ELSE "Exact"

\* parse_needle: only Exact of the three takes a value, and a bad one refuses.
NeedleParses(cmp, typed) == cmp = "Exact" => typed

\* An empty address field, and one that is no hex number.
Blank == -1
BadHex == -2

\* parse_opt_hex and the defaults of a blank field.
HexField(text, unset) == IF text = Blank THEN unset ELSE text

Refused == [refused |-> TRUE]

\* build_filters: the window and the allowlist of module spans, or an error.
BuildFilters(f, loaded) ==
  LET start == HexField(f.start, 0)
      stop == HexField(f.stop, AddrTop)
      rangeSet == f.start # Blank \/ f.stop # Blank
      include == {LoadedModules[m] : m \in selectedModules \cap loaded}
  IN IF ~f.enabled THEN [start |-> 0, stop |-> AddrTop, include |-> {}]
     ELSE IF \/ BadHex \in {f.start, f.stop} \/ stop <= start
             \/ f.kinds = {}
             \/ ~rangeSet /\ selectedModules # {} /\ include = {}
          THEN Refused
     ELSE [start |-> start, stop |-> stop, include |-> IF rangeSet THEN {} ELSE include]

---------------------------------------------------------------------------
(* The controls (show_controls, show_scan_range, show_module_picker).      *)

\* Value type: enabled while the panel holds no session.
PickType(t) ==
  /\ PanelOp /\ scAttached /\ ~HasScan /\ t # valueType
  /\ valueType' = t
  /\ UNCHANGED <<scAttached, compare, selectedModules, scanner, scanJob, snapshot, liveCache,
                 frozenRow, disowned>>

PickCompare(c) ==
  /\ PanelOp /\ scAttached /\ c \in AvailableCompares(HasScan) /\ c # compare
  /\ compare' = c
  /\ UNCHANGED <<scAttached, valueType, selectedModules, scanner, scanJob, snapshot, liveCache,
                 frozenRow, disowned>>

TickModule(m) ==
  /\ PanelOp /\ scAttached
  /\ selectedModules' = (selectedModules \cup {m}) \ (selectedModules \cap {m})
  /\ UNCHANGED <<scAttached, valueType, compare, scanner, scanJob, snapshot, liveCache,
                 frozenRow, disowned>>

Spawn(kind, s) ==
  /\ scans < MaxScans /\ scans' = scans + 1
  /\ scanJob' = [st |-> "running", kind |-> kind, scanner |-> s, cmp |-> compare, stop |-> FALSE]
  /\ UNCHANGED <<scAttached, valueType, compare, selectedModules, snapshot, liveCache, frozenRow,
                 panelOps, disowned>>

\* do_first_scan: a new Scanner is built in the worker, the panel keeps its own.
DoFirstScan(f, loaded, typed) ==
  /\ scAttached /\ ~Scanning
  /\ NeedleParses(compare, typed) /\ BuildFilters(f, loaded) # Refused
  /\ Spawn("first", [type |-> valueType, gens |-> <<>>])
  /\ UNCHANGED scanner

\* do_next_scan: the panel's Scanner travels into the worker.
DoNextScan(typed) ==
  /\ scAttached /\ HasScan /\ ~Scanning
  /\ NeedleParses(compare, typed)
  /\ Spawn("next", scanner)
  /\ scanner' = NoScanner

StopScan ==
  /\ PanelOp /\ scAttached /\ scanJob.st = "running" /\ ~scanJob.stop
  /\ scanJob' = [scanJob EXCEPT !.stop = TRUE]
  /\ UNCHANGED <<scAttached, valueType, compare, selectedModules, scanner, snapshot, liveCache,
                 frozenRow, disowned>>

\* snapshot_results: the newest generation, in the session's type.
SnapshotOf(s) == [gen |-> Last(s.gens), type |-> s.type]

\* do_undo: enabled whenever the session on the panel has two generations.
DoUndo ==
  /\ PanelOp /\ scAttached /\ Len(scanner.gens) > 1
  /\ LET s == [scanner EXCEPT !.gens = Front(@)]
     IN scanner' = s /\ snapshot' = SnapshotOf(s)
  /\ liveCache' = 0
  /\ UNCHANGED <<scAttached, valueType, compare, selectedModules, scanJob, frozenRow, disowned>>

\* new_scan: a scan that is running goes on.
NewScan ==
  /\ PanelOp /\ scAttached
  /\ HasScan \/ Scanning \/ snapshot # NoRows \/ compare # SnapCompare(compare, FALSE)
  /\ scanner' = NoScanner /\ snapshot' = NoRows /\ liveCache' = 0
  /\ compare' = SnapCompare(compare, FALSE)
  /\ disowned' = (disowned \/ Scanning)
  /\ UNCHANGED <<scAttached, valueType, selectedModules, scanJob, frozenRow>>

---------------------------------------------------------------------------
(* The worker and poll().                                                  *)

\* The scan ends: with a new generation, or with an error (a first scan by a relative
\* compare and a next scan by Unknown always, else a read error), or stopped.
\* A worker that panics drops the sender, and with it the Scanner it held.
ScanEnds(how) ==
  /\ scanJob.st = "running"
  /\ how = "ok" => /\ scanJob.kind = "first" => scanJob.cmp # "Changed"
                   /\ scanJob.kind = "next" => scanJob.cmp # "Unknown"
  /\ how = "stopped" => scanJob.stop
  /\ scanJob' = [scanJob EXCEPT !.st = how,
                                !.scanner.gens = IF how = "ok" THEN Append(@, scans) ELSE @]
  /\ UNCHANGED <<scAttached, valueType, compare, selectedModules, scanner, snapshot, liveCache,
                 frozenRow, scans, panelOps, disowned>>

\* A plausible slip: a first scan that failed leaves its empty session on the panel.
LandAnySession(s) == [scanner |-> s, rows |-> snapshot, hasScan |-> TRUE]

\* The error branch: the session survives, unless it never scanned.
LandFailed(s) ==
  IF s.gens # <<>> THEN [scanner |-> s, rows |-> snapshot, hasScan |-> TRUE]
  ELSE [scanner |-> NoScanner, rows |-> NoRows, hasScan |-> FALSE]

PollScan ==
  /\ scanJob.st \in {"ok", "failed", "stopped", "panicked"}
  /\ LET s == scanJob.scanner
         landed == IF scanJob.st = "ok"
                   THEN [scanner |-> s, rows |-> SnapshotOf(s), hasScan |-> TRUE]
                   ELSE LandFailed(s)
     IN IF scanJob.st = "panicked" THEN UNCHANGED <<scanner, snapshot, compare, liveCache>>
        ELSE /\ scanner' = landed.scanner
             /\ snapshot' = landed.rows
             /\ compare' = IF landed.hasScan THEN SnapCompare(compare, TRUE)
                           ELSE SnapCompare(SnapCompare(compare, TRUE), FALSE)
             /\ liveCache' = IF scanJob.st = "ok" \/ ~landed.hasScan THEN 0 ELSE liveCache
  /\ scanJob' = NoScan
  /\ disowned' = (disowned /\ scanJob.st # "ok")
  /\ UNCHANGED <<scAttached, valueType, selectedModules, frozenRow, scans, panelOps>>

---------------------------------------------------------------------------
(* The table (show_results).                                               *)

\* refresh_live_values: the visible rows are read at the panel's value type.
RefreshLive ==
  /\ snapshot # NoRows
  /\ liveCache' = IF scAttached THEN valueType ELSE 0
  /\ UNCHANGED <<scAttached, valueType, compare, selectedModules, scanner, scanJob, snapshot,
                 frozenRow, scans, panelOps, disowned>>

\* format_value_bytes: fewer bytes than the type has give no value.
FormatValue(bytes, t) == IF bytes >= t THEN "value" ELSE "<?>"

\* Freeze: the live bytes, else those of the scan, under the panel's type.
FreezeResult ==
  /\ PanelOp /\ snapshot # NoRows
  /\ frozenRow' = [tag |-> valueType,
                   shown |-> FormatValue(IF liveCache # 0 THEN liveCache ELSE snapshot.type,
                                         valueType)]
  /\ UNCHANGED <<scAttached, valueType, compare, selectedModules, scanner, scanJob, snapshot,
                 liveCache, disowned>>

---------------------------------------------------------------------------
(* The session of the app.                                                 *)

\* on_detach: everything but the compare and the value type.
DetachScanner ==
  /\ PanelOp /\ scAttached
  /\ scAttached' = FALSE
  /\ scanner' = NoScanner /\ scanJob' = NoScan
  /\ selectedModules' = {}
  /\ snapshot' = NoRows /\ liveCache' = 0
  /\ disowned' = FALSE
  /\ UNCHANGED <<valueType, compare, frozenRow>>

AttachScanner ==
  /\ PanelOp /\ ~scAttached
  /\ scAttached' = TRUE
  /\ UNCHANGED <<valueType, compare, selectedModules, scanner, scanJob, snapshot, liveCache,
                 frozenRow, disowned>>

ScanNext ==
  \/ \E t \in ScanTypes : PickType(t)
  \/ \E c \in {"Exact", "Unknown", "Changed"} : PickCompare(c)
  \/ \E m \in DOMAIN LoadedModules : TickModule(m)
  \/ \E f \in Scopes, loaded \in SUBSET DOMAIN LoadedModules, typed \in BOOLEAN :
       DoFirstScan(f, loaded, typed)
  \/ \E typed \in BOOLEAN : DoNextScan(typed)
  \/ StopScan \/ DoUndo \/ NewScan
  \/ \E how \in {"ok", "failed", "stopped", "panicked"} : ScanEnds(how)
  \/ PollScan
  \/ RefreshLive \/ FreezeResult
  \/ DetachScanner \/ AttachScanner

ScanSpec == ScanInit /\ [][ScanNext]_scanVars

---------------------------------------------------------------------------
(* Properties.                                                             *)

\* The table shows the newest generation of the session on the panel, and that session
\* can be narrowed, whatever landed, failed, was stopped, undone or detached since:
\* poll drops a session that never scanned (lines 296-306), do_undo takes a new
\* snapshot and a failed Next Scan "never loses the user's result set".  The one
\* exception is New Scan pressed during a Next Scan that then fails.
TableOfSession ==
  HasScan => /\ scanner.gens # <<>>
             /\ snapshot # NoRows => snapshot = SnapshotOf(scanner)
             /\ snapshot = NoRows => disowned

\* The comment on the value type selector: "Locked while a session is active: the stored
\* previous values are this type's width, so switching would compare truncated or
\* over-long spans" (lines 408-410).
SessionTypeFixed == HasScan => scanner.type = valueType
=============================================================================
