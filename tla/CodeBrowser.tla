---------------------------- MODULE CodeBrowser -----------------------------
(***************************************************************************)
(* Browsing a process: the modules tab, the disassembler, the navigator    *)
(* and the memory viewer (views/modules_panel.rs, disassembly.rs,          *)
(* navigator.rs, memory_viewer.rs, and core's disasm.rs and dissect.rs).   *)
(*                                                                         *)
(* Code is a table of instruction lengths (0: the bytes do not decode) with*)
(* branches and loads; only the user's patches change it.  A module is     *)
(* named by its base address.  Widths, chunk sizes and the history cap are *)
(* scaled down.  Which row is selected or scrolled to is left out: any row *)
(* of the listing may be acted on.  A dissect reads the target chunk by    *)
(* chunk on a worker, while the user and the target go on.                 *)
(***************************************************************************)
EXTENDS Naturals, Sequences, SequencesExt, FiniteSets, FiniteSetsExt

CONSTANTS
  ModuleRegions,  \* base of a module |-> the set of its executable regions <<start, end>>
  Codes,          \* tables of instruction lengths the target may start with
  Branches,       \* set of <<site, target>>: the direct calls and jumps
  Loads,          \* set of <<site, address>>: instructions that address data
  Strings,          \* base of a module |-> the addresses in it that hold a printable string
  FirstLoaded,    \* modules loaded when the app attaches
  JumpTargets,    \* addresses the user goes to
  ChunkBytes,     \* LINEAR_CHUNK_BYTES, CHUNK_BYTES and max_bytes of a function
  Overlap,        \* CHUNK_OVERLAP: no instruction is longer, and no chunk is shorter
  MaxListing,     \* LINEAR_MAX_INSNS
  HistoryCap,     \* HISTORY_CAP
  MaxBrowseOps    \* bound: operations of the user and the target

AllRegions == UNION {ModuleRegions[m] : m \in DOMAIN ModuleRegions}

ASSUME CodeBrowserAssumption ==
  /\ FirstLoaded \subseteq DOMAIN ModuleRegions
  /\ {ChunkBytes, Overlap, MaxListing, HistoryCap} \subseteq Nat \ {0} /\ Overlap <= ChunkBytes
  /\ JumpTargets \subseteq Nat /\ MaxBrowseOps \in Nat

\* Mappings are not empty and do not overlap, and page 0 is none of them.
ASSUME RegionsAssumption ==
  /\ AllRegions \subseteq (Nat \ {0}) \X Nat /\ \A r \in AllRegions : r[1] < r[2]
  /\ \A r, q \in AllRegions : r # q => r[2] <= q[1] \/ q[2] <= r[1]

ASSUME RefsAssumption ==
  /\ Branches \cup Loads \subseteq Nat \X Nat /\ Branches \cap Loads = {}
  /\ DOMAIN Strings = DOMAIN ModuleRegions

\* A table covers the regions.
ASSUME CodesAssumption ==
  \A t \in Codes :
    /\ DOMAIN t \subseteq Nat /\ \A a \in DOMAIN t : t[a] \in 0 .. Overlap
    /\ \A r \in AllRegions : r[1] .. r[2] - 1 \subseteq DOMAIN t

NoAddr == 0
NoCache == [at |-> NoAddr, insns |-> <<>>]
NoDissect == [of |-> {}, refs |-> {}, done |-> FALSE]
NothingSeen == [been |-> {}, stayed |-> {}, edited |-> {}]
NoDissectJob == [stage |-> "idle", of |-> {}, todo |-> {}, left |-> {}, index |-> {}, refs |-> {}]

VARIABLES
  loaded,        \* modules of the target
  code, nops,    \* its instructions, and the bytes patched with NOPs
  ticks, ticked, \* ModulesPanel.selected and selected_names
  known, picked, \* DisassemblyPanel.modules (as of the attach) and selected_modules
  disasm,        \* mode, focus, history, regions, listing, next, function cache
  torn,          \* rows a patch that failed midway left out of date
  dissect, job,  \* dissect; dissect_job: modules, those to do, intervals left, RegionIndex, result
  seen,          \* history: modules loaded at some time and all the time of its reads, bytes patched
  epoch, nav,    \* dissect_epoch; the navigator's built_for and lists
  hex,           \* MemoryViewer
  browseOps      \* bound

panelVars == <<ticks, ticked, known, picked>>
codeVars == <<loaded, code, nops>>
xrefVars == <<dissect, job, seen, epoch>>
brVars == <<codeVars, panelVars, disasm, torn, xrefVars, nav, hex, browseOps>>

BrowseOp == browseOps < MaxBrowseOps /\ browseOps' = browseOps + 1

SortedModules(bases) == SetToSortSeq(bases, <)
Capped(history, a) == Append(IF Len(history) >= HistoryCap THEN Tail(history) ELSE history, a)

-----------------------------------------------------------------------------
(* Decoding.                                                               *)

Insn(a, len) == [at |-> a, len |-> len]
EndOf(insn) == insn.at + insn.len

\* disassemble_range: stops at bytes that do not decode within the buffer.
DecodeRange(table, start, end) ==
  LET from[a \in start .. end] ==
        IF a >= end \/ a \notin DOMAIN table \/ table[a] = 0 \/ a + table[a] > end THEN <<>>
        ELSE <<Insn(a, table[a])>> \o from[a + table[a]]
  IN from[start]

\* disassemble_instructions as a dissect uses it, until the callback sees an instruction
\* at or after stop: bytes that do not decode are stepped over one at a time, and an
\* instruction the buffer cuts short is one of them.
Step(table, a, end) == IF table[a] = 0 \/ a + table[a] > end THEN 1 ELSE table[a]
DecodeUntil(table, start, stop, end) ==
  LET from[a \in start .. end] ==
        IF a >= stop THEN <<>>
        ELSE <<Insn(a, Step(table, a, end))>> \o from[a + Step(table, a, end)]
  IN from[start]

\* The same of a whole buffer.
DecodeAll(table, start, end) == DecodeUntil(table, start, end, end)

\* Mutation: no bytes are read past the chunk.
ChunkOnly(pos, end) == Min({end, pos + ChunkBytes})
ReadEnd(pos, end) == Min({end, pos + ChunkBytes + Overlap})

\* dissect_regions, one chunk: an instruction that starts in the overlap is left to the
\* next chunk, which starts where this one ended.
DissectChunk(table, pos, end) ==
  DecodeUntil(table, pos, Min({end, pos + ChunkBytes}), ReadEnd(pos, end))

\* record_instruction: the branches and loads among the instructions that decode and are
\* not patched.
InsnBytes(insn) == insn.at .. EndOf(insn) - 1
RefsOf(table, patched, insns) ==
  {b \in Branches \cup Loads :
     \E i \in 1 .. Len(insns) :
       insns[i] = Insn(b[1], table[b[1]]) /\ InsnBytes(insns[i]) \cap patched = {}}

\* Lists of regions are sorted by start, so they are sets here.
RegionsOf(bases) == UNION {ModuleRegions[m] : m \in bases}
Holds(r, a) == r[1] <= a /\ a < r[2]

\* is_executable, read_string_at: a branch counts if its target is in an executable
\* region, by the regions of some modules; a load if there is a string to be read.
Lands(b, index, readable) ==
  IF b \in Branches THEN \E r \in RegionsOf(index) : Holds(r, b[2])
  ELSE b[2] \in UNION {Strings[m] : m \in readable}

-----------------------------------------------------------------------------
(* The disassembler's state, as operators on the record.                   *)

InRegion(d, a) == \E r \in d.regions : Holds(r, a)
RegionOf(d, a) == CHOOSE r \in d.regions : Holds(r, a)
NextRegionStart(d, a) ==
  LET starts == {r[1] : r \in d.regions} \ 0 .. a - 1
  IN IF starts = {} THEN NoAddr ELSE Min(starts)

LinearReset(d, a) ==
  [d EXCEPT !.listing = <<>>, !.next = IF InRegion(d, a) THEN a ELSE NextRegionStart(d, a)]

\* linear_index_of.
Listed(d, a) == \E i \in 1 .. Len(d.listing) : Holds(<<d.listing[i].at, EndOf(d.listing[i])>>, a)

SetFocus(d, a) ==
  LET at == [d EXCEPT !.focus = a]
  IN CASE d.mode = "Function" -> [at EXCEPT !.cache = IF @.at = a THEN @ ELSE NoCache]
       [] d.mode = "Linear" -> IF Listed(d, a) THEN at ELSE LinearReset(at, a)

\* goto, the entry for the other panels.
Goto(d, a) ==
  SetFocus([d EXCEPT !.mode = "Function", !.forward = <<>>,
                     !.back = IF d.focus \in {NoAddr, a} THEN @ ELSE Capped(@, d.focus)], a)
Navigate(d, a) ==
  IF a = d.focus THEN d
  ELSE SetFocus([d EXCEPT !.back = Capped(@, d.focus), !.forward = <<>>], a)
GoBack(d) ==
  SetFocus([d EXCEPT !.back = Front(@), !.forward = Capped(@, d.focus)], Last(d.back))
GoForward(d) ==
  SetFocus([d EXCEPT !.forward = Front(@), !.back = Capped(@, d.focus)], Last(d.forward))

\* try_parse_address: the linear listing takes only addresses of its regions.
TryAddress(d, a) == IF d.mode = "Linear" /\ ~InRegion(d, a) THEN d ELSE Navigate(d, a)

\* Mutation: the next region is looked for from the start of the chunk.
RestartRegion(d, start, end, got) ==
  IF got # <<>> /\ EndOf(Last(got)) < end THEN EndOf(Last(got)) ELSE NextRegionStart(d, start)
AfterChunk(d, start, end, got) ==
  IF got # <<>> /\ EndOf(Last(got)) < end THEN EndOf(Last(got)) ELSE NextRegionStart(d, end)

ExtendLinear(d) ==
  IF Len(d.listing) >= MaxListing \/ d.next = NoAddr THEN [d EXCEPT !.next = NoAddr]
  ELSE IF ~InRegion(d, d.next) THEN [d EXCEPT !.next = NextRegionStart(d, @)]
  ELSE LET end == RegionOf(d, d.next)[2]
           got == DecodeRange(code, d.next, Min({end, d.next + ChunkBytes}))
       IN [d EXCEPT !.listing = @ \o got, !.next = AfterChunk(d, @, end, got)]

\* ensure_function_disasm.
EnsureFunction(d) ==
  IF d.mode # "Function" \/ d.focus \in {NoAddr, d.cache.at} THEN d
  ELSE [d EXCEPT !.cache = [at |-> d.focus, insns |-> DecodeRange(code, d.focus, d.focus + ChunkBytes)]]

\* The instructions of the active list.
Active(d) == Range(IF d.mode = "Linear" THEN d.listing ELSE d.cache.insns)

ResetState(d) ==
  [d EXCEPT !.mode = "Function", !.regions = {}, !.listing = <<>>, !.next = NoAddr,
            !.cache = NoCache]

BrInit ==
  /\ loaded = FirstLoaded /\ code \in Codes /\ nops = {}
  /\ known = SortedModules(FirstLoaded) /\ picked = {}
  /\ ticks = [i \in 1 .. Cardinality(FirstLoaded) |-> FALSE] /\ ticked = {}
  /\ disasm = [mode |-> "Function", focus |-> NoAddr, back |-> <<>>, forward |-> <<>>,
               regions |-> {}, listing |-> <<>>, next |-> NoAddr, cache |-> NoCache]
  /\ torn = {} /\ dissect = NoDissect /\ job = NoDissectJob /\ seen = NothingSeen /\ epoch = 0
  /\ nav = [built |-> NoAddr, refs |-> {}]
  /\ hex = [at |-> NoAddr, history |-> <<>>, buf |-> NoAddr, prev |-> NoAddr, current |-> FALSE]
  /\ browseOps = 0

-----------------------------------------------------------------------------
(* The target, attaching, and the modules tab.                             *)

\* dlopen and dlclose.
Reading == job.stage \in {"maps", "index", "chunks"}
TargetLoads(m) ==
  /\ BrowseOp
  /\ loaded' = IF m \in loaded THEN loaded \ {m} ELSE loaded \cup {m}
  /\ seen' = IF ~Reading THEN seen
             ELSE [seen EXCEPT !.been = @ \cup loaded', !.stayed = @ \cap loaded']
  /\ UNCHANGED <<code, nops, panelVars, disasm, torn, dissect, job, epoch, nav, hex>>

\* Detach and attach: focus and history of the disassembler and the address of the
\* viewer survive, an in-flight dissect does not.
Reattach ==
  /\ BrowseOp
  /\ known' = SortedModules(loaded) /\ picked' = {}
  /\ ticks' = [i \in 1 .. Cardinality(loaded) |-> FALSE] /\ ticked' = {}
  /\ disasm' = ResetState(disasm) /\ torn' = {}
  /\ dissect' = NoDissect /\ job' = NoDissectJob /\ seen' = NothingSeen
  /\ hex' = [hex EXCEPT !.history = <<>>, !.buf = NoAddr, !.prev = NoAddr, !.current = FALSE]
  /\ UNCHANGED <<codeVars, epoch, nav>>

\* ModulesPanel::show lists the modules of now; the ticks are matched by index.
Resized(n) == [i \in 1 .. n |-> IF i <= Len(ticks) THEN ticks[i] ELSE FALSE]
TickedNames(mods, t) == {mods[i] : i \in {j \in 1 .. Len(mods) : t[j]}}

DrawModules ==
  /\ loaded # {}
  /\ ticks' = Resized(Cardinality(loaded))
  /\ ticked' = TickedNames(SortedModules(loaded), ticks')
  /\ UNCHANGED <<codeVars, known, picked, disasm, torn, xrefVars, nav, hex, browseOps>>

\* set_selected_modules: the regions of the modules the disassembler knows by these
\* indices; the listing restarts at the first of them.
Selecting(d, rs) ==
  LET linear == [d EXCEPT !.mode = "Linear", !.regions = rs]
      start == Min({r[1] : r \in rs})
  IN IF rs = {} THEN [linear EXCEPT !.listing = <<>>, !.next = NoAddr]
     ELSE ExtendLinear(LinearReset(
            [linear EXCEPT !.back = IF d.focus = NoAddr THEN @ ELSE Capped(@, d.focus),
                           !.forward = <<>>, !.focus = start], start))

\* A tick box, Select all or Clear.
ChangeTicks(t) ==
  /\ BrowseOp
  /\ Len(t) = Cardinality(loaded) /\ t # Resized(Len(t))
  /\ ticks' = t /\ ticked' = TickedNames(SortedModules(loaded), t)
  /\ picked' = {i \in 1 .. Len(t) : t[i]}
  /\ disasm' = Selecting(disasm, RegionsOf({known[i] : i \in picked' \cap DOMAIN known} \cap loaded))
  /\ dissect' = NoDissect /\ torn' = {}
  /\ UNCHANGED <<codeVars, known, job, seen, epoch, nav, hex>>

-----------------------------------------------------------------------------
(* The disassembler's frame: decode the function, top bar and table, more  *)
(* of the listing if the viewport is near its end, then a queued jump.     *)

Frame(d) ==
  /\ disasm' = d
  /\ UNCHANGED <<codeVars, panelVars, torn, xrefVars, nav, hex>>
Jump(d) == BrowseOp /\ Frame(d)
Scrolled(d) == IF d.mode = "Linear" THEN ExtendLinear(d) ELSE d

ShowDisassembly ==
  /\ Frame(Scrolled(EnsureFunction(disasm)))
  /\ UNCHANGED browseOps

BackPressed == disasm.back # <<>> /\ Jump(Scrolled(GoBack(EnsureFunction(disasm))))
ForwardPressed == disasm.forward # <<>> /\ Jump(Scrolled(GoForward(EnsureFunction(disasm))))
GoPressed(a) == Jump(Scrolled(TryAddress(EnsureFunction(disasm), a)))

\* A branch of a row, or a referrer of one: regions do not matter.  A row decoded before
\* its bytes were patched still is the branch it was.
ShownBranch(i) == InsnBytes(i) \cap nops = {} \/ i.len # code[i.at]
FollowRow(a) ==
  /\ \E i \in Active(disasm) : \/ <<i.at, a>> \in Branches /\ ShownBranch(i)
                               \/ <<a, i.at>> \in dissect.refs
  /\ Jump(Navigate(Scrolled(EnsureFunction(disasm)), a))

\* Reading the target failed: the listing ends here.
ExtendFails ==
  /\ disasm.mode = "Linear" /\ disasm.next # NoAddr
  /\ Jump([disasm EXCEPT !.next = NoAddr])

\* NOP out a row, byte after byte; once all are written the view is decoded anew.
Nopped(i, n) == [a \in DOMAIN code |-> IF a \in i.at .. i.at + n - 1 THEN 1 ELSE code[a]]
WriteNops(i, n) ==
  /\ code' = Nopped(i, n)
  /\ nops' = nops \cup (i.at .. i.at + n - 1)
  /\ seen' = [seen EXCEPT !.edited = @ \cup (i.at .. i.at + n - 1)]
  /\ UNCHANGED <<loaded, panelVars, dissect, job, epoch, nav, hex>>
NopRow(i) ==
  /\ BrowseOp
  /\ WriteNops(i, i.len)
  /\ disasm' = IF disasm.mode = "Linear" THEN LinearReset(disasm, disasm.focus)
               ELSE [disasm EXCEPT !.cache = NoCache]
  /\ torn' = {}
NopFails(i) ==
  /\ BrowseOp
  /\ WriteNops(i, i.len - 1)
  /\ torn' = torn \cup {i.at}
  /\ UNCHANGED disasm

-----------------------------------------------------------------------------
(* A dissect.                                                              *)

Selected == {known[i] : i \in picked \cap DOMAIN known}
DissectKeeps == UNCHANGED <<codeVars, panelVars, disasm, torn, nav, hex>>

\* The Dissect button and the navigator's Scan.
DoDissect ==
  /\ BrowseOp /\ job.stage = "idle" /\ Selected # {}
  /\ job' = [NoDissectJob EXCEPT !.stage = "maps", !.of = Selected, !.todo = Selected]
  /\ seen' = [been |-> loaded, stayed |-> loaded, edited |-> {}]
  /\ DissectKeeps /\ UNCHANGED <<dissect, epoch>>

\* What the worker does next: more of this module, the next one, or nothing.
Onward(j) ==
  [j EXCEPT !.stage = IF j.left # {} THEN "chunks" ELSE IF j.todo # {} THEN "maps" ELSE "done"]

WorkerStep(j) ==
  /\ job' = j
  /\ DissectKeeps /\ UNCHANGED <<dissect, seen, epoch, browseOps>>

\* module_exec_regions, then RegionIndex::from_pid at the start of dissect_regions.
NextModule ==
  /\ job.stage = "maps"
  /\ \E m \in job.todo :
       /\ \A n \in job.todo : m <= n
       /\ WorkerStep([job EXCEPT !.stage = "index", !.todo = @ \ {m},
                                 !.left = RegionsOf({m} \cap loaded)])
IndexRegions == job.stage = "index" /\ WorkerStep(Onward([job EXCEPT !.index = loaded]))

\* One pass of the loop of dissect_regions.  A region that cannot be read any more is
\* left at that, without an error.
ReadChunk ==
  /\ job.stage = "chunks"
  /\ \E i \in job.left :
       LET got == DissectChunk(code, i[1], i[2])
           next == EndOf(Last(got))
           others == job.left \ {i}
       IN /\ \A j \in others : i[1] < j[1]
          /\ WorkerStep(Onward(
               IF \E r \in RegionsOf(loaded) : Holds(r, i[1])
               THEN [job EXCEPT
                      !.left = IF next < i[2] THEN others \cup {<<next, i[2]>>} ELSE others,
                      !.refs = @ \cup {b \in RefsOf(code, nops, got) : Lands(b, job.index, loaded)}]
               ELSE [job EXCEPT !.left = others]))

\* Mutation: the epoch counts only the results that replace none.
EpochAfterFirst(e) == IF dissect.done THEN e ELSE e + 1
NextEpoch(e) == e + 1

\* poll, apply_dissect: what has landed is of the modules the job was started for,
\* whatever is selected by now.
DissectDone ==
  /\ job.stage = "done" /\ job' = NoDissectJob /\ seen' = NothingSeen
  /\ dissect' = [of |-> job.of, refs |-> job.refs, done |-> TRUE]
  /\ epoch' = NextEpoch(epoch)
  /\ DissectKeeps /\ UNCHANGED browseOps

\* The maps could not be read.
DissectFails ==
  /\ job.stage \in {"maps", "index"} /\ job' = NoDissectJob /\ seen' = NothingSeen
  /\ dissect' = NoDissect
  /\ DissectKeeps /\ UNCHANGED <<epoch, browseOps>>

-----------------------------------------------------------------------------
(* The navigator and the memory viewer.                                    *)

\* NavigatorPanel::show rebuilds its lists when the epoch is not the one they are of.
Rebuilt ==
  LET now == IF dissect.done THEN epoch ELSE NoAddr
  IN IF nav.built = now THEN nav ELSE [built |-> now, refs |-> dissect.refs]

DrawNavigator ==
  /\ nav' = Rebuilt
  /\ UNCHANGED <<codeVars, panelVars, disasm, torn, xrefVars, hex, browseOps>>
\* A call site or a function: the disassembler goes there.
NavigatorRow(a) ==
  /\ BrowseOp /\ nav' = Rebuilt
  /\ \E b \in nav'.refs \cap Branches : a \in Range(b)
  /\ disasm' = Goto(disasm, a)
  /\ UNCHANGED <<codeVars, panelVars, torn, xrefVars, hex>>

\* maybe_snapshot, when it is due.
Snapshot(h) == IF h.current THEN h ELSE [h EXCEPT !.prev = h.buf, !.buf = h.at, !.current = TRUE]
NavigateTo(h, a) ==
  [h EXCEPT !.history = IF a = h.at THEN @ ELSE Capped(@, h.at), !.at = a, !.current = FALSE]
NavigateBack(h) ==
  [h EXCEPT !.at = Last(h.history), !.history = Front(@), !.current = FALSE]

ViewerFrame(h) ==
  /\ hex' = h
  /\ UNCHANGED <<codeVars, panelVars, disasm, torn, xrefVars, nav>>
ShowViewer == ViewerFrame(Snapshot(hex)) /\ UNCHANGED browseOps
SnapshotExpires == hex.current /\ ViewerFrame([hex EXCEPT !.current = FALSE]) /\ UNCHANGED browseOps
\* The address bar, or a pointer in the table.
ViewerGo(a) == BrowseOp /\ ViewerFrame(NavigateTo(Snapshot(hex), a))
ViewerBack == BrowseOp /\ hex.history # <<>> /\ ViewerFrame(NavigateBack(Snapshot(hex)))
\* A string of the navigator.
NavigatorString ==
  /\ BrowseOp /\ nav' = Rebuilt
  /\ \E b \in nav'.refs \cap Loads : hex' = NavigateTo(hex, b[2])
  /\ UNCHANGED <<codeVars, panelVars, disasm, torn, xrefVars>>
DisassembleHere ==
  /\ BrowseOp /\ hex.at # NoAddr
  /\ hex' = Snapshot(hex) /\ disasm' = Goto(disasm, hex.at)
  /\ UNCHANGED <<codeVars, panelVars, torn, xrefVars, nav>>

BrNext ==
  \/ Reattach \/ DrawModules \/ ShowDisassembly \/ BackPressed \/ ForwardPressed
  \/ ExtendFails
  \/ DoDissect \/ NextModule \/ IndexRegions \/ ReadChunk \/ DissectDone \/ DissectFails
  \/ DrawNavigator \/ ShowViewer \/ SnapshotExpires \/ ViewerBack
  \/ NavigatorString \/ DisassembleHere
  \/ \E m \in DOMAIN ModuleRegions : TargetLoads(m)
  \/ \E t \in [1 .. Cardinality(loaded) -> BOOLEAN] : ChangeTicks(t)
  \/ \E i \in Active(disasm) : NopRow(i) \/ NopFails(i)
  \/ \E a \in JumpTargets : GoPressed(a) \/ FollowRow(a) \/ NavigatorRow(a) \/ ViewerGo(a)

BrSpec == BrInit /\ [][BrNext]_brVars

-----------------------------------------------------------------------------
(* Properties.                                                             *)

\* Nothing decodes at a before end.
Blocked(table, a, end) == table[a] = 0 \/ a + table[a] > end

\* The linear listing is the code: rows are in order and inside the selected regions
\* (the binary search needs both), each is the instruction that is there now unless a
\* patch tore it, and a gap between two rows is a jump from the region's end, or from
\* bytes that do not decode before it, to the start of a later region; the regions
\* between them have nothing that decodes at their start.  Chunks may end inside an
\* instruction, patches and jumps restart the decoding anywhere.
ListingExact ==
  disasm.mode = "Linear" =>
    \A i \in 1 .. Len(disasm.listing) :
      LET row == disasm.listing[i]
          region == RegionOf(disasm, row.at)
      IN /\ InRegion(disasm, row.at) /\ EndOf(row) <= region[2]
         /\ row.at \in torn \/ code[row.at] = row.len
         /\ i < Len(disasm.listing) =>
              LET next == disasm.listing[i + 1].at
              IN \/ next = EndOf(row)
                 \/ /\ region[2] <= next /\ \E r \in disasm.regions : r[1] = next
                    /\ EndOf(row) = region[2] \/ torn # {} \/ Blocked(code, EndOf(row), region[2])
                    /\ torn # {} \/ \A r \in disasm.regions :
                                     r[1] \in region[2] .. next - 1 => Blocked(code, r[1], r[2])

\* The code of region r makes reference b now, by a plain decode of the region.
Makes(r, b) ==
  \E i \in Range(DecodeAll(code, r[1], r[2])) :
    i.at = b[1] /\ i.len = code[b[1]] /\ i.at .. i.at + i.len - 1 \cap nops = {}

\* What b refers to is there when these modules are loaded.
Reaches(b, mods) ==
  \E m \in mods : \/ b \in Branches /\ \E q \in ModuleRegions[m] : b[2] \in q[1] .. q[2] - 1
                  \/ b \in Loads /\ b[2] \in Strings[m]

\* A dissect that lands holds what it should of the target that changed under it.  Its
\* references are made in the modules it was started for.  Of a region that was not
\* patched meanwhile it holds only references a plain decode of the region finds, to code
\* or strings that were there at some time of the scan.  If the region's module stayed
\* loaded, it holds every reference whose target stayed too, although it read the region
\* in chunks that end inside instructions and other modules came and went.  A module
\* unloaded midway leaves a partial result that lands as a success.
DissectExact ==
  [][dissect'.done /\ epoch' # epoch =>
       LET visited == RegionsOf(job.of \cap seen.been)
           kept == RegionsOf(job.of \cap seen.stayed)
       IN /\ \A b \in dissect'.refs : \E r \in visited : Holds(r, b[1])
          /\ \A r \in visited : \A b \in Branches \cup Loads :
               Holds(r, b[1]) /\ r[1] .. r[2] - 1 \cap seen.edited = {} =>
                 /\ b \in dissect'.refs => Makes(r, b) /\ Reaches(b, seen.been)
                 /\ r \in kept /\ Makes(r, b) /\ Reaches(b, seen.stayed) => b \in dissect'.refs]_brVars

\* What a panel keeps is of what it is labelled with: navigator lists built for the
\* present epoch are those of the present dissect, and a snapshot of the memory viewer
\* that is not due again is of the address in the bar.
CachesMatch ==
  /\ dissect.done /\ nav.built = epoch => nav.refs = dissect.refs
  /\ hex.current => hex.buf = hex.at
=============================================================================
