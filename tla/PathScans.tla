----------------------------- MODULE PathScans ------------------------------
(***************************************************************************)
(* The two searches for pointer paths and the panels that run them: the    *)
(* spider (breadth first from an object, spider.rs) and the pointer scan   *)
(* (backwards from an address to a module image, pointerscan.rs).  Memory  *)
(* is an array of 4-byte cells; a pointer fills Psize cells, the low one   *)
(* holding the address and the others 0.  The searches run on workers in   *)
(* several reads, and the target keeps changing its memory meanwhile.      *)
(***************************************************************************)
EXTENDS AddressFormula, FiniteSets, SequencesExt
CONSTANTS
  Memories,       \* the target's possible memories at the start: Cells -> words
  Sections,       \* the mappings: records [lo, hi, kind, write, exec, cow]
  ModuleName,     \* the module whose image anchors paths ...
  Image,          \* ... and its span <<base, end>>
  TargetStores,   \* the stores <<cell, word>> the target may perform
  Searches,       \* what the user may enter in the spider's search row
  Refines,        \* and in its refine row: <<compare, needle>>
  Goals,          \* goal addresses of the pointer scan
  Psize,          \* cells of a pointer (8 bytes)
  StructSize,     \* bytes of each struct the spider examines
  PageCells,      \* PAGE
  SpiderDepth,    \* MAX_DEPTH of the spider
  MaxHits, MaxNodes,            \* max_results, max_nodes of the spider
  ProgressInterval,             \* nodes between two ticks of the observer
  ChainDepth, ChainOffset,      \* max_depth, max_offset of the pointer scan
  MaxPaths, MaxMapEntries,      \* its caps on results and on the map
  MaxPathOps      \* bound: operations of the user and stores of the target

VARIABLES
  words,          \* the target's memory
  unmapped,       \* sections the target has unmapped since
  pathTarget,     \* the app is attached
  spRows, spTruncated,   \* SpiderPanel: rows, truncated
  spJob,          \* SpiderPanel: scan_job and refine_job (never both)
  ptRows, ptTruncated,   \* PointerScanPanel: rows, truncated
  ptJob,          \* PointerScanPanel: scan_job and rescan_job
  pathOps

spVars == <<spRows, spTruncated, spJob>>
ptVars == <<ptRows, ptTruncated, ptJob>>
pathVars == <<words, unmapped, pathTarget, spVars, ptVars, pathOps>>

NoJob == [st |-> "idle"]

PathInit ==
  /\ words \in Memories
  /\ unmapped = {}
  /\ pathTarget = TRUE
  /\ spRows = <<>> /\ spTruncated = FALSE /\ spJob = NoJob
  /\ ptRows = <<>> /\ ptTruncated = FALSE /\ ptJob = NoJob
  /\ pathOps = 0

PathOp == pathOps < MaxPathOps /\ pathOps' = pathOps + 1

---------------------------------------------------------------------------
(* The target as a scan sees it.                                           *)

\* SectionFilter::keep with the default filter both searches use: writable
\* private or image memory that is not copy-on-write.
Keep(s) == s.kind \in {"private", "image"} /\ s.write /\ ~s.cow

Mapped == {i \in DOMAIN Sections : i \notin unmapped}
CellsOf(i) == Sections[i].lo .. Sections[i].hi - 1
Readable(c) == \E i \in Mapped : c \in CellsOf(i)
ReadableCells == UNION {CellsOf(i) : i \in Mapped}

\* regions(): the kept sections, in ascending order.
Regions == SetToSortSeq({i \in Mapped : Keep(Sections[i])},
                        LAMBDA i, j : Sections[i].lo < Sections[j].lo)

\* read(): the cells that came back are contiguous from the start (the number of
\* them; none is an error or an empty read).
ReadCells(addr, n) ==
  CHOOSE k \in 0 .. n :
    /\ \A j \in 0 .. k - 1 : Readable(addr + j)
    /\ k < n => ~Readable(addr + k)

ReadWord(addr) ==
  IF \A j \in 1 .. Psize - 1 : words[addr + j] = 0 THEN words[addr] ELSE AddrLimit - 1

\* A whole pointer can be read at addr; what a dereference of it gives.
HoldsPointer(addr) == \A j \in 0 .. Psize - 1 : Readable(addr + j)
Deref(addr) == IF HoldsPointer(addr) THEN ReadWord(addr) ELSE Unresolved

IsMapped(regions, addr) == \E i \in Range(regions) : addr \in CellsOf(i)

---------------------------------------------------------------------------
(* The spider.                                                             *)

\* SpiderPath::resolve: a null or unreadable hop fails.
SpiderResolve(path) ==
  LET hop(addr, off) ==
        IF addr = Unresolved \/ Deref(addr + off) = 0 THEN Unresolved ELSE Deref(addr + off)
  IN FoldLeft(hop, path.root, path.parents)

SpiderAddress(path) ==
  LET addr == SpiderResolve(path) IN IF addr = Unresolved THEN addr ELSE addr + path.offset

\* The base of a formula: the module and the distance into it when the address
\* lies in its image, else the bare address (hit_row, path_row).
Anchor(addr) ==
  IF addr \notin Image[1] .. Image[2] - 1 THEN <<Number(addr)>>
  ELSE IF addr = Image[1] THEN <<Identifier(ModuleName)>>
  ELSE <<Identifier(ModuleName), Sym("+"), Number(addr - Image[1])>>

Plus(expr, off) == expr \o <<Sym("+"), Number(off)>>
Bracketed(expr) == <<Sym("[")>> \o expr \o <<Sym("]")>>

\* SpiderPath::to_formula: every parent offset is added and dereferenced, the
\* last one only added.
SpiderFormula(path) ==
  Plus(FoldLeft(LAMBDA expr, off : Bracketed(Plus(expr, off)), Anchor(path.root), path.parents),
       path.offset)

\* The row's search parameters as the engine takes them: depth at most
\* MAX_DEPTH, alignment 0 read as the value's own width.
Clamped(s) == [s EXCEPT !.depth = IF @ > SpiderDepth THEN SpiderDepth ELSE @,
                        !.align = IF @ = 0 THEN 1 ELSE @]

NextMultiple(a, k) == ((a + k - 1) \div k) * k

\* A bug of an earlier tool: offsets counted from the rounded first slot.
SlotsFromRounded(addr, align) ==
  [k \in 1 .. (StructSize + align - 1) \div align |-> (k - 1) * align]

\* The slots of a struct, as offsets from its unrounded base.
SlotsOf(addr, align) ==
  [k \in 1 .. (StructSize + align - 1) \div align |->
     NextMultiple(addr, align) - addr + (k - 1) * align]

\* read_window: the offsets of the window that were read: one contiguous read, or
\* page by page when nothing came back.
Cover(addr, align) ==
  LET len == StructSize + Psize + align
      n == ReadCells(addr, len)
      page(off) == (addr + off) \div PageCells
      whole(off) == \A o \in 0 .. off : page(o) = page(off) => Readable(addr + o)
  IN IF n > 0 THEN 0 .. n - 1 ELSE {off \in 0 .. len - 1 : whole(off)}

Matches(compare, needle, v) ==
  CASE compare = "exact" -> v = needle
    [] compare = "greater" -> v > needle

\* compare_next, compare_change: against the needle, or the previous reading.
MatchesNext(compare, needle, v, previous) ==
  CASE compare = "changed" -> v # previous
    [] compare = "unchanged" -> v = previous
    [] OTHER -> Matches(compare, needle, v)

\* One slot of the struct at the head of the queue: the value branch, then the
\* pointer branch with its visited set.
VisitSlot(job, frame, cover, off) ==
  LET addr == frame.addr + off
      hit == off \in cover /\ Matches(job.par.cmp, job.par.needle, words[addr])
      found == [path |-> [root |-> job.par.root, parents |-> frame.parents, offset |-> off],
                current |-> words[addr], previous |-> words[addr]]
      hits == IF hit THEN Append(job.hits, found) ELSE job.hits
      full == hit /\ Len(hits) >= MaxHits
      isPointer == /\ frame.depth < job.par.depth
                   /\ addr % Psize = 0
                   /\ off .. off + Psize - 1 \subseteq cover
      word == IF isPointer THEN ReadWord(addr) ELSE 0
      fresh == /\ word # 0 /\ word # frame.addr
               /\ IsMapped(job.regions, word)
               /\ word \notin job.visited
      next == [addr |-> word, depth |-> frame.depth + 1, parents |-> Append(frame.parents, off)]
  IN IF job.trunc THEN job
     ELSE IF full \/ ~fresh THEN [job EXCEPT !.hits = hits, !.trunc = full]
     ELSE [job EXCEPT !.hits = hits, !.visited = @ \cup {word}, !.queue = Append(@, next)]

VisitStruct(job) ==
  LET frame == Head(job.queue)
      cover == Cover(frame.addr, job.par.align)
  IN FoldLeft(LAMBDA j, off : VisitSlot(j, frame, cover, off),
              [job EXCEPT !.queue = Tail(@), !.nodes = @ + 1],
              SlotsOf(frame.addr, job.par.align))

\* spider_scan_with up to its first level.
SpiderScan(par) ==
  [st |-> "search", par |-> par, regions |-> Regions, hits |-> <<>>, visited |-> {par.root},
   queue |-> <<[addr |-> par.root, depth |-> 0, parents |-> <<>>]>>,
   nodes |-> 0, trunc |-> FALSE, stop |-> FALSE, ok |-> TRUE, quiet |-> TRUE]

Ended(job, ok) == [job EXCEPT !.st = "done", !.ok = ok]

\* One round of the loop: the caps and the observer's tick come before the read.
SearchStep ==
  /\ spJob.st = "search"
  /\ spJob' =
       IF spJob.queue = <<>> \/ spJob.trunc THEN Ended(spJob, TRUE)
       ELSE IF spJob.nodes >= MaxNodes THEN Ended([spJob EXCEPT !.trunc = TRUE], TRUE)
       ELSE IF (spJob.nodes + 1) % ProgressInterval = 0 /\ spJob.stop THEN Ended(spJob, FALSE)
       ELSE VisitStruct(spJob)
  /\ UNCHANGED <<words, unmapped, pathTarget, spRows, spTruncated, ptVars, pathOps>>

\* spider_refine_with: one hit re-walked and re-read; the verdicts are collected and
\* the list is only narrowed at the end.
RefineStep ==
  /\ spJob.st = "refine"
  /\ LET job == spJob
         hit == Head(job.queue)
         addr == SpiderAddress(hit.path)
         keep == /\ Readable(addr)
                 /\ MatchesNext(job.par[1], job.par[2], words[addr], hit.current)
         kept == [hit EXCEPT !.previous = hit.current, !.current = words[addr]]
     IN spJob' =
          IF job.queue = <<>> THEN Ended(job, TRUE)
          ELSE IF (job.nodes + 1) % ProgressInterval = 0 /\ job.stop THEN Ended(job, FALSE)
          ELSE [job EXCEPT !.queue = Tail(@), !.nodes = @ + 1,
                           !.hits = IF keep THEN Append(@, kept) ELSE @]
  /\ UNCHANGED <<words, unmapped, pathTarget, spRows, spTruncated, ptVars, pathOps>>

\* Search: only with no rows and no job (the knobs lock until New search).
RunSearch(s) ==
  /\ PathOp /\ pathTarget /\ spJob = NoJob /\ spRows = <<>>
  /\ spTruncated' = FALSE
  /\ spJob' = SpiderScan(Clamped(s))
  /\ UNCHANGED <<words, unmapped, pathTarget, spRows, ptVars>>

\* Refine: the rows travel into the worker.
RunRefine(r) ==
  /\ PathOp /\ pathTarget /\ spJob = NoJob /\ spRows # <<>>
  /\ spJob' = [st |-> "refine", par |-> r, queue |-> spRows, hits |-> <<>>, nodes |-> 0,
               trunc |-> FALSE, stop |-> FALSE, ok |-> TRUE, quiet |-> TRUE]
  /\ spRows' = <<>>
  /\ UNCHANGED <<words, unmapped, pathTarget, spTruncated, ptVars>>

StopSpider ==
  /\ PathOp /\ spJob.st \in {"search", "refine"} /\ ~spJob.stop
  /\ spJob' = [spJob EXCEPT !.stop = TRUE]
  /\ UNCHANGED <<words, unmapped, pathTarget, spRows, spTruncated, ptVars>>

NewSearch ==
  /\ PathOp /\ spJob = NoJob /\ spRows # <<>>
  /\ spRows' = <<>> /\ spTruncated' = FALSE
  /\ UNCHANGED <<words, unmapped, pathTarget, spJob, ptVars>>

\* SpiderPanel::poll: an outcome lands, a failed one only as a message.
PollSpider ==
  /\ spJob.st = "done"
  /\ spRows' = IF spJob.ok THEN spJob.hits ELSE spRows
  /\ spTruncated' = IF spJob.ok /\ "regions" \in DOMAIN spJob THEN spJob.trunc ELSE spTruncated
  /\ spJob' = NoJob
  /\ UNCHANGED <<words, unmapped, pathTarget, ptVars, pathOps>>

---------------------------------------------------------------------------
(* The pointer scan.                                                       *)

\* PointerPath::resolve: dereference the base, add each offset and dereference
\* again, except after the last.
PtrResolve(path) ==
  LET n == Len(path.offsets)
      step(a, i) == IF a = Unresolved THEN a
                    ELSE IF i < n THEN Deref(a + path.offsets[i]) ELSE a + path.offsets[i]
  IN FoldLeft(step, Deref(path.base), [i \in 1 .. n |-> i])

\* PointerPath::to_formula: dereference first, then add.
PtrFormula(path) ==
  FoldLeft(LAMBDA expr, off : Plus(Bracketed(expr), off), Anchor(path.base), path.offsets)

Static(addr) == addr \in Image[1] .. Image[2] - 1

\* PointerMap::build for one region: every word of it that points into a region.
Harvested(regions, i) ==
  {<<ReadWord(a), a>> : a \in {a \in CellsOf(i) :
      a + Psize <= Sections[i].hi /\ IsMapped(regions, ReadWord(a))}}

\* range(): the entries with lo <= value <= goal, in the map's order.
InRange(map, goal) ==
  SetToSortSeq({e \in map : e[1] <= goal /\ e[1] + ChainOffset >= goal},
               LAMBDA x, y : x[1] < y[1] \/ (x[1] = y[1] /\ x[2] < y[2]))

\* A plausible slip: the new hop behind the ones below it.
ChainAppended(off, suffix) == Append(suffix, off)

\* The chain is emitted from the anchor to the goal: the new hop comes first.
Chain(off, suffix) == <<off>> \o suffix

\* solve: res carries the paths found and the truncated flag through the search.
RECURSIVE Solve(_, _, _, _, _, _)
Solve(map, goal, depth, suffix, visited, res) ==
  IF Len(res.paths) >= MaxPaths THEN [res EXCEPT !.trunc = TRUE]
  ELSE IF depth = 0 \/ goal \in visited THEN res
  ELSE FoldLeft(
    LAMBDA r, e :
      LET chain == Chain(goal - e[1], suffix)
      IN IF Len(r.paths) >= MaxPaths THEN [r EXCEPT !.trunc = TRUE]
         ELSE IF Static(e[2])
         THEN [r EXCEPT !.paths = Append(@, [base |-> e[2], offsets |-> chain])]
         ELSE Solve(map, e[2], depth - 1, chain, visited \cup {goal}, r),
    res, InRange(map, goal))

FindPaths(map, goal) == Solve(map, goal, ChainDepth, <<>>, {}, [paths |-> <<>>, trunc |-> FALSE])

\* Scan: the rows go first, whatever the fields hold.
RunScan(goal) ==
  /\ PathOp /\ pathTarget /\ ptJob = NoJob
  /\ ptRows' = <<>> /\ ptTruncated' = FALSE
  /\ ptJob' = [st |-> "harvest", goal |-> goal, regions |-> Regions, todo |-> Regions,
               map |-> {}, rows |-> <<>>, trunc |-> FALSE, ok |-> TRUE, quiet |-> TRUE]
  /\ UNCHANGED <<words, unmapped, pathTarget, spVars>>

RunScanBadGoal ==
  /\ PathOp /\ pathTarget /\ ptJob = NoJob /\ ptRows # <<>>
  /\ ptRows' = <<>> /\ ptTruncated' = FALSE
  /\ UNCHANGED <<words, unmapped, pathTarget, ptJob, spVars>>

\* The cap on the map: the search goes up in memory and stops at the cap.
CapMap(map) == {e \in map : Cardinality({f \in map : f[2] <= e[2]}) <= MaxMapEntries}

\* One region of PointerMap::build: a region gone since the list was taken fails the
\* whole scan.
HarvestStep ==
  /\ ptJob.st = "harvest"
  /\ LET i == Head(ptJob.todo)
         found == CapMap(ptJob.map \cup Harvested(ptJob.regions, i))
     IN ptJob' =
          IF ptJob.todo = <<>> THEN [ptJob EXCEPT !.st = "solve"]
          ELSE IF i \notin Mapped THEN Ended(ptJob, FALSE)
          ELSE IF Cardinality(found) < MaxMapEntries
               THEN [ptJob EXCEPT !.map = found, !.todo = Tail(@)]
          ELSE [ptJob EXCEPT !.map = found, !.trunc = TRUE, !.st = "solve"]
  /\ UNCHANGED <<words, unmapped, pathTarget, ptRows, ptTruncated, spVars, pathOps>>

\* find_paths works on the map alone.
SolveStep ==
  /\ ptJob.st = "solve"
  /\ LET res == FindPaths(ptJob.map, ptJob.goal)
     IN ptJob' = Ended([ptJob EXCEPT !.rows = res.paths, !.trunc = @ \/ res.trunc], TRUE)
  /\ UNCHANGED <<words, unmapped, pathTarget, ptRows, ptTruncated, spVars, pathOps>>

\* Rescan: the rows travel into the worker, which keeps those that lead to the goal
\* typed now.
Rescan(goal) ==
  /\ PathOp /\ pathTarget /\ ptJob = NoJob /\ ptRows # <<>>
  /\ ptJob' = [st |-> "rescan", goal |-> goal, todo |-> ptRows, rows |-> <<>>]
  /\ ptRows' = <<>>
  /\ UNCHANGED <<words, unmapped, pathTarget, ptTruncated, spVars>>

RescanStep ==
  /\ ptJob.st = "rescan"
  /\ ptJob' =
       IF ptJob.todo = <<>> THEN [st |-> "done", rows |-> ptJob.rows, ok |-> TRUE]
       ELSE [ptJob EXCEPT !.todo = Tail(@),
                          !.rows = IF PtrResolve(Head(ptJob.todo)) = ptJob.goal
                                   THEN Append(@, Head(ptJob.todo)) ELSE @]
  /\ UNCHANGED <<words, unmapped, pathTarget, ptRows, ptTruncated, spVars, pathOps>>

PollPointerScan ==
  /\ ptJob.st = "done"
  /\ ptRows' = IF ptJob.ok THEN ptJob.rows ELSE ptRows
  /\ ptTruncated' = IF ptJob.ok /\ "trunc" \in DOMAIN ptJob THEN ptJob.trunc ELSE ptTruncated
  /\ ptJob' = NoJob
  /\ UNCHANGED <<words, unmapped, pathTarget, spVars, pathOps>>

---------------------------------------------------------------------------
(* The target and the session.                                             *)

\* quiet: nothing in memory changed since the job began.
Disturbed(job) == IF "quiet" \in DOMAIN job THEN [job EXCEPT !.quiet = FALSE] ELSE job
Disturb == spJob' = Disturbed(spJob) /\ ptJob' = Disturbed(ptJob)

TargetStore(cell, word) ==
  /\ PathOp /\ Readable(cell) /\ words[cell] # word
  /\ words' = [words EXCEPT ![cell] = word]
  /\ Disturb
  /\ UNCHANGED <<unmapped, pathTarget, spRows, spTruncated, ptRows, ptTruncated>>

TargetUnmap(i) ==
  /\ PathOp /\ i \in Mapped /\ Sections[i].kind = "private"
  /\ unmapped' = unmapped \cup {i}
  /\ Disturb
  /\ UNCHANGED <<words, pathTarget, spRows, spTruncated, ptRows, ptTruncated>>

\* on_detach of both panels: rows and running jobs are dropped.
DetachPaths ==
  /\ PathOp /\ pathTarget
  /\ pathTarget' = FALSE
  /\ spRows' = <<>> /\ spTruncated' = FALSE /\ spJob' = NoJob
  /\ ptRows' = <<>> /\ ptTruncated' = FALSE /\ ptJob' = NoJob
  /\ UNCHANGED <<words, unmapped>>

AttachPaths ==
  /\ PathOp /\ ~pathTarget
  /\ pathTarget' = TRUE
  /\ UNCHANGED <<words, unmapped, spVars, ptVars>>

PathWork == SearchStep \/ RefineStep \/ HarvestStep \/ SolveStep \/ RescanStep

PathNext ==
  \/ \E s \in Searches : RunSearch(s)
  \/ \E r \in Refines : RunRefine(r)
  \/ \E g \in Goals : RunScan(g) \/ Rescan(g)
  \/ RunScanBadGoal \/ StopSpider \/ NewSearch
  \/ PollSpider \/ PollPointerScan
  \/ PathWork
  \/ \E st \in TargetStores : TargetStore(st[1], st[2])
  \/ \E i \in DOMAIN Sections : TargetUnmap(i)
  \/ DetachPaths \/ AttachPaths

PathSpec == PathInit /\ [][PathNext]_pathVars

---------------------------------------------------------------------------
(* Properties.                                                             *)

\* The structs a chain of exactly k hops leads to from the root, by definition and
\* without a visited set.
PointsTo(par, regions, addr) ==
  {ReadWord(addr + off) :
     off \in {o \in Range(SlotsOf(addr, par.align)) :
                /\ (addr + o) % Psize = 0
                /\ o .. o + Psize - 1 \subseteq Cover(addr, par.align)
                /\ IsMapped(regions, ReadWord(addr + o))}}

StructsAt(par, regions) ==
  LET at[k \in 0 .. par.depth] ==
        IF k = 0 THEN {par.root} ELSE UNION {PointsTo(par, regions, a) : a \in at[k - 1]}
  IN at

FormulaAddress(formula) ==
  Evaluate(Parse(formula), ModuleName :> Image[1],
           [a \in {a \in ReadableCells : HoldsPointer(a)} |-> ReadWord(a)])

\* What a spider search reports, if the target held still: every hit's path and its
\* formula lead to one cell, which matches; the hits come shallowest first and each
\* with the fewest hops to its struct; and, unless the search says it was
\* truncated, every matching slot read of every struct within the depth is among
\* them, once.  This is the claim of spider.rs about its breadth-first walk, its
\* visited set and its unrounded offsets.
SpiderExact ==
  spJob.st = "done" /\ "regions" \in DOMAIN spJob /\ spJob.ok /\ spJob.quiet =>
    LET par == spJob.par
        hits == spJob.hits
        at == StructsAt(par, spJob.regions)
        place(h) == <<SpiderResolve(h.path), h.path.offset>>
        all == {<<a, off>> \in (UNION Range(at)) \X (0 .. StructSize + par.align) :
                  /\ (a + off) % par.align = 0
                  /\ off < NextMultiple(a, par.align) - a + StructSize
                  /\ off \in Cover(a, par.align)
                  /\ Matches(par.cmp, par.needle, words[a + off])}
    IN /\ \A h \in Range(hits) :
            /\ Readable(SpiderAddress(h.path))
            /\ Matches(par.cmp, par.needle, words[SpiderAddress(h.path)])
            /\ FormulaAddress(SpiderFormula(h.path)) = SpiderAddress(h.path)
            /\ \A k \in 0 .. Len(h.path.parents) - 1 : place(h)[1] \notin at[k]
       /\ \A i, j \in 1 .. Len(hits) :
            i < j => /\ Len(hits[i].path.parents) <= Len(hits[j].path.parents)
                     /\ place(hits[i]) # place(hits[j])
       /\ ~spJob.trunc => {place(h) : h \in Range(hits)} = all

\* What a pointer scan reports, if the target held still: every path starts in a
\* module image and resolves to the goal, as does the formula shown for it, and
\* unless the scan says it was truncated every such chain is there that the
\* search allows (at most ChainDepth hops of at most ChainOffset, no static holder
\* on the way and no address twice).  This is what find_paths promises and the
\* class built from a row relies on.
PathsExact ==
  ptJob.st = "done" /\ "map" \in DOMAIN ptJob /\ ptJob.ok /\ ptJob.quiet =>
    LET goal == ptJob.goal
        holder(p, i) == PtrResolve([p EXCEPT !.offsets = SubSeq(@, 1, i)])
        onPath(p) == {holder(p, i) : i \in 1 .. Len(p.offsets)}
        pointsIn(a) ==
          IsMapped(ptJob.regions, a) /\ HoldsPointer(a) /\ IsMapped(ptJob.regions, Deref(a))
        chains == [base : {a \in ReadableCells : Static(a) /\ pointsIn(a)},
                   offsets : UNION {[1 .. k -> 0 .. ChainOffset] : k \in 1 .. ChainDepth}]
        all == {p \in chains :
                  /\ \A i \in 1 .. Len(p.offsets) - 1 : pointsIn(holder(p, i))
                  /\ PtrResolve(p) = goal
                  /\ Cardinality(onPath(p)) = Len(p.offsets)
                  /\ \A i \in 1 .. Len(p.offsets) - 1 : ~Static(holder(p, i))}
    IN /\ \A p \in Range(ptJob.rows) :
            /\ Static(p.base) /\ PtrResolve(p) = goal
            /\ FormulaAddress(PtrFormula(p)) = goal
       /\ ~ptJob.trunc => Range(ptJob.rows) = all
=============================================================================
