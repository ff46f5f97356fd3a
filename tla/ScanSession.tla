---------------------------- MODULE ScanSession -----------------------------
(***************************************************************************)
(* The scanner (nemclass-scan/src/scanner.rs, target.rs): one Scanner over *)
(* a target whose memory goes on changing while a pass reads it.           *)
(*                                                                         *)
(* A first scan walks the regions that survive the region filter in        *)
(* overlapping windows; a next scan reads the previous results again.  A   *)
(* pass that ends well pushes a generation of results, one that fails or   *)
(* is stopped pushes nothing, and undo pops.  Values have a fixed width.   *)
(* A call that is refused for its arguments changes nothing: the guards of *)
(* FirstScan and NextScan are those checks.                                *)
(***************************************************************************)
EXTENDS Integers, Sequences, FiniteSets, SequencesExt

CONSTANTS
  Top,               \* the address space is 0 .. Top - 1
  Radix,             \* a byte is 0 .. Radix - 1
  Gone,              \* what an unmapped address holds
  Width,             \* the value type's fixed width: the stride
  Signed,            \* whether it is a signed type
  CHUNK_SIZE,
  HISTORY_DEPTH,
  PROGRESS_INTERVAL,
  ResultLimit,       \* Scanner::result_limit
  Layouts,           \* the region lists a target may have
  Memories,          \* the contents it may start with
  Filters,           \* the region filters a user may set
  Alignments,        \* the candidate steps a user may set
  Compares,          \* the compare kinds a user may pick
  Needles,           \* the needles a user may type: a value and an upper bound
  None,              \* no needle, no upper bound
  MaxPasses,         \* bound on the scans started
  MaxChanges         \* bound on the changes the target makes to its memory

ASSUME WidthAssumption ==
  /\ {Top, Radix, Width, CHUNK_SIZE, HISTORY_DEPTH, PROGRESS_INTERVAL, ResultLimit}
       \subseteq Nat \ {0}
  /\ Signed \in BOOLEAN
  /\ Alignments \subseteq Nat \ {0}
  /\ MaxPasses \in Nat /\ MaxChanges \in Nat

VARIABLES
  layout,            \* the target's regions
  scope,             \* the region filter and alignment the Scanner was built with
  mem,               \* the target's memory
  history,           \* the generations, oldest first
  hasScanned,
  truncated,
  scannedRegions,
  stats,             \* last_stats
  pass,              \* the scan in progress
  passes,            \* ghost: scans started
  changes,           \* ghost: changes the target made
  seen               \* ghost: what each address held since the pass began

vars == <<layout, scope, mem, history, hasScanned, truncated, scannedRegions, stats, pass,
          passes, changes, seen>>

Addresses == 0 .. Top - 1
Bytes == 0 .. Radix - 1
Idle == [op |-> "idle"]
NothingSeen == [a \in Addresses |-> {}]
Smaller(a, b) == IF a < b THEN a ELSE b
Larger(a, b) == IF a > b THEN a ELSE b

ASSUME MemoryAssumption == Memories \subseteq [Addresses -> Bytes \cup {Gone}]

Regions == [base : Addresses, size : Nat]
End(r) == Smaller(r.base + r.size, Top)

\* A target lists its regions in ascending order, and mappings do not overlap.
ASSUME LayoutsAssumption ==
  \A l \in Layouts :
    l \in Seq(Regions) /\ \A i, j \in 1 .. Len(l) : i < j => End(l[i]) <= l[j].base

\* A filter's bounds are addresses, its allowlist a list of spans.
ASSUME FiltersAssumption ==
  \A f \in Filters :
    /\ f.start \in 0 .. Top /\ f.stop \in 0 .. Top
    /\ f.include \subseteq Regions /\ IsFiniteSet(f.include)

Init ==
  /\ layout \in Layouts /\ mem \in Memories
  /\ scope \in [filter : Filters, align : Alignments]
  /\ history = <<>> /\ hasScanned = FALSE
  /\ truncated = FALSE /\ scannedRegions = 0
  /\ stats = [scanned |-> 0, matched |-> 0, unreadable |-> 0]
  /\ pass = Idle
  /\ passes = 0 /\ changes = 0
  /\ seen = NothingSeen

-----------------------------------------------------------------------------
(* Regions and the region filter.                                          *)

Region(base, end) == [base |-> base, size |-> end - base]

\* The members of S in ascending order of a key.
Ascending(S, key) ==
  CHOOSE s \in [1 .. Cardinality(S) -> S] :
    /\ Range(s) = S
    /\ \A i, j \in 1 .. Cardinality(S) : i < j => key[s[i]] <= key[s[j]]

ByBase(regions) == Ascending(regions, [r \in regions |-> r.base])

\* Mutation: the spans are not merged.
KeepApart(merged, r) == Append(merged, r)

\* A span that overlaps or abuts the last one extends it.
Coalesce(merged, r) ==
  IF merged # <<>> /\ r.base <= End(Last(merged))
  THEN Append(Front(merged), Region(Last(merged).base, Larger(End(Last(merged)), End(r))))
  ELSE Append(merged, r)

MergedInclude(filter) ==
  LET spans == ByBase({r \in filter.include : r.size > 0})
      merged[k \in 0 .. Len(spans)] ==
        IF k = 0 THEN <<>> ELSE Coalesce(merged[k - 1], spans[k])
  IN merged[Len(spans)]

IsUnrestricted(filter) == filter.start = 0 /\ filter.stop = Top /\ filter.include = {}

\* The window, cut by every allowed span; no span left allows them all.
Apply(filter, regions) ==
  LET include == MergedInclude(filter)
      spans == IF include = <<>> THEN {Region(0, Top)} ELSE Range(include)
      lo(r, s) == Larger(Larger(r.base, filter.start), s.base)
      hi(r, s) == Smaller(Smaller(End(r), filter.stop), End(s))
  IN IF IsUnrestricted(filter) THEN regions
     ELSE ByBase({Region(lo(p[1], p[2]), hi(p[1], p[2])) :
                    p \in {q \in Range(regions) \X spans : lo(q[1], q[2]) < hi(q[1], q[2])}})

-----------------------------------------------------------------------------
(* Reads and comparisons.                                                  *)

\* A read returns the bytes before the first hole, at most want of them.
ReadLen(addr, want) ==
  CHOOSE n \in 0 .. want :
    /\ \A i \in 0 .. n - 1 : addr + i \in Addresses /\ mem[addr + i] # Gone
    /\ n < want => addr + n \notin Addresses \/ mem[addr + n] = Gone

Span(m, addr) == [i \in 1 .. Width |-> m[addr + i - 1]]
\* Little-endian; the upper half of a signed type is negative.
ReadInt(span) ==
  LET from[i \in 1 .. Width + 1] == IF i > Width THEN 0 ELSE span[i] + Radix * from[i + 1]
  IN IF Signed /\ 2 * from[1] >= Radix ^ Width THEN from[1] - Radix ^ Width ELSE from[1]

NeedsPrevious(compare) ==
  compare \in {"Increased", "IncreasedBy", "Decreased", "DecreasedBy", "Changed", "Unchanged"}
IsBaseline(compare) == compare = "Unknown"
NeedsNeedle(compare) ==
  compare \notin {"Unknown", "Increased", "Decreased", "Changed", "Unchanged"}
NeedleAllowed(compare, needle) == NeedsNeedle(compare) => needle # None

CompareInt(compare, cur, needle, prev) ==
  CASE compare = "Exact" -> cur = needle.value
    [] compare = "NotEqual" -> cur # needle.value
    [] compare = "GreaterThan" -> cur > needle.value
    [] compare = "LessThan" -> cur < needle.value
    [] compare = "Between" -> cur > needle.value /\ (needle.upper = None \/ cur < needle.upper)
    [] compare = "Unknown" -> TRUE
    [] compare = "Increased" -> cur > prev
    [] compare = "Decreased" -> cur < prev
    [] compare = "Changed" -> cur # prev
    [] compare = "Unchanged" -> cur = prev
    [] compare = "IncreasedBy" -> cur = prev + needle.value
    [] compare = "DecreasedBy" -> cur = prev - needle.value

\* A first scan has no previous value, and only compares that need none.
Matches(compare, needle, span, previous) ==
  CompareInt(compare, ReadInt(span), needle, ReadInt(previous))

-----------------------------------------------------------------------------
(* Generations.                                                            *)

Results == IF history = <<>> THEN <<>> ELSE Last(history).rows

\* base, op, unreadable: ghosts, the results the pass began with, its kind and the rows
\* of base it could not read.
Generation(rows, unreadable) ==
  [rows |-> rows, base |-> pass.base, op |-> pass.op, unreadable |-> unreadable]

\* Mutation: the generation below the new one is evicted.
EvictNewest(g) ==
  LET pushed == Append(history, g) IN
  IF Len(pushed) > HISTORY_DEPTH THEN RemoveAt(pushed, Len(pushed) - 1) ELSE pushed

PushGeneration(g) ==
  LET pushed == Append(history, g) IN
  IF Len(pushed) > HISTORY_DEPTH THEN Tail(pushed) ELSE pushed

Undo ==
  /\ pass = Idle /\ Len(history) > 1
  /\ history' = Front(history)
  /\ UNCHANGED <<layout, scope, mem, hasScanned, truncated, scannedRegions, stats, pass, passes,
                 changes, seen>>

\* What both scans begin with.
Begins(p) ==
  /\ pass = Idle /\ passes < MaxPasses
  /\ pass' = p
  /\ passes' = passes + 1
  /\ seen' = [a \in Addresses |-> {mem[a]}]
  /\ UNCHANGED <<layout, scope, mem, history, hasScanned, stats, changes>>

-----------------------------------------------------------------------------
(* The first scan: one region after the other, window by window.           *)

NextMultipleOf(n, k) == ((n + k - 1) \div k) * k

Enter(p) ==
  IF p.todo = <<>> THEN p
  ELSE [p EXCEPT !.at = NextMultipleOf(Head(p.todo).base, scope.align), !.since = 0]

FirstScan(compare, needle) ==
  /\ ~NeedsPrevious(compare) /\ NeedleAllowed(compare, needle)
  /\ LET regions == Apply(scope.filter, layout) IN
     /\ Begins(Enter([op |-> "first", compare |-> compare, needle |-> needle,
                      todo |-> regions, at |-> 0, since |-> 0, scanned |-> 0, out |-> <<>>,
                      base |-> Results]))
     /\ scannedRegions' = Len(regions)
  /\ truncated' = FALSE

WindowRead ==
  ReadLen(pass.at, Smaller(Larger(CHUNK_SIZE, Width), End(Head(pass.todo)) - pass.at))

\* The candidates of a window of which read bytes came.
Candidates(read) ==
  [i \in 1 .. (read - Width) \div scope.align + 1 |-> pass.at + (i - 1) * scope.align]

\* Mutation: the windows do not overlap.
AdvancePast(read) == NextMultipleOf(pass.at + read, scope.align)

\* The next window overlaps this one by all but one byte of a value.
Advance(read) ==
  Larger(NextMultipleOf(pass.at + Larger(read - (Width - 1), 1), scope.align),
         pass.at + scope.align)

Walking == pass.op = "first" /\ pass.todo # <<>>
InRegion == Walking /\ pass.at < End(Head(pass.todo))

\* The k-th smallest member of S.
Nth(S, k) == CHOOSE a \in S : Cardinality({b \in S : b <= a}) = k

\* The rows of a window in ascending order, up to the result limit, and how far that looks.
WindowRows(read) ==
  LET tested == Candidates(read)
      hits == {a \in Range(tested) \cap Addresses :
                 Matches(pass.compare, pass.needle, Span(mem, a), Span(mem, a))}
      rows == [k \in 1 .. Smaller(Cardinality(hits), ResultLimit - Len(pass.out)) |->
                 LET a == Nth(hits, k)
                 IN [address |-> a, current |-> Span(mem, a), previous |-> Span(mem, a)]]
      full == Len(pass.out) + Len(rows) >= ResultLimit
  IN [rows |-> rows,
      full |-> full,
      tested |-> IF full THEN (Last(rows).address - pass.at) \div scope.align + 1 ELSE Len(tested)]

\* One window is read and compared; the limit ends the whole walk.
FirstWindow ==
  /\ InRegion
  /\ WindowRead >= Width
  /\ \E read \in {WindowRead} : \E w \in {WindowRows(read)} :
     /\ pass' = [pass EXCEPT !.out = @ \o w.rows, !.scanned = @ + w.tested,
                             !.since = (@ + w.tested) % PROGRESS_INTERVAL,
                             !.at = Advance(read),
                             !.todo = IF w.full THEN <<>> ELSE @]
     /\ truncated' = w.full
  /\ UNCHANGED <<layout, scope, mem, history, hasScanned, scannedRegions, stats, passes, changes, seen>>

\* Mutation: a short read is tried again.
RetryShortRead == IF InRegion THEN pass ELSE Enter([pass EXCEPT !.todo = Tail(@)])

LeaveRegion == Enter([pass EXCEPT !.todo = Tail(@)])

\* Past the end, or too little left to hold a value: on to the next region.
FirstRegionEnds ==
  /\ Walking
  /\ InRegion => WindowRead < Width
  /\ pass' = LeaveRegion
  /\ UNCHANGED <<layout, scope, mem, history, hasScanned, truncated, scannedRegions, stats, passes,
                 changes, seen>>

\* Mutation: a pass that does not complete leaves what it found.
AbandonWithResults ==
  /\ pass' = Idle /\ seen' = NothingSeen
  /\ history' = PushGeneration(Generation(pass.out, 0))
  /\ UNCHANGED <<layout, scope, mem, hasScanned, truncated, scannedRegions, stats, passes, changes>>

\* A pass that does not complete pushes nothing.
Abandon ==
  /\ pass' = Idle /\ seen' = NothingSeen
  /\ UNCHANGED <<layout, scope, mem, history, hasScanned, truncated, scannedRegions, stats, passes,
                 changes>>

\* The observer's tick, every PROGRESS_INTERVAL candidates of a region, says stop.
FirstCancelled ==
  /\ InRegion /\ WindowRead >= Width
  /\ pass.since + WindowRows(WindowRead).tested >= PROGRESS_INTERVAL
  /\ Abandon

\* Nothing is mapped where the window begins: the error ends the scan.
FirstReadFails == InRegion /\ WindowRead = 0 /\ Abandon

FirstCompletes ==
  /\ pass.op = "first" /\ pass.todo = <<>>
  /\ history' = PushGeneration(Generation(pass.out, 0))
  /\ hasScanned' = TRUE
  /\ stats' = [scanned |-> pass.scanned, matched |-> Len(pass.out), unreadable |-> 0]
  /\ pass' = Idle /\ seen' = NothingSeen
  /\ UNCHANGED <<layout, scope, mem, truncated, scannedRegions, passes, changes>>

-----------------------------------------------------------------------------
(* The next scan: one previous result after the other.                     *)

NextScan(compare, needle) ==
  /\ hasScanned /\ ~IsBaseline(compare) /\ NeedleAllowed(compare, needle)
  /\ Begins([op |-> "next", compare |-> compare, needle |-> needle, at |-> 1, out |-> <<>>,
             unreadable |-> 0, base |-> Results])
  /\ UNCHANGED <<truncated, scannedRegions>>

Rereading == pass.op = "next" /\ pass.at <= Len(pass.base)

\* Mutation: the oldest known value is carried along.
NextRowOldest(prev) ==
  [address |-> prev.address, current |-> Span(mem, prev.address), previous |-> prev.previous]

\* The previous column shows what the generation before had as current.
NextRow(prev) ==
  [address |-> prev.address, current |-> Span(mem, prev.address), previous |-> prev.current]

\* One result is read again; what cannot be read is dropped and counted.
NextReads ==
  /\ Rereading
  /\ LET prev == pass.base[pass.at]
         readable == ReadLen(prev.address, Width) >= Width
         kept == readable /\ Matches(pass.compare, pass.needle, Span(mem, prev.address), prev.current)
     IN pass' = [pass EXCEPT !.at = @ + 1,
                             !.unreadable = IF readable THEN @ ELSE @ + 1,
                             !.out = IF kept THEN Append(@, NextRow(prev)) ELSE @]
  /\ UNCHANGED <<layout, scope, mem, history, hasScanned, truncated, scannedRegions, stats, passes,
                 changes, seen>>

NextCancelled == Rereading /\ (pass.at - 1) % PROGRESS_INTERVAL = 0 /\ Abandon

\* Mutation: a target that answers nothing is taken for one without matches.
NeverDead == FALSE

TargetDead == pass.unreadable = Len(pass.base) /\ pass.base # <<>>

NextFails == pass.op = "next" /\ ~Rereading /\ TargetDead /\ Abandon

NextCompletes ==
  /\ pass.op = "next" /\ ~Rereading /\ ~TargetDead
  /\ history' = PushGeneration(Generation(pass.out, pass.unreadable))
  /\ stats' = [scanned |-> Len(pass.base), matched |-> Len(pass.out),
               unreadable |-> pass.unreadable]
  /\ pass' = Idle /\ seen' = NothingSeen
  /\ UNCHANGED <<layout, scope, mem, hasScanned, truncated, scannedRegions, passes, changes>>

-----------------------------------------------------------------------------
(* The target.                                                             *)

\* The target writes a byte, or maps or unmaps an address, at any time.
TargetChanges(a, b) ==
  /\ changes < MaxChanges /\ mem[a] # b
  /\ mem' = [mem EXCEPT ![a] = b]
  /\ changes' = changes + 1
  /\ seen' = IF pass = Idle THEN seen ELSE [seen EXCEPT ![a] = @ \cup {b}]
  /\ UNCHANGED <<layout, scope, history, hasScanned, truncated, scannedRegions, stats, pass, passes>>

ScanSteps ==
  \/ FirstWindow \/ FirstRegionEnds \/ FirstReadFails \/ FirstCompletes
  \/ NextReads \/ NextFails \/ NextCompletes

Next ==
  \/ \E c \in Compares, n \in Needles : FirstScan(c, n) \/ NextScan(c, n)
  \/ ScanSteps \/ FirstCancelled \/ NextCancelled
  \/ Undo
  \/ \E a \in Addresses, b \in Bytes \cup {Gone} : TargetChanges(a, b)

Spec == Init /\ [][Next]_vars

\* The worker that runs the scan goes on.
FairSpec == Spec /\ WF_vars(ScanSteps)

-----------------------------------------------------------------------------
Spans == [1 .. Width -> Bytes]
Rows == Seq([address : Addresses, current : Spans, previous : Spans])

TypeOK ==
  /\ layout \in Layouts /\ scope \in [filter : Filters, align : Alignments]
  /\ mem \in [Addresses -> Bytes \cup {Gone}]
  /\ history \in Seq([rows : Rows, base : Rows, op : {"first", "next"}, unreadable : Nat])
  /\ Len(history) <= HISTORY_DEPTH
  /\ hasScanned \in BOOLEAN /\ truncated \in BOOLEAN /\ scannedRegions \in Nat
  /\ stats \in [scanned : Nat, matched : Nat, unreadable : Nat]
  /\ pass.op \in {"idle", "first", "next"}
  /\ pass # Idle => pass.out \in Rows /\ pass.base \in Rows
  /\ passes \in 0 .. MaxPasses /\ changes \in 0 .. MaxChanges
  /\ seen \in [Addresses -> SUBSET (Bytes \cup {Gone})]

\* Undo goes back to the results that were there when the undone scan was started,
\* however many generations were evicted, undone and pushed again in between.
UndoExact == \A i \in 2 .. Len(history) : history[i].base = history[i - 1].rows

ValueAt(a) == a .. a + Width - 1
AddressesOf(rows) == {rows[i].address : i \in DOMAIN rows}
Held(r, a) == a \in r.base .. r.base + r.size - 1

\* What a first scan is asked for, without merging, sorting or windows: the values at
\* multiples of the alignment that lie in one region, in the window and in the allowlist.
Searched ==
  {a \in Addresses :
     /\ a % scope.align = 0
     /\ \E r \in Range(layout) : \A b \in ValueAt(a) : Held(r, b)
     /\ \A b \in ValueAt(a) :
          /\ scope.filter.start <= b /\ b < scope.filter.stop
          /\ \/ \A s \in scope.filter.include : s.size = 0
             \/ \E s \in scope.filter.include : Held(s, b)}

\* The value did not change during the pass, and nothing before it in its region was
\* unmapped: a hole ends the walk of a region.
Settled(a) ==
  /\ \A b \in ValueAt(a) : seen[b] = {mem[b]}
  /\ \A r \in Range(layout) : Held(r, a) =>
       \A b \in r.base .. a + Width - 1 : Gone \notin seen[b]

\* A first scan that completes has found every value it was asked for, once, in ascending
\* order, and nothing else, up to its last row if the limit ended it: no seam between two
\* windows or two allowed spans hides or doubles a value, whatever the target changed
\* elsewhere in the meantime.
FirstScanExact ==
  [][pass.op = "first" /\ history' # history =>
       LET rows == Last(history').rows
           found == AddressesOf(rows)
       IN /\ \A i \in 2 .. Len(rows) : rows[i - 1].address < rows[i].address
          /\ found \subseteq Searched
          /\ \A a \in Searched :
               Settled(a) /\ (truncated => a <= Last(rows).address) =>
                 (a \in found <=> Matches(pass.compare, pass.needle, Span(mem, a), Span(mem, a)))
    ]_vars

\* A next scan that completes keeps the rows whose value stayed readable and compares, and
\* shows for each the value the user last saw as its previous one; an evicted or undone
\* generation never shines through.
NextScanExact ==
  [][pass.op = "next" /\ history' # history =>
       LET rows == Last(history').rows
           old == IF history = <<>> THEN <<>> ELSE Last(history).rows
       IN /\ \A i \in DOMAIN rows : \E j \in DOMAIN old :
               old[j].address = rows[i].address /\ old[j].current = rows[i].previous
          /\ \A j \in DOMAIN old :
               (\A b \in ValueAt(old[j].address) : seen[b] = {mem[b]} /\ mem[b] # Gone) =>
                 (old[j].address \in AddressesOf(rows)
                    <=> Matches(pass.compare, pass.needle, Span(mem, old[j].address), old[j].current))
    ]_vars

\* A target that went away never empties the results: whatever was pushed by a next scan
\* over some results had at least one of them answered, and every row lost is accounted for.
DeadTargetKeepsResults ==
  \A i \in DOMAIN history :
    LET g == history[i] IN
    g.op = "next" =>
      /\ Len(g.rows) + g.unreadable <= Len(g.base)
      /\ g.base # <<>> => g.unreadable < Len(g.base)

\* A scan that was started ends, completed, failed or stopped: every window advances.
PassEnds == pass # Idle ~> pass = Idle
=============================================================================
