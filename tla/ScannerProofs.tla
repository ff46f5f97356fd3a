--------------------------- MODULE ScannerProofs ----------------------------
(***************************************************************************)
(* Proofs about the scanner: ScanSession, for any address space, width,    *)
(* chunk size, history depth, result limit, filters, needles and number of *)
(* passes, and ScannerPanel, for any value types, modules, scan ranges and *)
(* any number of scans and operations.                                     *)
(*                                                                         *)
(* Every pass works on the results that are on top of the history while it *)
(* runs (BaseInv); undo waits for the pass, so nothing can take them away. *)
(* A next scan accounts for each result it has passed: kept, dropped by    *)
(* the compare or counted as unreadable (NextInv).                         *)
(*                                                                         *)
(* A first scan finds what it was asked for (FirstScanIsExact).  The       *)
(* regions it walks, merged, sorted and cut by the filter, hold the values *)
(* that are searched and no others (SearchedIs).  Between two windows the  *)
(* rows are the matches among the settled values the walk has passed       *)
(* (FoundInv): a value at the seam of two windows is a candidate of one of *)
(* them (AdvanceFacts), and a region is left early only at a hole, which   *)
(* unsettles what is behind it (RegionDone).  What a row shows was in      *)
(* memory during the pass (Shows), so it is the value itself where that    *)
(* did not change.  The rows of every generation are in order (RowsInv);   *)
(* so the row a next scan keeps answers for one result (NextScanIsExact).  *)
(*                                                                         *)
(* TableOfSession speaks of the session on the panel.  During a Next Scan  *)
(* that session is on its way: the panel has none, and what its table      *)
(* shows has to be compared with the Scanner that travels in the job       *)
(* (JobInv).  A scan that was started has a number, so no generation is 0  *)
(* and no snapshot of a session is mistaken for an empty table (NumberInv).*)
(***************************************************************************)
EXTENDS ScanSession, ScannerPanel, FiniteSetTheorems, SequenceTheorems, WellFoundedInduction,
        TLAPS

IsSequence(s) == s \in Seq({s[i] : i \in DOMAIN s})

FirstPass(p) ==
  /\ DOMAIN p = {"op", "compare", "needle", "todo", "at", "since", "scanned", "out", "base"}
  /\ p.op = "first" /\ IsSequence(p.out)

NextPass(p) ==
  /\ DOMAIN p = {"op", "compare", "needle", "at", "out", "unreadable", "base"}
  /\ p.op = "next" /\ IsSequence(p.out)

PassInv == pass = Idle \/ FirstPass(pass) \/ NextPass(pass)

HistoryInv ==
  /\ IsSequence(history)
  /\ \A i \in 1 .. Len(history) : IsSequence(history[i].rows)

BaseInv == pass # Idle => pass.base = Results

\* The books of a next scan: the results before `at` are kept, dropped or unreadable.
NextInv ==
  pass.op = "next" =>
    /\ pass.at \in 1 .. Len(pass.base) + 1
    /\ pass.unreadable \in Nat
    /\ Len(pass.out) + pass.unreadable < pass.at

IInv ==
  /\ PassInv /\ HistoryInv /\ BaseInv /\ NextInv
  /\ UndoExact /\ DeadTargetKeepsResults

-----------------------------------------------------------------------------
(* Sequences, whatever they hold.                                          *)

LEMMA SequenceIntro ==
  ASSUME NEW S, NEW s \in Seq(S)
  PROVE  IsSequence(s)
<1> DEFINE R == {s[i] : i \in DOMAIN s}
<1>1. Len(s) \in Nat /\ DOMAIN s = 1 .. Len(s) /\ s \in [1 .. Len(s) -> S]
  BY LenProperties
<1>2. s \in [1 .. Len(s) -> R]
  BY <1>1
<1> HIDE DEF R
<1>3. s \in Seq(R)
  BY <1>1, <1>2
<1> QED
  BY <1>3 DEF IsSequence, R

LEMMA SequenceElim ==
  ASSUME NEW s, IsSequence(s)
  PROVE  Len(s) \in Nat /\ DOMAIN s = 1 .. Len(s) /\ (s = <<>> <=> Len(s) = 0)
<1> DEFINE R == {s[i] : i \in DOMAIN s}
<1>1. s \in Seq(R)
  BY DEF IsSequence
<1> HIDE DEF R
<1> QED
  BY <1>1, LenProperties, EmptySeq

LEMMA AppendSequence ==
  ASSUME NEW s, IsSequence(s), NEW e
  PROVE  /\ IsSequence(Append(s, e)) /\ Len(Append(s, e)) = Len(s) + 1
         /\ \A i \in 1 .. Len(s) : Append(s, e)[i] = s[i]
         /\ Append(s, e)[Len(s) + 1] = e
<1> DEFINE R == {s[i] : i \in DOMAIN s} \cup {e}
<1>1. s \in Seq(R) /\ e \in R
  BY SeqMonotonic DEF IsSequence
<1> HIDE DEF R
<1>2. /\ Append(s, e) \in Seq(R)
      /\ Len(Append(s, e)) = Len(s) + 1
      /\ \A i \in 1 .. Len(s) : Append(s, e)[i] = s[i]
      /\ Append(s, e)[Len(s) + 1] = e
  BY <1>1, AppendProperties
<1>3. IsSequence(Append(s, e))
  BY <1>2, SequenceIntro
<1> QED
  BY <1>2, <1>3

LEMMA TailSequence ==
  ASSUME NEW s, IsSequence(s), s # <<>>
  PROVE  /\ IsSequence(Tail(s)) /\ Len(Tail(s)) = Len(s) - 1
         /\ \A i \in 1 .. Len(s) - 1 : Tail(s)[i] = s[i + 1]
<1> DEFINE R == {s[i] : i \in DOMAIN s}
<1>1. s \in Seq(R)
  BY DEF IsSequence
<1> HIDE DEF R
<1>2. Tail(s) \in Seq(R) /\ Len(Tail(s)) = Len(s) - 1
      /\ \A i \in 1 .. Len(Tail(s)) : Tail(s)[i] = s[i + 1]
  BY <1>1, HeadTailProperties
<1> QED
  BY <1>2, SequenceIntro

LEMMA FrontSequence ==
  ASSUME NEW s, IsSequence(s), Len(s) > 0
  PROVE  /\ IsSequence(Front(s)) /\ Len(Front(s)) = Len(s) - 1
         /\ \A i \in 1 .. Len(s) - 1 : Front(s)[i] = s[i]
<1> DEFINE R == {s[i] : i \in DOMAIN s}
<1>1. s \in Seq(R) /\ Len(s) \in Nat
  BY SequenceElim DEF IsSequence
<1> HIDE DEF R
<1>2. \A i \in 1 .. Len(s) - 1 : s[i] \in R
  BY <1>1, ElementOfSeq
<1> DEFINE n == Len(s) - 1
<1>3. n \in Nat /\ 1 \in Int /\ n - 1 + 1 = n /\ \A i \in 1 .. n : 1 + i - 1 = i
  BY <1>1
<1> HIDE DEF n
<1>4. /\ SubSeq(s, 1, n) \in Seq(R)
      /\ Len(SubSeq(s, 1, n)) = IF 1 <= n THEN n - 1 + 1 ELSE 0
      /\ \A i \in 1 .. n - 1 + 1 : SubSeq(s, 1, n)[i] = s[1 + i - 1]
  BY <1>2, <1>3, SubSeqProperties DEF n
<1>5. IsSequence(SubSeq(s, 1, n))
  BY <1>4, SequenceIntro
<1>6. Front(s) = SubSeq(s, 1, n)
  BY DEF Front, n
<1> QED
  BY <1>3, <1>4, <1>5, <1>6 DEF n

LEMMA ConcatSequence ==
  ASSUME NEW s, IsSequence(s), NEW t, IsSequence(t)
  PROVE  IsSequence(s \o t)
<1> DEFINE R == {s[i] : i \in DOMAIN s} \cup {t[i] : i \in DOMAIN t}
<1>1. s \in Seq(R) /\ t \in Seq(R)
  BY SeqMonotonic DEF IsSequence
<1> HIDE DEF R
<1> QED
  BY <1>1, ConcatProperties, SequenceIntro

-----------------------------------------------------------------------------
(* The operators of the model.                                             *)

\* A window yields a sequence of rows, whatever it holds.
LEMMA WindowSequence ==
  ASSUME NEW read, IsSequence(pass.out)
  PROVE  IsSequence(WindowRows(read).rows)
<1> DEFINE hits == {a \in Range(Candidates(read)) \cap Addresses :
                      Matches(pass.compare, pass.needle, Span(mem, a), Span(mem, a))}
           n == Smaller(Cardinality(hits), ResultLimit - Len(pass.out))
           row(k) == LET a == Nth(hits, k)
                     IN [address |-> a, current |-> Span(mem, a), previous |-> Span(mem, a)]
           rows == [k \in 1 .. n |-> row(k)]
<1>1. WindowRows(read).rows = rows
  BY DEF WindowRows
<1>2. IsFiniteSet(hits)
  <2>1. IsFiniteSet(0 .. Top - 1)
    BY FS_Interval, WidthAssumption
  <2> QED
    BY <2>1, FS_Subset DEF Addresses
<1> HIDE DEF hits
<1>3. Cardinality(hits) \in Nat
  BY <1>2, FS_CardinalityType
<1>4. n \in Int
  BY <1>3, SequenceElim, WidthAssumption DEF Smaller
<1> HIDE DEF n
<1> DEFINE R == {row(k) : k \in 1 .. n}
<1>5. rows \in Seq(R)
  <2> HIDE DEF row
  <2> DEFINE m == IF n >= 0 THEN n ELSE 0
  <2>1. m \in Nat /\ 1 .. m = 1 .. n
    BY <1>4
  <2>2. rows \in [1 .. m -> R]
    BY <2>1
  <2> HIDE DEF m, rows, R
  <2> QED
    BY <2>1, <2>2
<1> HIDE DEF rows, R
<1> QED
  BY <1>1, <1>5, SequenceIntro

\* A pushed generation is the newest, and those below it keep their order.
LEMMA PushFacts ==
  ASSUME HistoryInv, NEW g
  PROVE  LET h == PushGeneration(g)
         IN /\ IsSequence(h) /\ h # <<>> /\ Last(h) = g
            /\ \A i \in 1 .. Len(h) : h[i] = g \/ \E j \in 1 .. Len(history) : h[i] = history[j]
            /\ \A i \in 2 .. Len(h) :
                 \/ h[i] = g /\ history # <<>> /\ h[i - 1] = Last(history)
                 \/ \E j \in 2 .. Len(history) : h[i] = history[j] /\ h[i - 1] = history[j - 1]
<1> DEFINE p == Append(history, g)
           h == PushGeneration(g)
<1>1. /\ IsSequence(history) /\ Len(history) \in Nat /\ (history = <<>> <=> Len(history) = 0)
      /\ HISTORY_DEPTH \in Nat \ {0}
  BY SequenceElim, WidthAssumption DEF HistoryInv
<1>2. /\ IsSequence(p) /\ Len(p) = Len(history) + 1
      /\ \A i \in 1 .. Len(history) : p[i] = history[i]
      /\ p[Len(history) + 1] = g
  BY <1>1, AppendSequence
<1>3. p # <<>>
  <2> HIDE DEF p
  <2> QED
    BY <1>1, <1>2, SequenceElim
<1>4. CASE Len(p) > HISTORY_DEPTH
  <2>1. h = Tail(p)
    BY <1>4 DEF PushGeneration
  <2>2. /\ IsSequence(h) /\ Len(h) = Len(history)
        /\ \A i \in 1 .. Len(history) : h[i] = p[i + 1]
    <3> HIDE DEF p
    <3>1. /\ IsSequence(Tail(p)) /\ Len(Tail(p)) = Len(p) - 1
          /\ \A i \in 1 .. Len(p) - 1 : Tail(p)[i] = p[i + 1]
      BY <1>2, <1>3, TailSequence
    <3> HIDE DEF h
    <3> QED
      BY <1>1, <1>2, <2>1, <3>1
  <2>3. Len(history) > 0
    BY <1>1, <1>2, <1>4
  <2> HIDE DEF h, p
  <2>4. h # <<>> /\ Last(h) = g
    BY <1>1, <1>2, <2>2, <2>3, SequenceElim DEF Last
  <2>5. ASSUME NEW i \in 1 .. Len(h)
        PROVE  h[i] = g \/ \E j \in 1 .. Len(history) : h[i] = history[j]
    BY <1>1, <1>2, <2>2
  <2>6. ASSUME NEW i \in 2 .. Len(h)
        PROVE  \/ h[i] = g /\ history # <<>> /\ h[i - 1] = Last(history)
               \/ \E j \in 2 .. Len(history) : h[i] = history[j] /\ h[i - 1] = history[j - 1]
    <3>1. h[i] = p[i + 1] /\ h[i - 1] = p[i] /\ p[i] = history[i]
      BY <1>1, <1>2, <2>2
    <3>2. CASE i = Len(history)
      BY <1>1, <1>2, <3>1, <3>2 DEF Last
    <3>3. CASE i < Len(history)
      <4>1. i + 1 \in 2 .. Len(history) /\ p[i + 1] = history[i + 1] /\ i = (i + 1) - 1
        BY <1>1, <1>2, <2>2, <3>3
      <4> QED
        BY <3>1, <4>1
    <3> QED
      BY <1>1, <2>2, <3>2, <3>3
  <2> QED
    BY <2>2, <2>4, <2>5, <2>6 DEF h
<1>5. CASE ~(Len(p) > HISTORY_DEPTH)
  <2>1. h = p
    BY <1>5 DEF PushGeneration
  <2> HIDE DEF h, p
  <2>2. Last(h) = g
    BY <1>1, <1>2, <2>1 DEF Last
  <2>3. ASSUME NEW i \in 1 .. Len(h)
        PROVE  h[i] = g \/ \E j \in 1 .. Len(history) : h[i] = history[j]
    BY <1>1, <1>2, <2>1
  <2>4. ASSUME NEW i \in 2 .. Len(h)
        PROVE  \/ h[i] = g /\ history # <<>> /\ h[i - 1] = Last(history)
               \/ \E j \in 2 .. Len(history) : h[i] = history[j] /\ h[i - 1] = history[j - 1]
    <3>1. h[i - 1] = history[i - 1]
      BY <1>1, <1>2, <2>1
    <3>2. CASE i = Len(history) + 1
      BY <1>1, <1>2, <2>1, <3>1, <3>2 DEF Last
    <3>3. CASE i < Len(history) + 1
      BY <1>1, <1>2, <2>1, <3>1, <3>3
    <3> QED
      BY <1>1, <1>2, <2>1, <3>2, <3>3
  <2> QED
    BY <1>2, <1>3, <2>1, <2>2, <2>3, <2>4 DEF h
<1> QED
  BY <1>4, <1>5

\* The results on top of the history are a sequence.
LEMMA ResultsSequence == HistoryInv => IsSequence(Results)
<1> SUFFICES ASSUME HistoryInv PROVE IsSequence(Results)
  OBVIOUS
<1>1. CASE history = <<>>
  <2>1. IsSequence(<<>>)
    BY EmptySeq, SequenceIntro
  <2> QED
    BY <1>1, <2>1 DEF Results
<1>2. CASE history # <<>>
  <2>1. Len(history) \in 1 .. Len(history)
    BY <1>2, SequenceElim DEF HistoryInv
  <2> QED
    BY <1>2, <2>1 DEF Results, Last, HistoryInv
<1> QED
  BY <1>1, <1>2

-----------------------------------------------------------------------------
(* The generations.                                                        *)

LEMMA InitInv == Init => IInv
<1> SUFFICES ASSUME Init PROVE IInv
  OBVIOUS
<1>1. IsSequence(<<>>)
  BY EmptySeq, SequenceIntro
<1> QED
  BY <1>1 DEF Init, IInv, PassInv, HistoryInv, BaseInv, NextInv, UndoExact, DeadTargetKeepsResults,
              Idle

\* A scan that completes.
LEMMA PushKeepsInv ==
  ASSUME IInv, NEW g, IsSequence(g.rows), g.base = Results,
         g.op = "next" => /\ Len(g.rows) + g.unreadable <= Len(g.base)
                          /\ g.base # <<>> => g.unreadable < Len(g.base),
         history' = PushGeneration(g), pass' = Idle
  PROVE  IInv'
<1>1. /\ IsSequence(history')
      /\ \A i \in 1 .. Len(history') :
           history'[i] = g \/ \E j \in 1 .. Len(history) : history'[i] = history[j]
      /\ \A i \in 2 .. Len(history') :
           \/ history'[i] = g /\ history # <<>> /\ history'[i - 1] = Last(history)
           \/ \E j \in 2 .. Len(history) :
                history'[i] = history[j] /\ history'[i - 1] = history[j - 1]
  BY PushFacts DEF IInv
<1>2. DOMAIN history' = 1 .. Len(history') /\ DOMAIN history = 1 .. Len(history)
  BY <1>1, SequenceElim DEF IInv, HistoryInv
<1>3. HistoryInv'
  BY <1>1 DEF IInv, HistoryInv
<1>4. UndoExact'
  BY <1>1 DEF IInv, UndoExact, Results
<1>5. DeadTargetKeepsResults'
  BY <1>1, <1>2 DEF IInv, DeadTargetKeepsResults
<1> QED
  BY <1>3, <1>4, <1>5 DEF IInv, PassInv, BaseInv, NextInv, Idle

LEMMA StepInv == IInv /\ [Next]_vars => IInv'
<1> SUFFICES ASSUME IInv, [Next]_vars PROVE IInv'
  OBVIOUS
<1>1. ASSUME UNCHANGED <<pass, history>> PROVE IInv'
  <2>1. PassInv'
    BY <1>1 DEF IInv, PassInv, FirstPass, NextPass, IsSequence
  <2>2. HistoryInv' /\ UndoExact' /\ DeadTargetKeepsResults'
    BY <1>1 DEF IInv, HistoryInv, UndoExact, DeadTargetKeepsResults, IsSequence
  <2>3. BaseInv' /\ NextInv'
    BY <1>1 DEF IInv, BaseInv, NextInv, Results
  <2> QED
    BY <2>1, <2>2, <2>3 DEF IInv
<1>2. ASSUME history' = history, FirstPass(pass'), pass'.base = Results PROVE IInv'
  <2>1. pass'.op = "first"
    BY <1>2 DEF FirstPass
  <2> QED
    BY <1>2, <2>1 DEF IInv, PassInv, HistoryInv, BaseInv, NextInv, UndoExact,
                      DeadTargetKeepsResults, Results, IsSequence
<1>3. ASSUME Abandon PROVE IInv'
  BY <1>3 DEF Abandon, IInv, PassInv, HistoryInv, BaseInv, NextInv, UndoExact,
              DeadTargetKeepsResults, Idle, IsSequence
<1>4. ASSUME pass.op = "first" PROVE FirstPass(pass) /\ pass.base = Results /\ pass # Idle
  BY <1>4 DEF IInv, PassInv, BaseInv, NextPass, Idle
<1>5. ASSUME pass.op = "next"
      PROVE  /\ NextPass(pass) /\ pass.base = Results /\ pass # Idle
             /\ IsSequence(pass.base) /\ Len(pass.base) \in Nat /\ Len(pass.out) \in Nat
             /\ pass.at \in 1 .. Len(pass.base) + 1 /\ pass.unreadable \in Nat
             /\ Len(pass.out) + pass.unreadable < pass.at
  <2>1. NextPass(pass) /\ pass.base = Results /\ pass # Idle
    BY <1>5 DEF IInv, PassInv, BaseInv, FirstPass, Idle
  <2>2. IsSequence(pass.base) /\ IsSequence(pass.out)
    BY <2>1, ResultsSequence DEF IInv, NextPass
  <2> QED
    BY <1>5, <2>1, <2>2, SequenceElim DEF IInv, NextInv
<1>6. IsSequence(<<>>) /\ Len(<<>>) = 0
  BY EmptySeq, SequenceIntro
<1>7. ASSUME NEW p, FirstPass(p) PROVE FirstPass(Enter(p)) /\ Enter(p).base = p.base
  BY <1>7 DEF FirstPass, Enter
<1>8. CASE UNCHANGED vars
  BY <1>1, <1>8 DEF vars
<1>9. ASSUME NEW c, NEW n, FirstScan(c, n) PROVE IInv'
  <2>1. PICK regions :
          Begins(Enter([op |-> "first", compare |-> c, needle |-> n, todo |-> regions, at |-> 0,
                        since |-> 0, scanned |-> 0, out |-> <<>>, base |-> Results]))
    BY <1>9 DEF FirstScan
  <2> DEFINE p == [op |-> "first", compare |-> c, needle |-> n, todo |-> regions, at |-> 0,
                   since |-> 0, scanned |-> 0, out |-> <<>>, base |-> Results]
  <2>2. FirstPass(p) /\ p.base = Results
    BY <1>6 DEF FirstPass
  <2>3. pass' = Enter(p) /\ history' = history
    BY <2>1 DEF Begins
  <2> HIDE DEF p
  <2> QED
    BY <1>2, <1>7, <2>2, <2>3
<1>10. ASSUME NEW c, NEW n, NextScan(c, n) PROVE IInv'
  <2>1. /\ pass' = [op |-> "next", compare |-> c, needle |-> n, at |-> 1, out |-> <<>>,
                    unreadable |-> 0, base |-> Results]
        /\ history' = history
    BY <1>10 DEF NextScan, Begins
  <2>2. NextPass(pass')
    BY <1>6, <2>1 DEF NextPass
  <2>3. NextInv'
    <3>1. Len(Results) \in Nat
      BY ResultsSequence, SequenceElim DEF IInv
    <3> QED
      BY <1>6, <2>1, <3>1 DEF NextInv
  <2> QED
    BY <2>1, <2>2, <2>3 DEF IInv, PassInv, HistoryInv, BaseInv, UndoExact, DeadTargetKeepsResults,
                            Results, IsSequence
<1>11. CASE FirstWindow
  <2>1. pass.op = "first" /\ history' = history
    BY <1>11 DEF FirstWindow, InRegion, Walking
  <2>2. FirstPass(pass) /\ pass.base = Results /\ IsSequence(pass.out)
    BY <1>4, <2>1 DEF FirstPass
  <2> DEFINE w == WindowRows(WindowRead)
  <2>3. pass' = [pass EXCEPT !.out = @ \o w.rows, !.scanned = @ + w.tested,
                             !.since = (@ + w.tested) % PROGRESS_INTERVAL,
                             !.at = Advance(WindowRead),
                             !.todo = IF w.full THEN <<>> ELSE @]
    BY <1>11, Zenon DEF FirstWindow
  <2>4. IsSequence(pass.out \o w.rows)
    BY <2>2, WindowSequence, ConcatSequence
  <2> HIDE DEF w
  <2>5. pass'.op = "first" /\ pass'.base = pass.base /\ pass'.out = pass.out \o w.rows
        /\ DOMAIN pass' = DOMAIN pass
    BY <2>2, <2>3 DEF FirstPass
  <2> QED
    BY <1>2, <2>1, <2>2, <2>4, <2>5 DEF FirstPass
<1>12. CASE FirstRegionEnds
  <2> DEFINE p == [pass EXCEPT !.todo = Tail(@)]
  <2>1. pass.op = "first" /\ history' = history /\ pass' = Enter(p)
    BY <1>12 DEF FirstRegionEnds, Walking, LeaveRegion
  <2>2. FirstPass(p) /\ p.base = Results
    BY <1>4, <2>1 DEF FirstPass
  <2> HIDE DEF p
  <2> QED
    BY <1>2, <1>7, <2>1, <2>2
<1>13. CASE FirstReadFails \/ FirstCancelled \/ NextFails \/ NextCancelled
  BY <1>3, <1>13 DEF FirstReadFails, FirstCancelled, NextFails, NextCancelled
<1>14. CASE FirstCompletes
  <2> DEFINE g == Generation(pass.out, 0)
  <2>1. pass.op = "first" /\ history' = PushGeneration(g) /\ pass' = Idle
    BY <1>14 DEF FirstCompletes
  <2>2. IsSequence(g.rows) /\ g.base = Results /\ g.op = "first"
    BY <1>4, <2>1 DEF Generation, FirstPass
  <2> HIDE DEF g
  <2> QED
    BY <2>1, <2>2, PushKeepsInv
<1>15. CASE NextReads
  <2>1. pass.op = "next" /\ pass.at <= Len(pass.base) /\ history' = history
    BY <1>15 DEF NextReads, Rereading
  <2> DEFINE prev == pass.base[pass.at]
             readable == ReadLen(prev.address, Width) >= Width
             matches == Matches(pass.compare, pass.needle, Span(mem, prev.address), prev.current)
             row == NextRow(prev)
             out == IF readable /\ matches THEN Append(pass.out, row) ELSE pass.out
             lost == IF readable THEN pass.unreadable ELSE pass.unreadable + 1
  <2>2. pass' = [pass EXCEPT !.at = @ + 1, !.unreadable = lost, !.out = out]
    BY <1>15 DEF NextReads
  <2>3. /\ pass'.op = "next" /\ pass'.at = pass.at + 1 /\ pass'.out = out
        /\ pass'.unreadable = lost /\ pass'.base = pass.base
        /\ DOMAIN pass' = DOMAIN pass
    <3> HIDE DEF out, lost
    <3> QED
      BY <1>5, <2>1, <2>2 DEF NextPass
  <2> HIDE DEF readable, matches, row
  <2>4. /\ IsSequence(out)
        /\ Len(out) = IF readable /\ matches THEN Len(pass.out) + 1 ELSE Len(pass.out)
    BY <1>5, <2>1, AppendSequence DEF NextPass
  <2> HIDE DEF out
  <2>5. NextInv'
    <3>1. /\ Len(out) \in Nat /\ lost \in Nat
          /\ Len(out) + lost <= Len(pass.out) + pass.unreadable + 1
      BY <1>5, <2>1, <2>4
    <3> HIDE DEF lost
    <3> QED
      BY <1>5, <2>1, <2>3, <3>1 DEF NextInv
  <2> HIDE DEF lost
  <2>6. NextPass(pass')
    BY <1>5, <2>1, <2>3, <2>4 DEF NextPass
  <2>7. BaseInv'
    BY <1>5, <2>1, <2>3 DEF BaseInv, Results
  <2> QED
    BY <2>1, <2>5, <2>6, <2>7 DEF IInv, PassInv, HistoryInv, UndoExact, DeadTargetKeepsResults,
                                  IsSequence
<1>16. CASE NextCompletes
  <2> DEFINE g == Generation(pass.out, pass.unreadable)
  <2>1. /\ pass.op = "next" /\ history' = PushGeneration(g) /\ pass' = Idle
        /\ ~(pass.at <= Len(pass.base))
        /\ pass.base # <<>> => pass.unreadable # Len(pass.base)
    BY <1>16 DEF NextCompletes, Rereading, TargetDead
  <2>2. /\ g.rows = pass.out /\ g.base = pass.base /\ g.unreadable = pass.unreadable
        /\ IsSequence(g.rows) /\ g.base = Results
    BY <1>5, <2>1 DEF Generation, NextPass
  <2> HIDE DEF g
  <2>3. /\ Len(g.rows) + g.unreadable <= Len(g.base)
        /\ g.base # <<>> => g.unreadable < Len(g.base)
    BY <1>5, <2>1, <2>2
  <2> QED
    BY <2>1, <2>2, <2>3, PushKeepsInv
<1>17. CASE Undo
  <2>1. pass = Idle /\ Len(history) > 1 /\ history' = Front(history) /\ pass' = Idle
    BY <1>17 DEF Undo
  <2>2. /\ IsSequence(history') /\ Len(history') = Len(history) - 1
        /\ \A i \in 1 .. Len(history) - 1 : history'[i] = history[i]
        /\ Len(history) \in Nat
        /\ DOMAIN history' = 1 .. Len(history') /\ DOMAIN history = 1 .. Len(history)
    <3>1. IsSequence(history) /\ history # <<>>
      BY <2>1 DEF IInv, HistoryInv
    <3>2. /\ IsSequence(Front(history)) /\ Len(Front(history)) = Len(history) - 1
          /\ \A i \in 1 .. Len(history) - 1 : Front(history)[i] = history[i]
      BY <3>1, FrontSequence
    <3>3. IsSequence(history')
      BY <2>1, <3>2
    <3> QED
      BY <2>1, <3>1, <3>2, <3>3, SequenceElim
  <2>3. HistoryInv'
    BY <2>2 DEF IInv, HistoryInv
  <2>4. UndoExact'
    BY <2>2 DEF IInv, UndoExact
  <2>5. DeadTargetKeepsResults'
    BY <2>2 DEF IInv, DeadTargetKeepsResults
  <2> QED
    BY <2>1, <2>3, <2>4, <2>5 DEF IInv, PassInv, BaseInv, NextInv, Idle
<1>18. ASSUME NEW a, NEW b, TargetChanges(a, b) PROVE IInv'
  BY <1>1, <1>18 DEF TargetChanges
<1> QED
  BY <1>8, <1>9, <1>10, <1>11, <1>12, <1>13, <1>14, <1>15, <1>16, <1>17, <1>18 DEF Next, ScanSteps

\* In every reachable state of the scanner the inductive invariant holds: the pass in
\* progress works on the results on top of the history and accounts for each of them.
THEOREM AlwaysIInv == Spec => []IInv
BY InitInv, StepInv, PTL DEF Spec

\* For every history depth and any sequence of scans, failures, stops and undos: undo
\* (Scanner::undo) goes back to the results the undone scan was started from.
THEOREM UndoReturns == Spec => []UndoExact
<1>1. IInv => UndoExact
  BY DEF IInv
<1> QED
  BY <1>1, AlwaysIInv, PTL

\* For every target, however it unmaps its memory during a pass: a next scan that could
\* read none of its results pushes nothing, and the rows it loses are accounted for.
THEOREM DeadTargetSafe == Spec => []DeadTargetKeepsResults
<1>1. IInv => DeadTargetKeepsResults
  BY DEF IInv
<1> QED
  BY <1>1, AlwaysIInv, PTL

-----------------------------------------------------------------------------
(* What a next scan keeps.                                                 *)

\* The whole value at a was mapped and did not change since the pass began.
Stayed(a) ==
  /\ a \in Addresses /\ ValueAt(a) \subseteq Addresses
  /\ \A b \in ValueAt(a) : seen[b] = {mem[b]} /\ mem[b] # Gone

\* A row of a next scan over base: it narrows one of the first n rows, and the two
\* values it shows are the two that were compared.
Narrows(row, base, n) ==
  /\ \E j \in 1 .. n : base[j].address = row.address /\ base[j].current = row.previous
  /\ Matches(pass.compare, pass.needle, row.current, row.previous)

\* The first n rows of base whose value stayed and compares are among the rows, with
\* that value.
NoneLost(rows, base, n) ==
  \A j \in 1 .. n :
    /\ Stayed(base[j].address)
    /\ Matches(pass.compare, pass.needle, Span(mem, base[j].address), base[j].current)
    => \E i \in DOMAIN rows : /\ rows[i].address = base[j].address
                             /\ rows[i].current = Span(mem, base[j].address)

\* The generation a next scan pushes: every row on screen passed the compare with the
\* two values it shows, the previous one being what the user last saw at that address,
\* and no result whose value stayed put and compares is lost, whatever the target does
\* to its memory in between.
NextScanKeeps ==
  [][pass.op = "next" /\ history' # history =>
       LET rows == Last(history').rows
       IN /\ \A i \in DOMAIN rows : Narrows(rows[i], Results, Len(Results))
          /\ NoneLost(rows, Results, Len(Results))]_vars

\* What has been read, between two reads: a value the target changes no longer "stayed".
SeenInv ==
  /\ DOMAIN mem = Addresses /\ DOMAIN seen = Addresses
  /\ pass # Idle => \A a \in Addresses : mem[a] \in seen[a]

ReadInv ==
  pass.op = "next" =>
    /\ \A i \in DOMAIN pass.out : Narrows(pass.out[i], pass.base, pass.at - 1)
    /\ NoneLost(pass.out, pass.base, pass.at - 1)

\* A value that is mapped as a whole can be read as a whole.
LEMMA ReadsWhole ==
  ASSUME NEW a \in Addresses, \A b \in ValueAt(a) : b \in Addresses /\ mem[b] # Gone
  PROVE  ReadLen(a, Width) >= Width
<1> DEFINE P(n) == /\ \A i \in 0 .. n - 1 : a + i \in Addresses /\ mem[a + i] # Gone
                   /\ n < Width => a + n \notin Addresses \/ mem[a + n] = Gone
<1>1. Width \in Nat \ {0} /\ a \in Int
  BY WidthAssumption DEF Addresses
<1>2. \A i \in 0 .. Width - 1 : a + i \in Addresses /\ mem[a + i] # Gone
  BY <1>1 DEF ValueAt
<1>3. P(Width)
  BY <1>1, <1>2
<1>4. \A n \in 0 .. Width : P(n) => n >= Width
  BY <1>1, <1>2
<1>5. ReadLen(a, Width) = CHOOSE n \in 0 .. Width : P(n)
  BY DEF ReadLen
<1> HIDE DEF P
<1>6. (CHOOSE n \in 0 .. Width : P(n)) \in 0 .. Width /\ P(CHOOSE n \in 0 .. Width : P(n))
  BY <1>1, <1>3
<1> QED
  BY <1>4, <1>5, <1>6

LEMMA InitRead == Init => SeenInv /\ ReadInv
BY MemoryAssumption DEF Init, SeenInv, ReadInv, Idle, NothingSeen

\* The steps of the target and of the user leave what was read alone.
LEMMA QuietRead ==
  ASSUME IInv, SeenInv, ReadInv, UNCHANGED <<pass, mem, seen>>
  PROVE  SeenInv' /\ ReadInv'
BY DEF SeenInv, ReadInv, Narrows, NoneLost, Stayed, Matches, CompareInt

LEMMA StepRead == IInv /\ SeenInv /\ ReadInv /\ [Next]_vars => SeenInv' /\ ReadInv'
<1> SUFFICES ASSUME IInv, SeenInv, ReadInv, [Next]_vars PROVE SeenInv' /\ ReadInv'
  OBVIOUS
<1>1. ASSUME pass' = Idle, mem' = mem, DOMAIN seen' = Addresses PROVE SeenInv' /\ ReadInv'
  BY <1>1 DEF SeenInv, ReadInv, Idle
<1>2. DOMAIN NothingSeen = Addresses
  BY DEF NothingSeen
<1>3. ASSUME NEW p, Begins(p) PROVE SeenInv'
  BY <1>3 DEF Begins, SeenInv
<1>4. ASSUME pass'.op = "first", pass # Idle, UNCHANGED <<mem, seen>> PROVE SeenInv' /\ ReadInv'
  BY <1>4 DEF SeenInv, ReadInv
<1>5. CASE UNCHANGED vars
  BY <1>5, QuietRead DEF vars
<1>6. ASSUME NEW c, NEW n, FirstScan(c, n) PROVE SeenInv' /\ ReadInv'
  <2>1. PICK p : p.op = "first" /\ Begins(Enter(p)) /\ "op" \in DOMAIN p
    BY <1>6 DEF FirstScan
  <2>2. pass'.op = "first"
    BY <2>1 DEF Begins, Enter
  <2> QED
    BY <1>3, <2>1, <2>2 DEF ReadInv
<1>7. ASSUME NEW c, NEW n, NextScan(c, n) PROVE SeenInv' /\ ReadInv'
  <2>1. PICK p : /\ p = [op |-> "next", compare |-> c, needle |-> n, at |-> 1, out |-> <<>>,
                         unreadable |-> 0, base |-> Results]
                 /\ Begins(p)
    BY <1>7 DEF NextScan
  <2>2. pass'.at - 1 = 0 /\ pass'.out = <<>>
    BY <2>1 DEF Begins
  <2>3. ReadInv'
    BY <2>2 DEF ReadInv, NoneLost
  <2> QED
    BY <1>3, <2>1, <2>3
<1>8. CASE FirstWindow \/ FirstRegionEnds
  <2>1. pass.op = "first" /\ UNCHANGED <<mem, seen>>
    BY <1>8 DEF FirstWindow, FirstRegionEnds, InRegion, Walking
  <2>2. FirstPass(pass) /\ pass # Idle
    BY <2>1 DEF IInv, PassInv, NextPass, Idle
  <2>3. pass'.op = "first"
    BY <1>8, <2>2 DEF FirstWindow, FirstRegionEnds, LeaveRegion, Enter, FirstPass
  <2> QED
    BY <1>4, <2>1, <2>2, <2>3
<1>9. CASE FirstReadFails \/ FirstCancelled \/ NextFails \/ NextCancelled
  BY <1>1, <1>2, <1>9 DEF FirstReadFails, FirstCancelled, NextFails, NextCancelled, Abandon
<1>10. CASE FirstCompletes \/ NextCompletes
  BY <1>1, <1>2, <1>10 DEF FirstCompletes, NextCompletes
<1>11. CASE NextReads
  <2> DEFINE prev == pass.base[pass.at]
             readable == ReadLen(prev.address, Width) >= Width
             matches == Matches(pass.compare, pass.needle, Span(mem, prev.address), prev.current)
             row == NextRow(prev)
             out == IF readable /\ matches THEN Append(pass.out, row) ELSE pass.out
             lost == IF readable THEN pass.unreadable ELSE pass.unreadable + 1
  <2>1. /\ pass.op = "next" /\ UNCHANGED <<mem, seen>>
        /\ pass' = [pass EXCEPT !.at = @ + 1, !.unreadable = lost, !.out = out]
    BY <1>11 DEF NextReads, Rereading
  <2>2. NextPass(pass) /\ pass # Idle /\ pass.at \in Nat \ {0}
    BY <2>1 DEF IInv, PassInv, FirstPass, Idle, NextInv
  <2>3. /\ pass'.op = "next" /\ pass'.at = pass.at + 1 /\ pass'.out = out
        /\ pass'.base = pass.base /\ pass'.compare = pass.compare /\ pass'.needle = pass.needle
    <3> HIDE DEF out, lost
    <3> QED
      BY <2>1, <2>2 DEF NextPass
  <2>4. SeenInv'
    BY <2>1, <2>2 DEF SeenInv
  <2>5. /\ \A i \in DOMAIN pass.out : i \in DOMAIN out /\ out[i] = pass.out[i]
        /\ \A i \in DOMAIN out : i \in DOMAIN pass.out \/ (readable /\ matches /\ out[i] = row)
        /\ readable /\ matches => \E i \in DOMAIN out : out[i] = row
    <3>1. /\ IsSequence(pass.out) /\ Len(pass.out) \in Nat
          /\ DOMAIN pass.out = 1 .. Len(pass.out)
      BY <2>2, SequenceElim DEF NextPass
    <3> HIDE DEF readable, matches, row
    <3>2. /\ IsSequence(Append(pass.out, row)) /\ Len(Append(pass.out, row)) = Len(pass.out) + 1
          /\ \A i \in 1 .. Len(pass.out) : Append(pass.out, row)[i] = pass.out[i]
          /\ Append(pass.out, row)[Len(pass.out) + 1] = row
      BY <3>1, AppendSequence
    <3>3. DOMAIN Append(pass.out, row) = 1 .. Len(pass.out) + 1
      BY <3>2, SequenceElim
    <3> QED
      BY <3>1, <3>2, <3>3
  <2>6. row.address = prev.address /\ row.previous = prev.current
        /\ row.current = Span(mem, prev.address)
    BY DEF NextRow
  <2>7. Stayed(prev.address) => readable
    BY ReadsWhole DEF Stayed
  <2> DEFINE done == pass.at - 1
  <2>8. /\ pass'.at - 1 = pass.at /\ pass.at \in 1 .. pass.at
        /\ \A j \in 1 .. pass.at : j \in 1 .. done \/ j = pass.at
        /\ 1 .. done \subseteq 1 .. pass.at
    BY <2>2, <2>3
  <2>9. /\ \A i \in DOMAIN pass.out : Narrows(pass.out[i], pass.base, done)
        /\ NoneLost(pass.out, pass.base, done)
    BY <2>1 DEF ReadInv
  <2> HIDE DEF out, row, readable, done
  <2>10. ASSUME NEW i \in DOMAIN out PROVE Narrows(out[i], pass.base, pass.at)
    <3>1. CASE i \in DOMAIN pass.out
      BY <2>5, <2>8, <2>9, <3>1 DEF Narrows
    <3>2. CASE matches /\ out[i] = row
      BY <2>6, <2>8, <3>2 DEF Narrows
    <3> QED
      BY <2>5, <3>1, <3>2
  <2>11. NoneLost(out, pass.base, pass.at)
    <3> SUFFICES ASSUME NEW j \in 1 .. pass.at, Stayed(pass.base[j].address),
                        Matches(pass.compare, pass.needle, Span(mem, pass.base[j].address),
                                pass.base[j].current)
                 PROVE  \E i \in DOMAIN out : /\ out[i].address = pass.base[j].address
                                              /\ out[i].current = Span(mem, pass.base[j].address)
      BY DEF NoneLost
    <3>1. CASE j \in 1 .. done
      <4>1. PICK i \in DOMAIN pass.out : /\ pass.out[i].address = pass.base[j].address
                                         /\ pass.out[i].current = Span(mem, pass.base[j].address)
        BY <2>9, <3>1 DEF NoneLost
      <4> QED
        BY <2>5, <4>1
    <3>2. CASE j = pass.at
      BY <2>5, <2>6, <2>7, <3>2
    <3> QED
      BY <2>8, <3>1, <3>2
  <2>12. ReadInv'
    BY <2>1, <2>3, <2>8, <2>10, <2>11 DEF ReadInv, Narrows, NoneLost, Stayed, Matches, Span
  <2> QED
    BY <2>4, <2>12
<1>12. CASE Undo
  BY <1>12, QuietRead DEF Undo
<1>13. ASSUME NEW a \in Addresses, NEW b, TargetChanges(a, b) PROVE SeenInv' /\ ReadInv'
  <2>1. mem[a] # b /\ mem' = [mem EXCEPT ![a] = b] /\ pass' = pass
    BY <1>13 DEF TargetChanges
  <2>2. DOMAIN mem' = Addresses /\ mem'[a] = b /\ \A c \in Addresses \ {a} : mem'[c] = mem[c]
    BY <2>1 DEF SeenInv
  <2>3. CASE pass = Idle
    BY <1>13, <2>1, <2>2, <2>3 DEF TargetChanges, SeenInv, ReadInv, Idle
  <2>4. CASE pass # Idle
    <3>1. seen' = [seen EXCEPT ![a] = @ \cup {b}]
      BY <1>13, <2>4 DEF TargetChanges
    <3>2. /\ DOMAIN seen' = Addresses
          /\ seen'[a] = seen[a] \cup {b} /\ \A c \in Addresses \ {a} : seen'[c] = seen[c]
      BY <3>1 DEF SeenInv
    <3>3. SeenInv'
      BY <2>1, <2>2, <2>4, <3>2 DEF SeenInv
    <3>4. seen'[a] # {mem'[a]}
      BY <2>1, <2>2, <2>4, <3>2 DEF SeenInv
    <3>5. ASSUME NEW c, Stayed(c)' PROVE Stayed(c) /\ Span(mem', c) = Span(mem, c)
      <4>1. a \notin ValueAt(c) /\ c \in Addresses /\ ValueAt(c) \subseteq Addresses
        BY <3>4, <3>5 DEF Stayed
      <4>2. Stayed(c)
        BY <2>2, <3>2, <3>5, <4>1 DEF Stayed
      <4>3. \A i \in 1 .. Width : c + i - 1 \in ValueAt(c)
        BY <4>1, WidthAssumption DEF ValueAt, Addresses
      <4> QED
        BY <2>2, <4>1, <4>2, <4>3 DEF Span
    <3>6. ReadInv'
      <4> SUFFICES ASSUME pass.op = "next" PROVE ReadInv'
        BY <2>1 DEF ReadInv
      <4>1. \A i \in DOMAIN pass.out : Narrows(pass.out[i], pass.base, pass.at - 1)'
        BY <2>1 DEF ReadInv, Narrows, Matches
      <4>2. NoneLost(pass.out, pass.base, pass.at - 1)'
        BY <2>1, <3>5 DEF ReadInv, NoneLost, Matches
      <4> QED
        BY <2>1, <4>1, <4>2 DEF ReadInv
    <3> QED
      BY <3>3, <3>6
  <2> QED
    BY <2>3, <2>4
<1> QED
  BY <1>5, <1>6, <1>7, <1>8, <1>9, <1>10, <1>11, <1>12, <1>13 DEF Next, ScanSteps

\* A next scan that completes pushes what it has kept.
LEMMA PushKeepsRows ==
  ASSUME IInv, ReadInv, [Next]_vars, pass.op = "next", history' # history
  PROVE  LET rows == Last(history').rows
         IN /\ \A i \in DOMAIN rows : Narrows(rows[i], Results, Len(Results))
            /\ NoneLost(rows, Results, Len(Results))
<1>1. pass # Idle /\ pass.base = Results
  BY DEF IInv, BaseInv, Idle
<1>2. NextCompletes
  BY <1>1
  DEF Next, ScanSteps, vars, FirstScan, NextScan, Begins, FirstWindow, InRegion, Walking,
      FirstRegionEnds, FirstReadFails, FirstCancelled, Abandon, FirstCompletes, NextReads,
      NextFails, NextCancelled, Undo, TargetChanges
<1> DEFINE g == Generation(pass.out, pass.unreadable)
<1>3. history' = PushGeneration(g) /\ ~(pass.at <= Len(pass.base))
  BY <1>2 DEF NextCompletes, Rereading
<1>4. g.rows = pass.out
  BY DEF Generation
<1> HIDE DEF g
<1>5. Last(history') = g
  BY <1>3, PushFacts DEF IInv
<1>6. Len(pass.base) \in Nat
  BY <1>1, ResultsSequence, SequenceElim DEF IInv
<1>7. pass.at - 1 = Len(pass.base)
  BY <1>3, <1>6 DEF IInv, NextInv
<1> QED
  BY <1>1, <1>4, <1>5, <1>7 DEF ReadInv

\* For every compare, needle, width and number of results, and for every change the target
\* makes to its memory while the scan runs.
THEOREM NextScanSound == Spec => NextScanKeeps
<1>1. IInv /\ ReadInv /\ [Next]_vars
        => [pass.op = "next" /\ history' # history =>
              LET rows == Last(history').rows
              IN /\ \A i \in DOMAIN rows : Narrows(rows[i], Results, Len(Results))
                 /\ NoneLost(rows, Results, Len(Results))]_vars
  BY PushKeepsRows
<1> QED
  BY <1>1, InitRead, StepRead, AlwaysIInv, PTL DEF Spec, NextScanKeeps

-----------------------------------------------------------------------------
(* Numbers.                                                                *)

\* A set of numbers has a least one.
LEMMA Least ==
  ASSUME NEW T \in SUBSET Nat, T # {}
  PROVE  \E x \in T : \A y \in T : x <= y
<1>1. PICK x \in T : \A y \in T : ~(<<y, x>> \in OpToRel(<, Nat))
  BY WFMin, NatLessThanWellFounded
<1>2. \A y \in T : ~ (y < x)
  BY <1>1 DEF OpToRel
<1> QED
  BY <1>2

\* What holds of 0 and is handed on step by step holds up to n.
LEMMA UpInduction ==
  ASSUME NEW n \in Nat, NEW S, 0 \in S, \A k \in 1 .. n : k - 1 \in S => k \in S
  PROVE  0 .. n \subseteq S
<1> SUFFICES ASSUME 0 .. n \ S # {} PROVE FALSE
  OBVIOUS
<1> DEFINE T == 0 .. n \ S
<1>1. T \in SUBSET Nat
  OBVIOUS
<1>2. PICK x \in T : \A y \in T : x <= y
  BY <1>1, Least
<1>3. x \in 1 .. n /\ x - 1 \in 0 .. n /\ x - 1 < x
  BY <1>2
<1>4. x - 1 \in S
  BY <1>2, <1>3
<1> QED
  BY <1>2, <1>3, <1>4

-----------------------------------------------------------------------------
(* Sorting.                                                                *)

\* An enumeration of S in ascending order of key.
IsAscending(s, S, key) ==
  /\ s \in [1 .. Cardinality(S) -> S] /\ Range(s) = S
  /\ \A i, j \in 1 .. Cardinality(S) : i < j => key[s[i]] <= key[s[j]]

\* A finite set can be put in order: one of the least keys first, then the others.
LEMMA CanBeSorted ==
  ASSUME NEW S, IsFiniteSet(S), NEW key, \A x \in S : key[x] \in Nat
  PROVE  \E s : IsAscending(s, S, key)
<1> DEFINE Good(T) == \E s : IsAscending(s, T, key)
           D == {k \in Nat : \A T \in SUBSET S : Cardinality(T) = k => Good(T)}
           n == Cardinality(S)
<1>1. \A T \in SUBSET S : IsFiniteSet(T) /\ Cardinality(T) \in Nat
  BY FS_Subset, FS_CardinalityType
<1>2. 0 \in D
  <2> SUFFICES ASSUME NEW T \in SUBSET S, Cardinality(T) = 0 PROVE Good(T)
    OBVIOUS
  <2>1. T = {}
    BY <1>1, FS_EmptySet
  <2> DEFINE s == [i \in 1 .. 0 |-> i]
  <2>2. s \in [1 .. 0 -> {}] /\ DOMAIN s = {}
    OBVIOUS
  <2>3. Range(s) = {}
    BY <2>2 DEF Range
  <2> HIDE DEF s
  <2>4. IsAscending(s, T, key)
    BY <2>1, <2>2, <2>3, FS_EmptySet DEF IsAscending
  <2> QED
    BY <2>4
<1>3. ASSUME NEW k \in 1 .. n, k - 1 \in D PROVE k \in D
  <2> SUFFICES ASSUME NEW T \in SUBSET S, Cardinality(T) = k PROVE Good(T)
    OBVIOUS
  <2> DEFINE keys == {key[x] : x \in T}
  <2>1. keys \in SUBSET Nat /\ keys # {}
    <3>1. T # {}
      BY FS_EmptySet
    <3> QED
      BY <3>1
  <2>2. PICK least \in keys : \A y \in keys : least <= y
    <3> HIDE DEF keys
    <3> QED
      BY <2>1, Least
  <2>3. PICK m \in T : \A x \in T : key[m] <= key[x]
    BY <2>2
  <2> DEFINE U == T \ {m}
  <2>4. U \in SUBSET S /\ Cardinality(U) = k - 1
    BY <1>1, <2>3, FS_RemoveElement
  <2>5. PICK u : IsAscending(u, U, key)
    BY <1>3, <2>4
  <2> HIDE DEF U
  <2>6. /\ u \in [1 .. k - 1 -> U] /\ {u[i] : i \in 1 .. k - 1} = U
        /\ \A i, j \in 1 .. k - 1 : i < j => key[u[i]] <= key[u[j]]
    BY <2>4, <2>5 DEF IsAscending, Range
  <2> DEFINE s == [i \in 1 .. k |-> IF i = 1 THEN m ELSE u[i - 1]]
  <2>7. \A i \in 2 .. k : i - 1 \in 1 .. k - 1 /\ s[i] = u[i - 1]
    OBVIOUS
  <2>8. s[1] = m /\ U \subseteq T /\ T = U \cup {m}
    BY <2>3 DEF U
  <2>9. \A i \in 1 .. k : i = 1 \/ i \in 2 .. k
    OBVIOUS
  <2>10. s \in [1 .. k -> T]
    BY <2>6, <2>7, <2>8, <2>9
  <2>11. \A i \in 1 .. k - 1 : i + 1 \in 2 .. k /\ s[i + 1] = u[i]
    OBVIOUS
  <2>12. DOMAIN s = 1 .. k
    OBVIOUS
  <2> HIDE DEF s
  <2>13. Range(s) = T
    <3>1. T \subseteq Range(s)
      <4> SUFFICES ASSUME NEW x \in T PROVE x \in Range(s)
        OBVIOUS
      <4>1. CASE x = m
        BY <2>8, <2>12, <4>1 DEF Range
      <4>2. CASE x \in U
        <5>1. PICK i \in 1 .. k - 1 : x = u[i]
          BY <2>6, <4>2
        <5>2. i + 1 \in DOMAIN s /\ s[i + 1] = x
          BY <2>11, <2>12, <5>1
        <5> QED
          BY <5>2 DEF Range
      <4> QED
        BY <2>8, <4>1, <4>2
    <3> QED
      BY <2>10, <2>12, <3>1 DEF Range
  <2>14. ASSUME NEW i \in 1 .. k, NEW j \in 1 .. k, i < j PROVE key[s[i]] <= key[s[j]]
    <3>1. s[j] = u[j - 1] /\ j - 1 \in 1 .. k - 1
      BY <2>7, <2>14
    <3>2. CASE i = 1
      BY <2>3, <2>8, <2>10, <3>2
    <3>3. CASE i \in 2 .. k
      BY <2>6, <2>7, <2>14, <3>1, <3>3
    <3> QED
      BY <2>9, <3>2, <3>3
  <2>15. IsAscending(s, T, key)
    BY <2>10, <2>13, <2>14 DEF IsAscending
  <2> QED
    BY <2>15
<1>4. n \in Nat
  BY <1>1
<1> HIDE DEF D, n, Good
<1>5. n \in D
  BY <1>2, <1>3, <1>4, UpInduction
<1> QED
  BY <1>5 DEF D, n, Good

\* The enumeration the model sorts with has every member once, in order.
LEMMA AscendingFacts ==
  ASSUME NEW S, IsFiniteSet(S), NEW key, \A x \in S : key[x] \in Nat
  PROVE  /\ Cardinality(S) \in Nat
         /\ IsAscending(Ascending(S, key), S, key)
         /\ \A i, j \in 1 .. Cardinality(S) : Ascending(S, key)[i] = Ascending(S, key)[j] => i = j
<1> DEFINE s == Ascending(S, key)
<1>1. PICK t : IsAscending(t, S, key)
  BY CanBeSorted
<1>2. IsAscending(s, S, key)
  <2> DEFINE P(u) == /\ Range(u) = S
                     /\ \A i, j \in 1 .. Cardinality(S) : i < j => key[u[i]] <= key[u[j]]
  <2>1. t \in [1 .. Cardinality(S) -> S] /\ P(t)
    BY <1>1 DEF IsAscending
  <2>2. s = CHOOSE u \in [1 .. Cardinality(S) -> S] : P(u)
    BY DEF Ascending
  <2> HIDE DEF P
  <2>3. s \in [1 .. Cardinality(S) -> S] /\ P(s)
    BY <2>1, <2>2
  <2> QED
    BY <2>3 DEF P, IsAscending
<1>3. Cardinality(S) \in Nat
  BY FS_CardinalityType
<1> DEFINE n == Cardinality(S)
<1>4. IsFiniteSet(1 .. n) /\ Cardinality(1 .. n) = n
  BY <1>3, FS_Interval
<1>5. s \in Surjection(1 .. n, S)
  BY <1>2 DEF IsAscending, Surjection, Range
<1>6. s \in Injection(1 .. n, S)
  BY <1>4, <1>5, FS_SurjSameCardinalityImpliesInj
<1> QED
  BY <1>2, <1>3, <1>6 DEF Injection, IsInjective

\* The k-th smallest is the k-th in order.
LEMMA NthFacts ==
  ASSUME NEW S \in SUBSET Nat, IsFiniteSet(S)
  PROVE  LET n == Cardinality(S)
         IN /\ n \in Nat
            /\ \A k \in 1 .. n : Nth(S, k) \in S
            /\ \A i, j \in 1 .. n : i < j => Nth(S, i) < Nth(S, j)
            /\ \A a \in S : \E k \in 1 .. n : Nth(S, k) = a
<1> DEFINE n == Cardinality(S)
           s == Ascending(S, [a \in S |-> a])
           upTo(a) == {b \in S : b <= a}
<1>1. /\ n \in Nat /\ s \in [1 .. n -> S] /\ {s[i] : i \in 1 .. n} = S
      /\ \A i, j \in 1 .. n : i < j => s[i] < s[j]
  <2>1. /\ n \in Nat /\ IsAscending(s, S, [a \in S |-> a])
        /\ \A i, j \in 1 .. n : s[i] = s[j] => i = j
    <3> DEFINE key == [a \in S |-> a]
    <3>1. \A a \in S : key[a] \in Nat
      OBVIOUS
    <3> HIDE DEF key
    <3>2. /\ Cardinality(S) \in Nat
          /\ IsAscending(Ascending(S, key), S, key)
          /\ \A i, j \in 1 .. Cardinality(S) : Ascending(S, key)[i] = Ascending(S, key)[j] => i = j
      BY <3>1, AscendingFacts
    <3> QED
      BY <3>2 DEF key
  <2> HIDE DEF s
  <2>2. s \in [1 .. n -> S] /\ {s[i] : i \in 1 .. n} = S
    BY <2>1 DEF IsAscending, Range
  <2>3. \A i, j \in 1 .. n : i < j => s[i] <= s[j]
    BY <2>1, <2>2 DEF IsAscending
  <2> HIDE DEF n
  <2>4. ASSUME NEW i \in 1 .. n, NEW j \in 1 .. n, i < j PROVE s[i] < s[j]
    <3>0. \A l \in 1 .. n : s[l] \in Nat
      BY <2>2 DEF n
    <3>1. s[i] \in Nat /\ s[j] \in Nat /\ s[i] <= s[j]
      BY <2>3, <2>4, <3>0 DEF n
    <3>2. s[i] # s[j]
      BY <2>1, <2>4 DEF n
    <3> QED
      BY <3>1, <3>2
  <2> QED
    BY <2>1, <2>2, <2>4 DEF n
<1> HIDE DEF s, n
<1>2. ASSUME NEW k \in 1 .. n PROVE Cardinality(upTo(s[k])) = k
  <2> DEFINE f == [i \in 1 .. k |-> s[i]]
  <2>1. ASSUME NEW i \in 1 .. n PROVE s[i] <= s[k] <=> i <= k
    <3>0. \A l \in 1 .. n : s[l] \in Nat
      BY <1>1
    <3>1. s[i] \in Nat /\ s[k] \in Nat /\ i \in Nat /\ k \in Nat
      BY <1>1, <3>0
    <3>2. (i < k => s[i] < s[k]) /\ (k < i => s[k] < s[i])
      BY <1>1
    <3> QED
      BY <3>1, <3>2
  <2>2. \A i \in 1 .. k : i \in 1 .. n /\ f[i] = s[i]
    BY <1>1
  <2>3. f \in Surjection(1 .. k, upTo(s[k]))
    <3>1. f \in [1 .. k -> upTo(s[k])]
      BY <1>1, <2>1, <2>2
    <3>2. ASSUME NEW b \in upTo(s[k]) PROVE \E i \in 1 .. k : f[i] = b
      <4>1. PICK i \in 1 .. n : s[i] = b
        BY <1>1
      <4>2. i \in 1 .. k
        BY <1>1, <2>1, <4>1
      <4> QED
        BY <2>2, <4>1, <4>2
    <3> HIDE DEF f
    <3> QED
      BY <3>1, <3>2 DEF Surjection
  <2>4. f \in Injection(1 .. k, upTo(s[k]))
    <3>1. ASSUME NEW i \in 1 .. k, NEW j \in 1 .. k, f[i] = f[j] PROVE i = j
      <4>1. i \in 1 .. n /\ j \in 1 .. n /\ s[i] = s[j] /\ s[i] \in Nat
        BY <1>1, <2>2, <3>1
      <4>2. (i < j => s[i] < s[j]) /\ (j < i => s[j] < s[i])
        BY <1>1, <4>1
      <4> QED
        BY <4>1, <4>2
    <3>2. f \in [1 .. k -> upTo(s[k])]
      BY <2>3 DEF Surjection
    <3> HIDE DEF f, upTo
    <3>3. IsInjective(f)
      BY <3>1, <3>2 DEF IsInjective
    <3> QED
      BY <3>2, <3>3 DEF Injection
  <2>5. IsFiniteSet(1 .. k) /\ Cardinality(1 .. k) = k
    BY <1>1, FS_Interval
  <2> HIDE DEF f
  <2> QED
    BY <2>3, <2>4, <2>5, FS_Bijection DEF Bijection, ExistsBijection
<1>3. ASSUME NEW a \in S, NEW k \in 1 .. n, Cardinality(upTo(a)) = k PROVE a = s[k]
  <2>1. PICK i \in 1 .. n : a = s[i]
    BY <1>1
  <2>2. i = k
    BY <1>2, <1>3, <2>1
  <2> QED
    BY <2>1, <2>2
<1>4. ASSUME NEW k \in 1 .. n PROVE Nth(S, k) = s[k]
  <2>1. Nth(S, k) = CHOOSE a \in S : Cardinality(upTo(a)) = k
    BY DEF Nth
  <2>2. s[k] \in S /\ Cardinality(upTo(s[k])) = k
    BY <1>1, <1>2
  <2> HIDE DEF upTo
  <2>3. Nth(S, k) \in S /\ Cardinality(upTo(Nth(S, k))) = k
    BY <2>1, <2>2
  <2> QED
    BY <1>3, <2>3
<1>5. \A a \in S : \E k \in 1 .. n : s[k] = a
  BY <1>1
<1> QED
  BY <1>1, <1>4, <1>5 DEF n

-----------------------------------------------------------------------------
(* Loops.                                                                  *)

\* A loop over 1 .. n as a function of how far it has come.
LoopEq(f, n, base, step) ==
  f = [k \in 0 .. n |-> IF k = 0 THEN base ELSE step[<<k, f[k - 1]>>]]

\* It has a solution.
LEMMA LoopUnfolds ==
  ASSUME NEW n \in Nat, NEW V, NEW base \in V, NEW step \in [(1 .. n) \X V -> V]
  PROVE  \E f \in [0 .. n -> V] : LoopEq(f, n, base, step)
<1> DEFINE S == {l \in 0 .. n : \E f \in [0 .. l -> V] : LoopEq(f, l, base, step)}
<1>1. 0 \in S
  <2> DEFINE f == [k \in 0 .. 0 |-> base]
  <2>1. f \in [0 .. 0 -> V] /\ LoopEq(f, 0, base, step)
    BY DEF LoopEq
  <2> QED
    BY <2>1
<1>2. ASSUME NEW l \in 1 .. n, l - 1 \in S PROVE l \in S
  <2>1. PICK f \in [0 .. l - 1 -> V] : LoopEq(f, l - 1, base, step)
    BY <1>2
  <2> DEFINE g == [k \in 0 .. l |-> IF k = l THEN step[<<l, f[l - 1]>>] ELSE f[k]]
  <2>2. l - 1 \in 0 .. l - 1 /\ f[l - 1] \in V /\ <<l, f[l - 1]>> \in (1 .. n) \X V
    BY <2>1
  <2>3. g \in [0 .. l -> V] /\ DOMAIN g = 0 .. l
    BY <2>1, <2>2
  <2>4. ASSUME NEW k \in 0 .. l PROVE g[k] = IF k = 0 THEN base ELSE step[<<k, g[k - 1]>>]
    <3>1. CASE k = l
      <4>1. g[k - 1] = f[l - 1] /\ k # 0 /\ g[k] = step[<<l, f[l - 1]>>]
        BY <2>2, <3>1
      <4> QED
        BY <3>1, <4>1
    <3>2. CASE k # l
      <4>1. k \in 0 .. l - 1 /\ g[k] = f[k] /\ (k # 0 => g[k - 1] = f[k - 1])
        BY <3>2
      <4>2. f[k] = IF k = 0 THEN base ELSE step[<<k, f[k - 1]>>]
        BY <2>1, <4>1 DEF LoopEq
      <4> QED
        BY <4>1, <4>2
    <3> QED
      BY <3>1, <3>2
  <2>5. LoopEq(g, l, base, step)
    <3> HIDE DEF g
    <3> QED
      BY <2>3, <2>4 DEF LoopEq
  <2> QED
    BY <2>3, <2>5
<1>3. 0 .. n \subseteq S
  <2> HIDE DEF S
  <2> QED
    BY <1>1, <1>2, UpInduction
<1>4. n \in S
  BY <1>3
<1> QED
  BY <1>4

-----------------------------------------------------------------------------
(* Regions.                                                                *)

\* b is an address of r; of one of the regions.
Lies(r, b) == r.base <= b /\ b < End(r)
Covers(m, b) == \E i \in 1 .. Len(m) : Lies(m[i], b)

\* A region lies in the address space; one that is not empty ends after its base.
LEMMA RegionFacts ==
  ASSUME NEW r \in Regions
  PROVE  /\ r.base \in Nat /\ r.size \in Nat /\ End(r) \in Nat
         /\ r.base < Top /\ r.base <= End(r) /\ End(r) <= Top /\ End(r) <= r.base + r.size
         /\ End(r) = Top \/ End(r) = r.base + r.size
         /\ r.size > 0 => r.base < End(r)
BY WidthAssumption DEF Regions, End, Smaller, Addresses

\* A span given by its ends has those ends.
LEMMA SpanFacts ==
  ASSUME NEW lo \in Nat, NEW hi \in Nat, lo < hi, hi <= Top
  PROVE  /\ Region(lo, hi) \in Regions
         /\ Region(lo, hi).base = lo /\ End(Region(lo, hi)) = hi
<1>1. Region(lo, hi) = [base |-> lo, size |-> hi - lo]
  BY DEF Region
<1>2. hi - lo \in Nat /\ lo \in 0 .. Top - 1 /\ lo + (hi - lo) = hi
  BY WidthAssumption
<1> QED
  BY <1>1, <1>2, WidthAssumption DEF Regions, End, Smaller, Addresses

\* Spans in order that neither overlap nor abut.
Apart(m) ==
  /\ m \in Seq(Regions)
  /\ \A i \in 1 .. Len(m) : m[i].base < End(m[i])
  /\ \A i, j \in 1 .. Len(m) : i < j => End(m[i]) < m[j].base

\* A span that begins no earlier than the others is added or extends the last of them.
LEMMA CoalesceFacts ==
  ASSUME NEW m, Apart(m), NEW r \in Regions, r.size > 0,
         \A i \in 1 .. Len(m) : m[i].base <= r.base
  PROVE  LET c == Coalesce(m, r)
         IN /\ Apart(c)
            /\ \A i \in 1 .. Len(c) : c[i].base <= r.base
            /\ \A b \in Int : Covers(c, b) <=> Covers(m, b) \/ Lies(r, b)
<1> DEFINE c == Coalesce(m, r)
           n == Len(m)
<1>1. /\ n \in Nat /\ m \in Seq(Regions) /\ (m = <<>> <=> n = 0)
      /\ \A i \in 1 .. n : m[i] \in Regions
  BY EmptySeq DEF Apart
<1>2. r.base \in Nat /\ End(r) \in Nat /\ r.base < End(r) /\ End(r) <= Top
  BY RegionFacts
<1>3. ASSUME NEW i \in 1 .. n
      PROVE  m[i].base \in Nat /\ End(m[i]) \in Nat /\ m[i].base < End(m[i]) /\ End(m[i]) <= Top
  BY <1>1, RegionFacts DEF Apart
<1>4. CASE m # <<>> /\ r.base <= End(Last(m))
  <2> DEFINE last == m[n]
             hi == Larger(End(last), End(r))
             e == Region(last.base, hi)
             f == Front(m)
  <2>1. n \in 1 .. n /\ Last(m) = last
    BY <1>1, <1>4 DEF Last
  <2>2. /\ last.base \in Nat /\ last.base < End(last) /\ End(last) \in Nat /\ End(last) <= Top
        /\ last.base <= r.base /\ r.base <= End(last)
    BY <1>3, <1>4, <2>1
  <2>3. hi \in Nat /\ last.base < hi /\ hi <= Top /\ End(last) <= hi /\ End(r) <= hi
        /\ (hi = End(last) \/ hi = End(r))
    BY <1>2, <2>2 DEF Larger
  <2> HIDE DEF last, hi
  <2>4. e \in Regions /\ e.base = last.base /\ End(e) = hi
    BY <2>2, <2>3, SpanFacts
  <2> HIDE DEF e
  <2>5. /\ f \in Seq(Regions) /\ Len(f) = n - 1
        /\ \A i \in 1 .. n - 1 : f[i] = m[i]
    <3>1. n - 1 \in Nat /\ \A i \in 1 .. n - 1 : m[i] \in Regions
      BY <1>1, <2>1
    <3>2. IsSequence(m)
      BY <1>1, SequenceIntro
    <3>3. Len(f) = n - 1 /\ \A i \in 1 .. n - 1 : f[i] = m[i]
      BY <1>1, <2>1, <3>2, FrontSequence
    <3>4. f \in Seq(Regions)
      <4>1. SubSeq(m, 1, n - 1) \in Seq(Regions)
        BY <3>1, SubSeqProperties
      <4> QED
        BY <4>1 DEF Front
    <3> QED
      BY <3>3, <3>4
  <2>6. c = Append(f, e)
    BY <1>4, <2>1 DEF Coalesce, e, hi
  <2> HIDE DEF f
  <2>7. /\ c \in Seq(Regions) /\ Len(c) = n /\ c[n] = e
        /\ \A i \in 1 .. n - 1 : c[i] = m[i]
    <3>1. /\ Append(f, e) \in Seq(Regions) /\ Len(Append(f, e)) = Len(f) + 1
          /\ \A i \in 1 .. Len(f) : Append(f, e)[i] = f[i]
          /\ Append(f, e)[Len(f) + 1] = e
      BY <2>4, <2>5, AppendProperties
    <3> QED
      BY <1>1, <2>1, <2>5, <2>6, <3>1
  <2> HIDE DEF c, n
  <2>8. \A i \in 1 .. n : i = n \/ i \in 1 .. n - 1
    BY <1>1
  <2>9. ASSUME NEW i \in 1 .. n PROVE c[i].base = m[i].base /\ End(m[i]) <= End(c[i])
    <3>1. CASE i = n
      BY <2>3, <2>4, <2>7, <3>1 DEF last
    <3>2. CASE i \in 1 .. n - 1
      <4>1. c[i] = m[i] /\ End(m[i]) \in Nat
        BY <1>3, <2>7, <3>2
      <4> QED
        BY <4>1
    <3> QED
      BY <2>8, <3>1, <3>2
  <2>10. \A i \in 1 .. n - 1 : End(c[i]) = End(m[i])
    BY <2>7
  <2>11. Apart(c)
    <3>1. \A i, j \in 1 .. n : i < j => i \in 1 .. n - 1
      BY <1>1
    <3>2. \A i \in 1 .. n : c[i].base < End(c[i])
      BY <1>3, <2>3, <2>4, <2>7, <2>8
    <3>3. \A i, j \in 1 .. n : i < j => End(c[i]) < c[j].base
      BY <2>9, <2>10, <3>1 DEF Apart, n
    <3> QED
      BY <2>7, <3>2, <3>3 DEF Apart
  <2>12. ASSUME NEW b \in Int PROVE Covers(c, b) <=> Covers(m, b) \/ Lies(r, b)
    <3>1. Lies(e, b) <=> Lies(last, b) \/ Lies(r, b)
      BY <1>2, <2>2, <2>3, <2>4 DEF Lies
    <3>2. \A i \in 1 .. n - 1 : Lies(c[i], b) <=> Lies(m[i], b)
      BY <2>7
    <3>3. n \in 1 .. n /\ Len(m) = n /\ m[n] = last
      BY <2>1 DEF n, last
    <3>4. Covers(c, b) <=> Lies(e, b) \/ \E i \in 1 .. n - 1 : Lies(m[i], b)
      BY <1>1, <2>7, <2>8, <3>2, <3>3 DEF Covers
    <3>5. Covers(m, b) <=> Lies(last, b) \/ \E i \in 1 .. n - 1 : Lies(m[i], b)
      BY <1>1, <2>8, <3>3 DEF Covers
    <3> QED
      BY <3>1, <3>4, <3>5
  <2>13. \A i \in 1 .. Len(c) : c[i].base <= r.base
    BY <2>7, <2>9 DEF n
  <2> QED
    BY <2>11, <2>12, <2>13 DEF c
<1>5. CASE ~(m # <<>> /\ r.base <= End(Last(m)))
  <2>1. c = Append(m, r)
    BY <1>5 DEF Coalesce
  <2>2. /\ c \in Seq(Regions) /\ Len(c) = n + 1 /\ c[n + 1] = r
        /\ \A i \in 1 .. n : c[i] = m[i]
    BY <1>1, <2>1, AppendProperties
  <2>3. \A i \in 1 .. n : End(m[i]) < r.base
    <3> SUFFICES ASSUME NEW i \in 1 .. n PROVE End(m[i]) < r.base
      OBVIOUS
    <3>1. m # <<>> /\ n \in 1 .. n /\ Last(m) = m[n]
      BY <1>1 DEF Last
    <3>2. End(m[n]) < r.base
      BY <1>2, <1>3, <1>5, <3>1
    <3>3. i = n \/ End(m[i]) < m[n].base
      BY <1>1, <3>1 DEF Apart
    <3> QED
      BY <1>2, <1>3, <3>1, <3>2, <3>3
  <2> HIDE DEF c, n
  <2>4. \A i \in 1 .. n + 1 : i = n + 1 \/ i \in 1 .. n
    BY <1>1
  <2>5. n + 1 \in 1 .. n + 1 /\ 1 .. n \subseteq 1 .. n + 1
    BY <1>1
  <2>6. Apart(c)
    <3>1. \A i, j \in 1 .. n + 1 : i < j => i \in 1 .. n
      BY <1>1
    <3>2. \A i \in 1 .. n + 1 : c[i].base < End(c[i])
      BY <1>2, <1>3, <2>2, <2>4
    <3>3. \A i, j \in 1 .. n + 1 : i < j => End(c[i]) < c[j].base
      BY <2>2, <2>3, <2>4, <3>1 DEF Apart, n
    <3> QED
      BY <2>2, <3>2, <3>3 DEF Apart
  <2>7. \A b \in Int : Covers(c, b) <=> Covers(m, b) \/ Lies(r, b)
    BY <2>2, <2>4, <2>5 DEF Covers, n
  <2>8. \A i \in 1 .. Len(c) : c[i].base <= r.base
    BY <1>2, <2>2, <2>4 DEF n
  <2> QED
    BY <2>6, <2>7, <2>8 DEF c
<1> QED
  BY <1>4, <1>5

\* A merge step keeps a sequence of regions, whatever it is given.
LEMMA CoalesceType ==
  ASSUME NEW m \in Seq(Regions), NEW r \in Regions
  PROVE  Coalesce(m, r) \in Seq(Regions)
<1>1. CASE m # <<>> /\ r.base <= End(Last(m))
  <2>1. Len(m) \in Nat \ {0} /\ \A i \in 1 .. Len(m) : m[i] \in Regions
    BY <1>1, EmptySeq
  <2>2. Last(m) \in Regions
    BY <2>1 DEF Last
  <2>3. Front(m) \in Seq(Regions)
    <3>1. Len(m) - 1 \in Nat /\ \A i \in 1 .. Len(m) - 1 : m[i] \in Regions
      BY <2>1
    <3>2. SubSeq(m, 1, Len(m) - 1) \in Seq(Regions)
      BY <3>1, SubSeqProperties
    <3> QED
      BY <3>2 DEF Front
  <2>4. Region(Last(m).base, Larger(End(Last(m)), End(r))) \in Regions
    <3> DEFINE b == Last(m).base
               e == Larger(End(Last(m)), End(r))
    <3>1. b \in Addresses /\ e - b \in Nat
      BY <2>2, RegionFacts DEF Larger, Regions
    <3> QED
      BY <3>1 DEF Region, Regions
  <2> QED
    BY <1>1, <2>3, <2>4, AppendProperties DEF Coalesce
<1>2. CASE ~(m # <<>> /\ r.base <= End(Last(m)))
  BY <1>2, AppendProperties DEF Coalesce
<1> QED
  BY <1>1, <1>2

\* The allowlist, merged: its spans are apart and cover the same addresses.
LEMMA MergedFacts ==
  ASSUME NEW f \in Filters
  PROVE  LET m == MergedInclude(f)
         IN /\ Apart(m)
            /\ \A b \in Int : Covers(m, b) <=> \E s \in f.include : Lies(s, b)
<1> DEFINE given == {r \in f.include : r.size > 0}
           spans == ByBase(given)
           N == Len(spans)
           V == Seq(Regions)
           next(k, v) == Coalesce(v, spans[k])
           Eq(g) == g = [k \in 0 .. N |-> IF k = 0 THEN <<>> ELSE next(k, g[k - 1])]
           step == [x \in (1 .. N) \X V |-> next(x[1], x[2])]
           G == CHOOSE g : Eq(g)
<1>1. f.include \subseteq Regions /\ IsFiniteSet(given) /\ given \subseteq Regions
  <2>1. f.include \subseteq Regions /\ IsFiniteSet(f.include)
    BY FiltersAssumption
  <2> QED
    BY <2>1, FS_Subset
<1>2. /\ N \in Nat /\ spans \in [1 .. N -> given] /\ {spans[i] : i \in 1 .. N} = given
      /\ \A i, j \in 1 .. N : i < j => spans[i].base <= spans[j].base
  <2> HIDE DEF given
  <2> DEFINE key == [r \in given |-> r.base]
  <2>1. \A r \in given : key[r] \in Nat /\ key[r] = r.base
    BY <1>1, RegionFacts
  <2> HIDE DEF key
  <2>2. Cardinality(given) \in Nat /\ IsAscending(Ascending(given, key), given, key)
    BY <1>1, <2>1, AscendingFacts
  <2>3. spans = Ascending(given, key)
    BY DEF ByBase, key
  <2> HIDE DEF spans
  <2>4. spans \in [1 .. Cardinality(given) -> given] /\ Cardinality(given) \in Nat
    BY <2>2, <2>3 DEF IsAscending
  <2>5. Len(spans) = Cardinality(given)
    <3>1. spans \in Seq(given)
      BY <2>4
    <3> QED
      BY <2>4, <3>1, LenProperties
  <2> HIDE DEF N
  <2>6. N = Cardinality(given)
    BY <2>5 DEF N
  <2>7. \A i, j \in 1 .. N : i < j => key[spans[i]] <= key[spans[j]]
    BY <2>2, <2>3, <2>6 DEF IsAscending
  <2>8. {spans[i] : i \in 1 .. N} = given
    BY <2>2, <2>3, <2>4, <2>6 DEF IsAscending, Range
  <2> QED
    BY <2>1, <2>4, <2>6, <2>7, <2>8
<1>3. MergedInclude(f) = G[N]
  BY DEF MergedInclude
<1> HIDE DEF given, spans, N
<1>4. <<>> \in V /\ \A k \in 1 .. N, v \in V : next(k, v) \in V
  BY <1>1, <1>2, CoalesceType
<1> HIDE DEF V, next
<1>5. step \in [(1 .. N) \X V -> V] /\ \A k \in 1 .. N, v \in V : step[<<k, v>>] = next(k, v)
  BY <1>4
<1> HIDE DEF step
<1>6. PICK g \in [0 .. N -> V] : LoopEq(g, N, <<>>, step)
  BY <1>2, <1>4, <1>5, LoopUnfolds
<1>7. ASSUME NEW k \in 0 .. N PROVE g[k] = IF k = 0 THEN <<>> ELSE next(k, g[k - 1])
  <2>1. g[k] = IF k = 0 THEN <<>> ELSE step[<<k, g[k - 1]>>]
    BY <1>6 DEF LoopEq
  <2>2. k # 0 => k \in 1 .. N /\ g[k - 1] \in V
    BY <1>2, <1>6
  <2> QED
    BY <1>5, <2>1, <2>2
<1>8. Eq(g)
  BY <1>6, <1>7
<1>9. Eq(G)
  BY <1>8
<1> HIDE DEF G
<1>10. G[0] = <<>> /\ \A k \in 1 .. N : G[k] = Coalesce(G[k - 1], spans[k])
  BY <1>2, <1>9 DEF next
<1> DEFINE D == {k \in 0 .. N :
                   /\ Apart(G[k])
                   /\ \A i \in 1 .. Len(G[k]), j \in k + 1 .. N : G[k][i].base <= spans[j].base
                   /\ \A b \in Int : Covers(G[k], b) <=> \E j \in 1 .. k : Lies(spans[j], b)}
<1>11. 0 \in D
  <2>1. Len(G[0]) = 0 /\ G[0] \in Seq(Regions)
    BY <1>10, EmptySeq
  <2> QED
    BY <1>2, <2>1 DEF Apart, Covers
<1>12. ASSUME NEW k \in 1 .. N, k - 1 \in D PROVE k \in D
  <2> DEFINE m == G[k - 1]
             r == spans[k]
             c == G[k]
  <2>1. /\ Apart(m) /\ \A i \in 1 .. Len(m), j \in k - 1 + 1 .. N : m[i].base <= spans[j].base
        /\ \A b \in Int : Covers(m, b) <=> \E j \in 1 .. k - 1 : Lies(spans[j], b)
    BY <1>12
  <2>2. r \in Regions /\ r.size > 0 /\ r.base \in Nat
    BY <1>1, <1>2, RegionFacts DEF given
  <2>3. k \in k - 1 + 1 .. N /\ \A j \in k + 1 .. N : k < j /\ j \in 1 .. N
    BY <1>2
  <2>4. \A i \in 1 .. Len(m) : m[i].base <= r.base
    BY <2>1, <2>3
  <2>5. c = Coalesce(m, r)
    BY <1>10
  <2> HIDE DEF m, r, c
  <2>6. /\ Apart(c) /\ \A i \in 1 .. Len(c) : c[i].base <= r.base
        /\ \A b \in Int : Covers(c, b) <=> Covers(m, b) \/ Lies(r, b)
    BY <2>1, <2>2, <2>4, <2>5, CoalesceFacts
  <2>7. ASSUME NEW i \in 1 .. Len(c), NEW j \in k + 1 .. N PROVE c[i].base <= spans[j].base
    <3>1. c[i] \in Regions
      BY <2>6 DEF Apart
    <3>2. c[i].base \in Nat /\ c[i].base <= r.base
      BY <2>6, <3>1, RegionFacts
    <3>3. spans[j] \in Regions /\ r.base <= spans[j].base
      BY <1>1, <1>2, <2>3 DEF r
    <3>4. spans[j].base \in Nat
      BY <3>3, RegionFacts
    <3> QED
      BY <2>2, <3>2, <3>3, <3>4
  <2>8. \A b \in Int : Covers(c, b) <=> \E j \in 1 .. k : Lies(spans[j], b)
    <3>1. \A j \in 1 .. k : j \in 1 .. k - 1 \/ j = k
      OBVIOUS
    <3>2. 1 .. k - 1 \subseteq 1 .. k /\ k \in 1 .. k
      OBVIOUS
    <3> QED
      BY <2>1, <2>6, <3>1, <3>2 DEF r
  <2> QED
    BY <2>6, <2>7, <2>8 DEF c
<1> HIDE DEF D
<1>13. N \in D
  BY <1>2, <1>11, <1>12, UpInduction
<1>14. Apart(G[N]) /\ \A b \in Int : Covers(G[N], b) <=> \E j \in 1 .. N : Lies(spans[j], b)
  BY <1>13 DEF D
<1>15. ASSUME NEW b \in Int
       PROVE  (\E j \in 1 .. N : Lies(spans[j], b)) <=> \E s \in f.include : Lies(s, b)
  <2>1. ASSUME NEW s \in f.include, Lies(s, b) PROVE s \in given
    <3>1. s \in Regions
      BY <1>1
    <3>2. s.base \in Nat /\ s.size \in Nat /\ End(s) \in Nat /\ End(s) <= s.base + s.size
      BY <3>1, RegionFacts
    <3> QED
      BY <2>1, <3>2 DEF Lies, given
  <2>2. given \subseteq f.include
    BY DEF given
  <2> QED
    BY <1>2, <2>1, <2>2
<1> QED
  BY <1>3, <1>14, <1>15

\* Addresses in a row that are covered lie in one span.
LEMMA InOneSpan ==
  ASSUME NEW m, Apart(m), NEW a \in Int, NEW z \in Int, a <= z,
         \A b \in a .. z : Covers(m, b)
  PROVE  \E i \in 1 .. Len(m) : m[i].base <= a /\ z < End(m[i])
<1>1. ASSUME NEW i \in 1 .. Len(m)
      PROVE  m[i].base \in Nat /\ End(m[i]) \in Nat /\ m[i].base < End(m[i])
  <2>1. m[i] \in Regions
    BY DEF Apart
  <2> QED
    BY <2>1, RegionFacts DEF Apart
<1>2. PICK i \in 1 .. Len(m) : Lies(m[i], a)
  BY DEF Covers
<1>3. m[i].base <= a /\ a < End(m[i])
  BY <1>2 DEF Lies
<1>4. ASSUME End(m[i]) <= z PROVE FALSE
  <2> DEFINE b == End(m[i])
  <2>1. b \in a .. z /\ b \in Nat
    BY <1>1, <1>3, <1>4
  <2>2. PICK j \in 1 .. Len(m) : Lies(m[j], b)
    BY <2>1 DEF Covers
  <2>3. m[j].base <= b /\ b < End(m[j])
    BY <2>2 DEF Lies
  <2>4. Len(m) \in Nat /\ i \in Nat /\ j \in Nat
    BY DEF Apart
  <2>5. CASE i = j
    BY <2>1, <2>3, <2>5
  <2>6. CASE i < j
    <3>1. b < m[j].base
      BY <2>6 DEF Apart
    <3> QED
      BY <1>1, <2>1, <2>3, <3>1
  <2>7. CASE j < i
    <3>1. End(m[j]) < m[i].base
      BY <2>7 DEF Apart
    <3> QED
      BY <1>1, <2>1, <2>3, <3>1
  <2> QED
    BY <2>4, <2>5, <2>6, <2>7
<1> QED
  BY <1>1, <1>3, <1>4

-----------------------------------------------------------------------------
(* The region filter.                                                      *)

\* Regions in order that do not overlap.
Disjoint(l) == l \in Seq(Regions) /\ \A i, j \in 1 .. Len(l) : i < j => End(l[i]) <= l[j].base

\* The window and the allowlist let b pass.
Allowed(f, b) ==
  /\ f.start <= b /\ b < f.stop
  /\ (\A s \in f.include : s.size = 0) \/ \E s \in f.include : Lies(s, b)

\* The members of a sequence.
LEMMA RangeFacts ==
  ASSUME NEW S, NEW s \in Seq(S)
  PROVE  /\ IsFiniteSet(Range(s)) /\ Range(s) \subseteq S
         /\ \A x : x \in Range(s) <=> \E i \in 1 .. Len(s) : x = s[i]
<1>1. Len(s) \in Nat /\ s \in [1 .. Len(s) -> S] /\ DOMAIN s = 1 .. Len(s)
  BY LenProperties
<1>2. \A x : x \in Range(s) <=> \E i \in 1 .. Len(s) : x = s[i]
  BY <1>1 DEF Range
<1>3. s \in Surjection(1 .. Len(s), Range(s))
  BY <1>1, <1>2 DEF Surjection
<1>4. IsFiniteSet(1 .. Len(s))
  BY <1>1, FS_Interval
<1>5. IsFiniteSet(Range(s))
  BY <1>3, <1>4, FS_Surjection
<1> QED
  BY <1>1, <1>2, <1>5

\* The spans a filter cuts the regions with.
FilterSpans(f) == LET include == MergedInclude(f)
            IN IF include = <<>> THEN {Region(0, Top)} ELSE Range(include)

\* The spans are finitely many and apart, they cover what the allowlist covers (everything, if
\* nothing of it is left), and addresses in a row that are allowed share a span.
LEMMA SpansFacts ==
  ASSUME NEW f \in Filters
  PROVE  /\ IsFiniteSet(FilterSpans(f)) /\ FilterSpans(f) \subseteq Regions
         /\ \A s, t \in FilterSpans(f) : s # t => End(s) <= t.base \/ End(t) <= s.base
         /\ \A b \in Addresses :
              (\E s \in FilterSpans(f) : Lies(s, b))
                <=> (\A s \in f.include : s.size = 0) \/ \E s \in f.include : Lies(s, b)
         /\ \A a \in Addresses, z \in Addresses :
              a <= z /\ (\A b \in a .. z : \E s \in FilterSpans(f) : Lies(s, b))
                => \E s \in FilterSpans(f) : s.base <= a /\ z < End(s)
<1> DEFINE m == MergedInclude(f)
           Empty == \A s \in f.include : s.size = 0
<1>1. Apart(m) /\ \A b \in Int : Covers(m, b) <=> \E s \in f.include : Lies(s, b)
  BY MergedFacts
<1> HIDE DEF m
<1>2. f.include \subseteq Regions /\ Top \in Nat \ {0} /\ Addresses \subseteq Nat
  BY FiltersAssumption, WidthAssumption DEF Addresses
<1>3. m = <<>> <=> Empty
  <2>1. ASSUME m = <<>>, NEW s \in f.include, s.size # 0 PROVE FALSE
    <3>1. s \in Regions
      BY <1>2
    <3>2. s.base \in Nat /\ s.base < End(s)
      BY <2>1, <3>1, RegionFacts
    <3>3. Covers(m, s.base)
      BY <1>1, <3>2 DEF Lies
    <3> QED
      BY <2>1, <3>3, EmptySeq DEF Covers
  <2>2. ASSUME m # <<>>, Empty PROVE FALSE
    <3>1. m \in Seq(Regions) /\ Len(m) \in Nat \ {0}
      BY <1>1, <2>2, EmptySeq DEF Apart
    <3>2. 1 \in 1 .. Len(m) /\ m[1] \in Regions /\ m[1].base < End(m[1])
      BY <1>1, <3>1 DEF Apart
    <3>3. m[1].base \in Int /\ Covers(m, m[1].base)
      BY <3>2, RegionFacts DEF Covers, Lies
    <3>4. PICK s \in f.include : Lies(s, m[1].base)
      BY <1>1, <3>3
    <3>5. s \in Regions /\ s.size = 0
      BY <1>2, <2>2
    <3>6. s.base \in Nat /\ End(s) \in Nat /\ End(s) <= s.base
      BY <3>5, RegionFacts
    <3> QED
      BY <3>3, <3>4, <3>6 DEF Lies
  <2> QED
    BY <2>1, <2>2
<1>4. CASE m = <<>>
  <2> DEFINE w == Region(0, Top)
  <2>1. w \in Regions /\ w.base = 0 /\ End(w) = Top
    BY <1>2, SpanFacts
  <2> HIDE DEF w
  <2>2. FilterSpans(f) = {w}
    BY <1>4 DEF FilterSpans, m, w
  <2>3. IsFiniteSet({w})
    BY FS_Singleton
  <2>4. \A b \in Addresses : Lies(w, b)
    BY <1>2, <2>1 DEF Lies, Addresses
  <2>5. \A z \in Addresses : z < Top
    BY <1>2 DEF Addresses
  <2> QED
    BY <1>2, <1>3, <1>4, <2>1, <2>2, <2>3, <2>4, <2>5
<1>5. CASE m # <<>>
  <2>1. FilterSpans(f) = Range(m) /\ m \in Seq(Regions)
    BY <1>1, <1>5 DEF FilterSpans, m, Apart
  <2>2. /\ IsFiniteSet(Range(m)) /\ Range(m) \subseteq Regions
        /\ \A x : x \in Range(m) <=> \E i \in 1 .. Len(m) : x = m[i]
    BY <2>1, RangeFacts
  <2>3. ASSUME NEW s \in FilterSpans(f), NEW t \in FilterSpans(f), s # t
        PROVE  End(s) <= t.base \/ End(t) <= s.base
    <3>1. PICK i \in 1 .. Len(m), j \in 1 .. Len(m) : s = m[i] /\ t = m[j]
      BY <2>1, <2>2
    <3>2. s \in Regions /\ t \in Regions /\ Len(m) \in Nat
      BY <2>1, <2>2
    <3>3. s.base \in Nat /\ t.base \in Nat /\ End(s) \in Nat /\ End(t) \in Nat
      BY <3>2, RegionFacts
    <3>4. i < j \/ j < i
      BY <2>3, <3>1, <3>2
    <3>5. (i < j => End(s) < t.base) /\ (j < i => End(t) < s.base)
      BY <1>1, <3>1 DEF Apart
    <3> QED
      BY <3>3, <3>4, <3>5
  <2>4. \A b \in Addresses : (\E s \in FilterSpans(f) : Lies(s, b)) <=> Covers(m, b)
    BY <2>1, <2>2 DEF Covers
  <2>5. \A b \in Addresses :
          (\E s \in FilterSpans(f) : Lies(s, b)) <=> Empty \/ \E s \in f.include : Lies(s, b)
    <3>1. ~Empty
      BY <1>3, <1>5
    <3> HIDE DEF Empty
    <3>2. ASSUME NEW b \in Addresses
          PROVE  (\E s \in FilterSpans(f) : Lies(s, b)) <=> Empty \/ \E s \in f.include : Lies(s, b)
      <4>1. b \in Int
        BY <1>2
      <4>2. Covers(m, b) <=> \E s \in f.include : Lies(s, b)
        BY <1>1, <4>1
      <4>3. (\E s \in FilterSpans(f) : Lies(s, b)) <=> Covers(m, b)
        BY <2>4
      <4> HIDE DEF Lies, Covers, FilterSpans
      <4> QED
        BY <3>1, <4>2, <4>3
    <3> QED
      BY <3>2
  <2>6. ASSUME NEW a \in Addresses, NEW z \in Addresses, a <= z,
               \A b \in a .. z : \E s \in FilterSpans(f) : Lies(s, b)
        PROVE  \E s \in FilterSpans(f) : s.base <= a /\ z < End(s)
    <3>1. \A b \in a .. z : b \in Addresses
      BY <1>2 DEF Addresses
    <3>2. \A b \in a .. z : Covers(m, b)
      BY <2>4, <2>6, <3>1
    <3>3. a \in Int /\ z \in Int
      BY <1>2
    <3>4. PICK i \in 1 .. Len(m) : m[i].base <= a /\ z < End(m[i])
      BY <1>1, <2>6, <3>2, <3>3, InOneSpan
    <3> QED
      BY <2>1, <2>2, <3>4
  <2> QED
    BY <2>1, <2>2, <2>3, <2>5, <2>6
<1> QED
  BY <1>4, <1>5

\* What a filter makes of the regions: they are in order and disjoint, lie in the
\* regions they were cut from and in what the filter allows, and addresses in a row that
\* a region holds and the filter allows stay together.
LEMMA ApplyFacts ==
  ASSUME NEW f \in Filters, NEW l \in Layouts
  PROVE  LET regs == Apply(f, l)
         IN /\ Disjoint(regs)
            /\ \A i \in 1 .. Len(regs) : \A b \in Addresses : Lies(regs[i], b) => Allowed(f, b)
            /\ \A i \in 1 .. Len(regs) : \E j \in 1 .. Len(l) :
                 l[j].base <= regs[i].base /\ End(regs[i]) <= End(l[j])
            /\ \A j \in 1 .. Len(l), a \in Addresses, z \in Addresses :
                 l[j].base <= a /\ a <= z /\ z < End(l[j]) /\ (\A b \in a .. z : Allowed(f, b))
                   => \E i \in 1 .. Len(regs) : regs[i].base <= a /\ z < End(regs[i])
<1>1. Disjoint(l) /\ l \in Seq(Regions) /\ Len(l) \in Nat
  BY LayoutsAssumption DEF Disjoint
<1>2. /\ f.start \in 0 .. Top /\ f.stop \in 0 .. Top /\ f.include \subseteq Regions
      /\ Top \in Nat \ {0} /\ Addresses \subseteq Nat
  BY FiltersAssumption, WidthAssumption DEF Addresses
<1>3. CASE IsUnrestricted(f)
  <2>1. Apply(f, l) = l
    BY <1>3 DEF Apply
  <2>2. f.start = 0 /\ f.stop = Top /\ f.include = {}
    BY <1>3 DEF IsUnrestricted
  <2>3. \A b \in Addresses : Allowed(f, b)
    BY <1>2, <2>2 DEF Allowed, Addresses
  <2>4. \A i \in 1 .. Len(l) : l[i].base <= l[i].base /\ End(l[i]) <= End(l[i])
    <3> SUFFICES ASSUME NEW i \in 1 .. Len(l)
                 PROVE  l[i].base <= l[i].base /\ End(l[i]) <= End(l[i])
      OBVIOUS
    <3>1. l[i] \in Regions
      BY <1>1
    <3>2. l[i].base \in Nat /\ End(l[i]) \in Nat
      BY <3>1, RegionFacts
    <3> QED
      BY <3>2
  <2> QED
    BY <1>1, <2>1, <2>3, <2>4
<1>4. CASE ~IsUnrestricted(f)
  <2> DEFINE spans == FilterSpans(f)
             lo(r, s) == Larger(Larger(r.base, f.start), s.base)
             hi(r, s) == Smaller(Smaller(End(r), f.stop), End(s))
             pairs == {q \in Range(l) \X spans : lo(q[1], q[2]) < hi(q[1], q[2])}
             cut == {Region(lo(p[1], p[2]), hi(p[1], p[2])) : p \in pairs}
             key == [r \in cut |-> r.base]
             regs == Ascending(cut, key)
             n == Cardinality(cut)
  <2>1. Apply(f, l) = regs
    BY <1>4 DEF Apply, ByBase, FilterSpans
  <2>2. /\ IsFiniteSet(Range(l)) /\ Range(l) \subseteq Regions
        /\ \A x : x \in Range(l) <=> \E i \in 1 .. Len(l) : x = l[i]
    BY <1>1, RangeFacts
  <2>3. /\ IsFiniteSet(spans) /\ spans \subseteq Regions
        /\ \A s, t \in spans : s # t => End(s) <= t.base \/ End(t) <= s.base
        /\ \A b \in Addresses :
             (\E s \in spans : Lies(s, b))
               <=> (\A s \in f.include : s.size = 0) \/ \E s \in f.include : Lies(s, b)
        /\ \A a \in Addresses, z \in Addresses :
             a <= z /\ (\A b \in a .. z : \E s \in spans : Lies(s, b))
               => \E s \in spans : s.base <= a /\ z < End(s)
    BY SpansFacts
  <2> HIDE DEF spans
  <2>4. ASSUME NEW r \in Regions, NEW s \in Regions
        PROVE  /\ lo(r, s) \in Nat /\ hi(r, s) \in Nat /\ hi(r, s) <= Top
               /\ r.base <= lo(r, s) /\ f.start <= lo(r, s) /\ s.base <= lo(r, s)
               /\ hi(r, s) <= End(r) /\ hi(r, s) <= f.stop /\ hi(r, s) <= End(s)
               /\ \A b \in Nat : r.base <= b /\ f.start <= b /\ s.base <= b => lo(r, s) <= b
               /\ \A b \in Nat : b < End(r) /\ b < f.stop /\ b < End(s) => b < hi(r, s)
    <3>1. /\ r.base \in Nat /\ s.base \in Nat /\ End(r) \in Nat /\ End(s) \in Nat
          /\ End(r) <= Top
      BY RegionFacts
    <3> QED
      BY <1>2, <3>1 DEF Larger, Smaller
  <2> HIDE DEF lo, hi
  <2>5. \A c \in cut : \E r \in Range(l), s \in spans :
          /\ lo(r, s) < hi(r, s) /\ c = Region(lo(r, s), hi(r, s))
    BY Zenon
  <2>6. \A r \in Range(l), s \in spans : lo(r, s) < hi(r, s) => Region(lo(r, s), hi(r, s)) \in cut
    <3> SUFFICES ASSUME NEW r \in Range(l), NEW s \in spans, lo(r, s) < hi(r, s)
                 PROVE  Region(lo(r, s), hi(r, s)) \in cut
      OBVIOUS
    <3> DEFINE p == <<r, s>>
    <3>1. p \in pairs /\ p[1] = r /\ p[2] = s
      OBVIOUS
    <3> QED
      BY <3>1
  <2>7. IsFiniteSet(cut)
    <3> DEFINE g == [p \in pairs |-> Region(lo(p[1], p[2]), hi(p[1], p[2]))]
    <3>1. IsFiniteSet(pairs)
      <4>1. IsFiniteSet(Range(l) \X spans)
        BY <2>2, <2>3, FS_Product
      <4> QED
        BY <4>1, FS_Subset
    <3> HIDE DEF pairs
    <3>2. g \in Surjection(pairs, cut)
      BY DEF Surjection
    <3> HIDE DEF g, cut
    <3> QED
      BY <3>1, <3>2, FS_Surjection
  <2>8. ASSUME NEW r \in Range(l), NEW s \in spans, lo(r, s) < hi(r, s)
        PROVE  LET c == Region(lo(r, s), hi(r, s))
               IN c \in Regions /\ c.base = lo(r, s) /\ End(c) = hi(r, s)
    <3>1. r \in Regions /\ s \in Regions
      BY <2>2, <2>3
    <3> QED
      BY <2>4, <2>8, <3>1, SpanFacts
  <2> HIDE DEF cut
  <2>9. \A c \in cut : c \in Regions /\ c.base < End(c) /\ key[c] = c.base /\ key[c] \in Nat
    <3> SUFFICES ASSUME NEW c \in cut
                 PROVE  c \in Regions /\ c.base < End(c) /\ key[c] = c.base /\ key[c] \in Nat
      OBVIOUS
    <3>1. c \in Regions /\ c.base < End(c)
      BY <2>5, <2>8
    <3> QED
      BY <3>1, RegionFacts
  <2>10. ASSUME NEW c \in cut, NEW d \in cut, c # d PROVE End(c) <= d.base \/ End(d) <= c.base
    <3>1. PICK r \in Range(l), s \in spans : /\ lo(r, s) < hi(r, s)
                                             /\ c = Region(lo(r, s), hi(r, s))
      BY <2>5
    <3>2. PICK q \in Range(l), t \in spans : /\ lo(q, t) < hi(q, t)
                                             /\ d = Region(lo(q, t), hi(q, t))
      BY <2>5
    <3>3. r \in Regions /\ s \in Regions /\ q \in Regions /\ t \in Regions
      BY <2>2, <2>3
    <3>4. /\ r.base <= c.base /\ s.base <= c.base /\ End(c) <= End(r) /\ End(c) <= End(s)
          /\ q.base <= d.base /\ t.base <= d.base /\ End(d) <= End(q) /\ End(d) <= End(t)
          /\ c.base \in Nat /\ End(c) \in Nat /\ d.base \in Nat /\ End(d) \in Nat
      BY <2>4, <2>8, <3>1, <3>2, <3>3
    <3>5. /\ r.base \in Nat /\ s.base \in Nat /\ q.base \in Nat /\ t.base \in Nat
          /\ End(r) \in Nat /\ End(s) \in Nat /\ End(q) \in Nat /\ End(t) \in Nat
      BY <3>3, RegionFacts
    <3>6. CASE r # q
      <4>1. PICK i \in 1 .. Len(l), j \in 1 .. Len(l) : r = l[i] /\ q = l[j]
        BY <2>2
      <4>2. i < j \/ j < i
        BY <1>1, <3>6, <4>1
      <4>3. End(r) <= q.base \/ End(q) <= r.base
        BY <1>1, <4>1, <4>2 DEF Disjoint
      <4> QED
        BY <3>4, <3>5, <4>3
    <3>7. CASE s # t
      <4>1. End(s) <= t.base \/ End(t) <= s.base
        BY <2>3, <3>7
      <4> QED
        BY <3>4, <3>5, <4>1
    <3> QED
      BY <2>10, <3>1, <3>2, <3>6, <3>7
  <2> HIDE DEF key
  <2>11. /\ n \in Nat /\ IsAscending(regs, cut, key)
         /\ \A i, j \in 1 .. n : regs[i] = regs[j] => i = j
    BY <2>7, <2>9, AscendingFacts
  <2> HIDE DEF regs
  <2>12. regs \in [1 .. n -> cut] /\ {regs[i] : i \in 1 .. n} = cut
    BY <2>11 DEF IsAscending, Range
  <2>13. Len(regs) = n /\ regs \in Seq(Regions)
    <3>1. regs \in [1 .. n -> Regions] /\ n \in Nat
      BY <2>9, <2>11, <2>12
    <3> HIDE DEF n
    <3> QED
      BY <3>1
  <2>14. Disjoint(regs)
    <3> SUFFICES ASSUME NEW i \in 1 .. n, NEW j \in 1 .. n, i < j PROVE End(regs[i]) <= regs[j].base
      BY <2>13 DEF Disjoint
    <3> DEFINE c == regs[i]
               d == regs[j]
    <3>1. c \in cut /\ d \in cut
      BY <2>12
    <3>2. c # d
      BY <2>11
    <3>3. key[c] <= key[d]
      BY <2>11 DEF IsAscending
    <3> HIDE DEF c, d
    <3>4. c \in Regions /\ d \in Regions /\ d.base < End(d) /\ c.base <= d.base
      BY <2>9, <3>1, <3>3
    <3>5. c.base \in Nat /\ d.base \in Nat /\ End(c) \in Nat /\ End(d) \in Nat
      BY <3>4, RegionFacts
    <3>6. End(c) <= d.base
      BY <2>10, <3>1, <3>2, <3>4, <3>5
    <3> QED
      BY <3>6 DEF c, d
  <2>15. ASSUME NEW i \in 1 .. n, NEW b \in Addresses, Lies(regs[i], b) PROVE Allowed(f, b)
    <3>1. PICK r \in Range(l), s \in spans : /\ lo(r, s) < hi(r, s)
                                             /\ regs[i] = Region(lo(r, s), hi(r, s))
      BY <2>5, <2>12
    <3>2. r \in Regions /\ s \in Regions /\ s.base \in Nat /\ End(s) \in Nat
      BY <2>2, <2>3, RegionFacts
    <3>3. lo(r, s) <= b /\ b < hi(r, s)
      BY <2>8, <2>15, <3>1 DEF Lies
    <3>4. f.start <= b /\ b < f.stop /\ Lies(s, b)
      BY <1>2, <2>4, <3>2, <3>3 DEF Lies
    <3> QED
      BY <2>3, <3>4 DEF Allowed
  <2>16. ASSUME NEW i \in 1 .. n
         PROVE  \E j \in 1 .. Len(l) : l[j].base <= regs[i].base /\ End(regs[i]) <= End(l[j])
    <3>1. PICK r \in Range(l), s \in spans : /\ lo(r, s) < hi(r, s)
                                             /\ regs[i] = Region(lo(r, s), hi(r, s))
      BY <2>5, <2>12
    <3>2. r \in Regions /\ s \in Regions
      BY <2>2, <2>3
    <3>3. r.base <= regs[i].base /\ End(regs[i]) <= End(r)
      BY <2>4, <2>8, <3>1, <3>2
    <3> QED
      BY <2>2, <3>3
  <2>17. ASSUME NEW j \in 1 .. Len(l), NEW a \in Addresses, NEW z \in Addresses,
                l[j].base <= a, a <= z, z < End(l[j]), \A b \in a .. z : Allowed(f, b)
         PROVE  \E i \in 1 .. n : regs[i].base <= a /\ z < End(regs[i])
    <3> DEFINE r == l[j]
    <3>1. \A b \in a .. z : b \in Addresses /\ \E s \in spans : Lies(s, b)
      <4>1. \A b \in a .. z : b \in Addresses
        BY <1>2 DEF Addresses
      <4> QED
        BY <2>3, <2>17, <4>1 DEF Allowed
    <3>2. PICK s \in spans : s.base <= a /\ z < End(s)
      BY <2>3, <2>17, <3>1
    <3>3. r \in Range(l) /\ r \in Regions /\ s \in Regions
      BY <1>1, <2>2, <2>3
    <3>4. a \in Nat /\ z \in Nat /\ a \in a .. z /\ z \in a .. z
      BY <1>2, <2>17
    <3>5. f.start <= a /\ z < f.stop
      BY <2>17, <3>4 DEF Allowed
    <3>6. r.base <= a /\ z < End(r)
      BY <2>17
    <3> HIDE DEF r
    <3>7. lo(r, s) <= a /\ z < hi(r, s) /\ lo(r, s) \in Nat /\ hi(r, s) \in Nat
      BY <2>4, <3>2, <3>3, <3>4, <3>5, <3>6
    <3>8. lo(r, s) < hi(r, s)
      BY <2>17, <3>4, <3>7
    <3>9. PICK i \in 1 .. n : regs[i] = Region(lo(r, s), hi(r, s))
      BY <2>6, <2>12, <3>3, <3>8
    <3>10. regs[i].base = lo(r, s) /\ End(regs[i]) = hi(r, s)
      BY <2>8, <3>3, <3>8, <3>9
    <3> QED
      BY <3>7, <3>9, <3>10
  <2> QED
    BY <2>1, <2>13, <2>14, <2>15, <2>16, <2>17
<1> QED
  BY <1>3, <1>4

-----------------------------------------------------------------------------
(* Multiples of the alignment.                                             *)

\* Quotient and remainder.
LEMMA DivFacts ==
  ASSUME NEW a \in Nat, NEW k \in Nat \ {0}
  PROVE  /\ a \div k \in Nat /\ a % k \in 0 .. k - 1
         /\ a = (a \div k) * k + (a % k)
OBVIOUS

\* Products with the alignment, compared.
LEMMA ProductFacts ==
  ASSUME NEW p \in Int, NEW q \in Int, NEW k \in Nat \ {0}
  PROVE  /\ p * k \in Int
         /\ p * k < q * k => p * k + k <= q * k /\ p < q
         /\ p * k <= q * k => p <= q
         /\ p <= q => p * k <= q * k
         /\ p < q => p * k + k <= q * k
         /\ (p + 1) * k = p * k + k /\ (p + q) * k = p * k + q * k /\ (p - q) * k = p * k - q * k
         /\ p \in Nat => p * k \in Nat
OBVIOUS

\* A multiple has no remainder.
LEMMA MultipleFacts ==
  ASSUME NEW a \in Nat, NEW k \in Nat \ {0}
  PROVE  a % k = 0 <=> \E q \in Nat : a = q * k
<1>1. ASSUME a % k = 0 PROVE \E q \in Nat : a = q * k
  <2> DEFINE d == a \div k
  <2>1. d \in Nat /\ a = d * k + 0
    BY <1>1, DivFacts
  <2> HIDE DEF d
  <2>2. d * k \in Int
    BY <2>1, ProductFacts
  <2>3. a = d * k
    BY <2>1, <2>2
  <2> QED
    BY <2>1, <2>3
<1>2. ASSUME NEW q \in Nat, a = q * k PROVE a % k = 0
  <2> DEFINE d == a \div k
             r == a % k
  <2>1. d \in Nat /\ r \in 0 .. k - 1 /\ a = d * k + r
    BY DivFacts
  <2> HIDE DEF d, r
  <2>2. d * k \in Int /\ q * k = d * k + r
    BY <1>2, <2>1, ProductFacts
  <2>3. ~(d < q)
    BY <2>1, <2>2, ProductFacts
  <2>4. ~(q < d)
    BY <2>1, <2>2, ProductFacts
  <2>5. r = 0
    BY <2>1, <2>2, <2>3, <2>4
  <2> QED
    BY <2>5 DEF r
<1> QED
  BY <1>1, <1>2

\* Two multiples differ by one at least.
LEMMA MultiplesApart ==
  ASSUME NEW k \in Nat \ {0}, NEW a \in Nat, NEW b \in Nat, a % k = 0, b % k = 0, a < b
  PROVE  a + k <= b
<1>1. PICK p \in Nat : a = p * k
  BY MultipleFacts
<1>2. PICK q \in Nat : b = q * k
  BY MultipleFacts
<1> QED
  BY <1>1, <1>2, ProductFacts

\* Rounding up gives the least multiple that is not below n.
LEMMA NextMultipleFacts ==
  ASSUME NEW n \in Nat, NEW k \in Nat \ {0}
  PROVE  LET m == NextMultipleOf(n, k)
         IN /\ m \in Nat /\ n <= m /\ m < n + k /\ m % k = 0
            /\ \A a \in Nat : a % k = 0 /\ n <= a => m <= a
<1> DEFINE s == n + k - 1
           d == s \div k
           m == NextMultipleOf(n, k)
<1>1. s \in Nat /\ s = n + k - 1
  OBVIOUS
<1> HIDE DEF s
<1>2. d \in Nat /\ s % k \in 0 .. k - 1 /\ s = d * k + (s % k)
  BY <1>1, DivFacts
<1>3. m = d * k
  BY DEF NextMultipleOf, s
<1> HIDE DEF d, m
<1>4. m \in Nat /\ m % k = 0
  BY <1>2, <1>3, ProductFacts, MultipleFacts
<1>5. n <= m /\ m < n + k
  <2> DEFINE r == s % k
  <2>1. s = m + r /\ r \in 0 .. k - 1
    BY <1>2, <1>3
  <2> HIDE DEF r
  <2> QED
    BY <1>1, <1>4, <2>1
<1>6. ASSUME NEW a \in Nat, a % k = 0, n <= a, a < m PROVE FALSE
  <2>1. a + k <= m
    BY <1>4, <1>6, MultiplesApart
  <2> QED
    BY <1>4, <1>5, <1>6, <2>1
<1> QED
  BY <1>4, <1>5, <1>6 DEF m

\* From at in steps of k, as far as there is room.
Steps(at, k, room) == {at + (i - 1) * k : i \in 1 .. room \div k + 1}

\* The candidates of a window are the multiples in it.
LEMMA StepFacts ==
  ASSUME NEW k \in Nat \ {0}, NEW at \in Nat, at % k = 0, NEW room \in Nat
  PROVE  \A a \in Nat : a \in Steps(at, k, room) <=> a % k = 0 /\ at <= a /\ a <= at + room
<1> DEFINE d == room \div k
           r == room % k
<1>1. d \in Nat /\ r \in 0 .. k - 1 /\ room = d * k + r
  BY DivFacts
<1>2. PICK p \in Nat : at = p * k
  BY MultipleFacts
<1> HIDE DEF d, r
<1>3. ASSUME NEW i \in 1 .. d + 1
      PROVE  LET a == at + (i - 1) * k
             IN a \in Nat /\ a % k = 0 /\ at <= a /\ a <= at + room
  <2> DEFINE j == i - 1
             o == j * k
             a == at + o
  <2>1. j \in Nat /\ j <= d
    BY <1>1
  <2> HIDE DEF j
  <2>2. o \in Nat /\ o <= d * k /\ d * k \in Nat
    BY <1>1, <2>1, ProductFacts
  <2>3. (p + j) * k = p * k + o /\ p + j \in Nat
    BY <1>2, <2>1, ProductFacts
  <2> HIDE DEF o
  <2>4. a \in Nat /\ at <= a /\ a <= at + room
    BY <1>1, <2>2
  <2>5. a = (p + j) * k
    BY <1>2, <2>3
  <2> HIDE DEF a
  <2>6. a % k = 0
    BY <2>3, <2>4, <2>5, MultipleFacts
  <2> QED
    BY <2>4, <2>6 DEF a, o, j
<1>4. ASSUME NEW a \in Nat, a % k = 0, at <= a, a <= at + room
      PROVE  \E i \in 1 .. d + 1 : a = at + (i - 1) * k
  <2>1. PICK q \in Nat : a = q * k
    BY <1>4, MultipleFacts
  <2>2. p <= q
    BY <1>2, <1>4, <2>1, ProductFacts
  <2> DEFINE j == q - p
             o == j * k
  <2>3. j \in Nat
    BY <2>2
  <2>4. o = a - at
    BY <1>2, <2>1, ProductFacts
  <2> HIDE DEF j
  <2>5. o \in Nat /\ d * k \in Nat /\ (d < j => d * k + k <= o)
    BY <1>1, <2>3, ProductFacts
  <2> HIDE DEF o
  <2>6. ~(d < j)
    BY <1>1, <1>4, <2>4, <2>5
  <2> DEFINE i == j + 1
  <2>7. i \in 1 .. d + 1 /\ i - 1 = j /\ a = at + o
    BY <1>1, <1>4, <2>3, <2>4, <2>6
  <2> HIDE DEF i
  <2>8. a = at + (i - 1) * k
    BY <2>7 DEF o
  <2> QED
    BY <2>7, <2>8
<1> DEFINE S == Steps(at, k, room)
<1>5. S = {at + (i - 1) * k : i \in 1 .. d + 1}
  BY DEF Steps, d
<1> HIDE DEF S
<1>6. ASSUME NEW a \in Nat, a \in S PROVE a % k = 0 /\ at <= a /\ a <= at + room
  <2>1. PICK i \in 1 .. d + 1 : a = at + (i - 1) * k
    BY <1>5, <1>6
  <2> QED
    BY <1>3, <2>1
<1>7. ASSUME NEW a \in Nat, a % k = 0, at <= a, a <= at + room PROVE a \in S
  <2>1. \E i \in 1 .. d + 1 : a = at + (i - 1) * k
    BY <1>4, <1>7
  <2> QED
    BY <1>5, <2>1
<1> QED
  BY <1>6, <1>7 DEF S

-----------------------------------------------------------------------------
(* What is searched, and what is read.                                     *)

\* The regions the walk goes through.
Walked == Apply(scope.filter, layout)

\* The target and the scanner's scope do not change.
SettingInv == layout \in Layouts /\ scope \in [filter : Filters, align : Alignments]

\* The regions that are walked are in order and disjoint.
LEMMA SettingFacts ==
  ASSUME SettingInv
  PROVE  /\ layout \in Layouts /\ Disjoint(layout) /\ scope.filter \in Filters
         /\ scope.align \in Nat \ {0}
         /\ Disjoint(Walked) /\ Len(Walked) \in Nat
         /\ \A i \in 1 .. Len(Walked) : Walked[i] \in Regions
<1>1. /\ layout \in Layouts /\ Disjoint(layout) /\ scope.filter \in Filters
      /\ scope.align \in Nat \ {0}
  BY LayoutsAssumption, WidthAssumption DEF SettingInv, Disjoint
<1>2. Disjoint(Walked)
  BY <1>1, ApplyFacts DEF Walked
<1>3. Walked \in Seq(Regions)
  BY <1>2 DEF Disjoint
<1> QED
  BY <1>1, <1>2, <1>3, LenProperties, ElementOfSeq

\* Below the end of the address space a region holds the addresses before its end.
LEMMA HeldLies ==
  ASSUME NEW r \in Regions, NEW b \in Nat
  PROVE  /\ Lies(r, b) => Held(r, b)
         /\ Held(r, b) /\ b < Top => Lies(r, b)
<1>1. /\ r.base \in Nat /\ r.size \in Nat /\ End(r) \in Nat /\ End(r) <= r.base + r.size
      /\ End(r) = Top \/ End(r) = r.base + r.size
  BY RegionFacts
<1>2. Top \in Nat
  BY WidthAssumption
<1> QED
  BY <1>1, <1>2 DEF Lies, Held

\* Merged, sorted and cut, the regions hold exactly the values that are searched.
LEMMA SearchedIs ==
  ASSUME SettingInv, NEW a \in Addresses
  PROVE  a \in Searched <=>
           /\ a % scope.align = 0
           /\ \E i \in 1 .. Len(Walked) : Walked[i].base <= a /\ a + Width <= End(Walked[i])
<1> DEFINE f == scope.filter
           l == layout
           z == a + Width - 1
           Fits == \E i \in 1 .. Len(Walked) : Walked[i].base <= a /\ a + Width <= End(Walked[i])
           Whole == \E r \in Range(l) : \A b \in ValueAt(a) : Held(r, b)
           Passes == \A b \in ValueAt(a) :
                       /\ f.start <= b /\ b < f.stop
                       /\ (\A s \in f.include : s.size = 0) \/ \E s \in f.include : Held(s, b)
<1>1. /\ a \in Nat /\ Width \in Nat \ {0} /\ Top \in Nat /\ z \in Nat /\ a <= z /\ a + Width = z + 1
      /\ \A b : b \in ValueAt(a) <=> b \in a .. z
  BY WidthAssumption DEF Addresses, ValueAt
<1>2. /\ f \in Filters /\ l \in Layouts /\ l \in Seq(Regions) /\ Len(Walked) \in Nat
      /\ \A i \in 1 .. Len(Walked) : Walked[i] \in Regions
  BY SettingFacts DEF Disjoint
<1> HIDE DEF z
<1>3. f.start \in 0 .. Top /\ f.stop \in 0 .. Top /\ f.include \subseteq Regions
  BY <1>2, FiltersAssumption
<1>4. /\ Range(l) \subseteq Regions
      /\ \A x : x \in Range(l) <=> \E i \in 1 .. Len(l) : x = l[i]
  BY <1>2, RangeFacts
<1>5. /\ \A i \in 1 .. Len(Walked) : \A b \in Addresses : Lies(Walked[i], b) => Allowed(f, b)
      /\ \A i \in 1 .. Len(Walked) : \E j \in 1 .. Len(l) :
           l[j].base <= Walked[i].base /\ End(Walked[i]) <= End(l[j])
      /\ \A j \in 1 .. Len(l), x \in Addresses, y \in Addresses :
           l[j].base <= x /\ x <= y /\ y < End(l[j]) /\ (\A b \in x .. y : Allowed(f, b))
             => \E i \in 1 .. Len(Walked) : Walked[i].base <= x /\ y < End(Walked[i])
  <2> HIDE DEF f, l
  <2>1. Walked = Apply(f, l)
    BY DEF Walked, f, l
  <2> QED
    BY <1>2, <2>1, ApplyFacts
<1>6. a \in Searched <=> a % scope.align = 0 /\ Whole /\ Passes
  BY DEF Searched
<1> HIDE DEF f, l
<1>7. ASSUME Whole, Passes PROVE Fits
  <2>1. PICK r \in Range(l) : \A b \in ValueAt(a) : Held(r, b)
    BY <1>7
  <2>2. PICK j \in 1 .. Len(l) : r = l[j]
    BY <1>4
  <2>3. r \in Regions /\ r.base \in Nat /\ End(r) \in Nat
    BY <1>4, RegionFacts
  <2>4. a \in ValueAt(a) /\ z \in ValueAt(a) /\ z < Top
    BY <1>1, <1>3, <1>7
  <2>5. a \in Addresses /\ z \in Addresses
    BY <1>1, <2>4 DEF Addresses
  <2>6. Lies(r, a) /\ Lies(r, z)
    BY <1>1, <2>1, <2>3, <2>4, HeldLies
  <2>7. ASSUME NEW b \in a .. z PROVE Allowed(f, b)
    <3>1. b \in ValueAt(a) /\ b \in Nat /\ b < Top
      BY <1>1, <2>4
    <3>2. /\ f.start <= b /\ b < f.stop
          /\ (\A s \in f.include : s.size = 0) \/ \E s \in f.include : Held(s, b)
      BY <1>7, <3>1
    <3>3. ASSUME NEW s \in f.include, Held(s, b) PROVE Lies(s, b)
      BY <1>3, <3>1, <3>3, HeldLies
    <3> QED
      BY <3>2, <3>3 DEF Allowed
  <2>8. l[j].base <= a /\ a <= z /\ z < End(l[j])
    BY <1>1, <2>2, <2>6 DEF Lies
  <2>9. PICK i \in 1 .. Len(Walked) : Walked[i].base <= a /\ z < End(Walked[i])
    BY <1>5, <2>5, <2>7, <2>8
  <2>10. End(Walked[i]) \in Nat
    BY <1>2, RegionFacts
  <2>11. a + Width <= End(Walked[i])
    BY <1>1, <2>9, <2>10
  <2> QED
    BY <2>9, <2>11
<1>8. ASSUME Fits PROVE Whole /\ Passes
  <2>1. PICK i \in 1 .. Len(Walked) : Walked[i].base <= a /\ a + Width <= End(Walked[i])
    BY <1>8
  <2>2. PICK j \in 1 .. Len(l) : l[j].base <= Walked[i].base /\ End(Walked[i]) <= End(l[j])
    BY <1>5
  <2> DEFINE r == l[j]
             w == Walked[i]
  <2>3. /\ r \in Range(l) /\ r \in Regions /\ w \in Regions
    BY <1>2, <1>4
  <2>4. /\ r.base \in Nat /\ End(r) \in Nat /\ w.base \in Nat /\ End(w) \in Nat /\ End(w) <= Top
        /\ r.base <= w.base /\ End(w) <= End(r) /\ w.base <= a /\ a + Width <= End(w)
    BY <2>1, <2>2, <2>3, RegionFacts
  <2>5. ASSUME NEW b \in ValueAt(a) PROVE b \in Addresses /\ b \in Nat /\ Lies(w, b) /\ Lies(r, b)
    <3> HIDE DEF w, r
    <3> QED
      BY <1>1, <2>4, <2>5 DEF Lies, Addresses
  <2>6. ASSUME NEW b \in ValueAt(a) PROVE Held(r, b)
    BY <2>3, <2>5, <2>6, HeldLies
  <2>7. ASSUME NEW b \in ValueAt(a)
        PROVE  /\ f.start <= b /\ b < f.stop
               /\ (\A s \in f.include : s.size = 0) \/ \E s \in f.include : Held(s, b)
    <3>1. Allowed(f, b) /\ b \in Nat
      BY <1>5, <2>5, <2>7
    <3>2. ASSUME NEW s \in f.include, Lies(s, b) PROVE Held(s, b)
      BY <1>3, <3>1, <3>2, HeldLies
    <3> QED
      BY <3>1, <3>2 DEF Allowed
  <2> QED
    BY <2>3, <2>6, <2>7
<1> QED
  BY <1>6, <1>7, <1>8

\* A read stops at the first hole.
LEMMA ReadFacts ==
  ASSUME NEW a \in Nat, NEW want \in Nat
  PROVE  LET n == ReadLen(a, want)
         IN /\ n \in 0 .. want
            /\ \A i \in 0 .. n - 1 : a + i \in Addresses /\ mem[a + i] # Gone
            /\ n < want => a + n \notin Addresses \/ mem[a + n] = Gone
<1> DEFINE Ok(i) == a + i \in Addresses /\ mem[a + i] # Gone
           P(n) == /\ \A i \in 0 .. n - 1 : Ok(i)
                   /\ n < want => ~Ok(n)
           n == ReadLen(a, want)
<1>1. n = CHOOSE k \in 0 .. want :
            /\ \A i \in 0 .. k - 1 : a + i \in Addresses /\ mem[a + i] # Gone
            /\ k < want => a + k \notin Addresses \/ mem[a + k] = Gone
  BY DEF ReadLen
<1>2. \E k \in 0 .. want : P(k)
  <2> DEFINE T == {k \in 0 .. want : k < want => ~Ok(k)}
  <2>1. want \in T /\ T \in SUBSET Nat
    OBVIOUS
  <2>2. PICK k \in T : \A y \in T : k <= y
    <3> HIDE DEF T
    <3> QED
      BY <2>1, Least
  <2>3. ASSUME NEW i \in 0 .. k - 1 PROVE Ok(i)
    <3>1. i \in 0 .. want /\ i < want /\ i < k
      BY <2>2
    <3> HIDE DEF Ok
    <3> QED
      BY <2>2, <3>1
  <2> HIDE DEF Ok
  <2> QED
    BY <2>2, <2>3
<1>3. \A k \in 0 .. want : P(k) <=>
        /\ \A i \in 0 .. k - 1 : a + i \in Addresses /\ mem[a + i] # Gone
        /\ k < want => a + k \notin Addresses \/ mem[a + k] = Gone
  BY Zenon
<1> HIDE DEF P
<1>4. n \in 0 .. want /\ P(n)
  BY <1>1, <1>2, <1>3
<1> HIDE DEF n
<1> QED
  BY <1>3, <1>4 DEF n

-----------------------------------------------------------------------------
(* The invariant of the walk.                                              *)

\* Rows in ascending order of address, each a value in the address space.
Placed(rows) ==
  /\ \A i \in 1 .. Len(rows) :
       rows[i].address \in Addresses /\ ValueAt(rows[i].address) \subseteq Addresses
  /\ \A i, j \in 1 .. Len(rows) : i < j => rows[i].address < rows[j].address

\* What a row shows was there when the pass read it.
Shows(row) ==
  /\ row.current = [k \in 1 .. Width |-> row.current[k]]
  /\ \A k \in 1 .. Width : row.current[k] \in seen[row.address + k - 1]

\* The results are in order, and so are the rows of the pass.
RowsInv ==
  /\ \A i \in 1 .. Len(history) : Placed(history[i].rows)
  /\ pass # Idle => Placed(pass.out) /\ \A i \in 1 .. Len(pass.out) : Shows(pass.out[i])

\* What is left of the walk.
Left(todo) ==
  /\ todo \in Seq(Regions) /\ Len(todo) <= Len(Walked)
  /\ \A i \in 1 .. Len(todo) : todo[i] = Walked[Len(Walked) - Len(todo) + i]

\* The values the walk has passed: all of them when it is over, up to the last row when
\* the limit ended it.
Passed(a) ==
  IF pass.todo = <<>> THEN truncated => a <= Last(pass.out).address
  ELSE a < pass.at /\ a < End(Head(pass.todo))

\* Between two windows.
WalkInv ==
  pass.op = "first" =>
    /\ Left(pass.todo)
    /\ pass.todo # <<>> =>
         /\ ~truncated /\ Len(pass.out) < ResultLimit
         /\ pass.at \in Nat /\ pass.at % scope.align = 0 /\ Head(pass.todo).base <= pass.at
         /\ \A i \in 1 .. Len(pass.out) :
              pass.out[i].address < pass.at /\ pass.out[i].address < End(Head(pass.todo))

\* The rows so far are the matches among the values passed.
FoundInv ==
  pass.op = "first" =>
    /\ \A i \in 1 .. Len(pass.out) :
         /\ pass.out[i].address \in Searched /\ pass.out[i].previous = pass.out[i].current
         /\ Matches(pass.compare, pass.needle, pass.out[i].current, pass.out[i].current)
    /\ \A a \in Searched :
         Passed(a) /\ Settled(a) /\ Matches(pass.compare, pass.needle, Span(mem, a), Span(mem, a))
           => \E i \in 1 .. Len(pass.out) : pass.out[i].address = a

-----------------------------------------------------------------------------
(* A window.                                                               *)

\* A match among the values of a window of which read bytes came.
Hit(a, read) ==
  /\ a \in Addresses /\ a % scope.align = 0
  /\ pass.at <= a /\ a <= pass.at + (read - Width)
  /\ Matches(pass.compare, pass.needle, Span(mem, a), Span(mem, a))

\* The row a match becomes.
RowAt(a) == [address |-> a, current |-> Span(mem, a), previous |-> Span(mem, a)]

\* A concatenation, element by element.
LEMMA ConcatFacts ==
  ASSUME NEW s, IsSequence(s), NEW t, IsSequence(t)
  PROVE  /\ IsSequence(s \o t) /\ Len(s \o t) = Len(s) + Len(t)
         /\ \A i \in 1 .. Len(s) : (s \o t)[i] = s[i]
         /\ \A i \in 1 .. Len(t) : Len(s) + i \in 1 .. Len(s \o t) /\ (s \o t)[Len(s) + i] = t[i]
         /\ \A i \in 1 .. Len(s \o t) : i \in 1 .. Len(s) \/ \E j \in 1 .. Len(t) : i = Len(s) + j
<1> DEFINE R == {s[i] : i \in DOMAIN s} \cup {t[i] : i \in DOMAIN t}
<1>1. s \in Seq(R) /\ t \in Seq(R)
  BY SeqMonotonic DEF IsSequence
<1> HIDE DEF R
<1>2. Len(s) \in Nat /\ Len(t) \in Nat
  BY SequenceElim
<1>3. /\ s \o t \in Seq(R) /\ Len(s \o t) = Len(s) + Len(t)
      /\ \A i \in 1 .. Len(s) + Len(t) :
           (s \o t)[i] = IF i <= Len(s) THEN s[i] ELSE t[i - Len(s)]
  BY <1>1, ConcatProperties
<1>4. ASSUME NEW i \in 1 .. Len(t) PROVE (s \o t)[Len(s) + i] = t[i]
  <2>1. /\ Len(s) + i \in 1 .. Len(s) + Len(t) /\ ~(Len(s) + i <= Len(s))
        /\ (Len(s) + i) - Len(s) = i
    BY <1>2
  <2> QED
    BY <1>3, <2>1
<1>5. \A i \in 1 .. Len(s) : (s \o t)[i] = s[i]
  BY <1>2, <1>3
<1>6. \A i \in 1 .. Len(t) : Len(s) + i \in 1 .. Len(s \o t)
  BY <1>2, <1>3
<1>7. ASSUME NEW i \in 1 .. Len(s \o t), i \notin 1 .. Len(s)
      PROVE  \E j \in 1 .. Len(t) : i = Len(s) + j
  <2>1. i - Len(s) \in 1 .. Len(t) /\ i = Len(s) + (i - Len(s))
    BY <1>2, <1>3, <1>7
  <2> QED
    BY <2>1
<1>8. IsSequence(s \o t)
  BY ConcatSequence
<1> QED
  BY <1>3, <1>4, <1>5, <1>6, <1>7, <1>8

\* A window yields its matches in ascending order: all of them, or the first ones when
\* they reach the limit.
LEMMA WindowFacts ==
  ASSUME scope.align \in Nat \ {0}, pass.at \in Nat, pass.at % scope.align = 0,
         IsSequence(pass.out), Len(pass.out) < ResultLimit, NEW read \in Nat, Width <= read
  PROVE  LET w == WindowRows(read)
             n == Len(w.rows)
         IN /\ IsSequence(w.rows) /\ n \in Nat
            /\ \A k \in 1 .. n : Hit(w.rows[k].address, read) /\ w.rows[k] = RowAt(w.rows[k].address)
            /\ \A i, j \in 1 .. n : i < j => w.rows[i].address < w.rows[j].address
            /\ w.full \in BOOLEAN
            /\ w.full <=> Len(pass.out) + n >= ResultLimit
            /\ w.full => n > 0
            /\ \A a : Hit(a, read) /\ (w.full => a <= w.rows[n].address)
                        => \E k \in 1 .. n : w.rows[k].address = a
<1> DEFINE cands == Candidates(read)
           hits == {a \in Range(cands) \cap Addresses :
                      Matches(pass.compare, pass.needle, Span(mem, a), Span(mem, a))}
           c == Cardinality(hits)
           n == Smaller(c, ResultLimit - Len(pass.out))
           rows == [k \in 1 .. n |->
                      LET a == Nth(hits, k)
                      IN [address |-> a, current |-> Span(mem, a), previous |-> Span(mem, a)]]
           full == Len(pass.out) + Len(rows) >= ResultLimit
<1>1. WindowRows(read).rows = rows /\ WindowRows(read).full = full
  BY DEF WindowRows
<1>2. \A a : a \in hits <=> Hit(a, read)
  <2> DEFINE k == scope.align
             at == pass.at
             room == read - Width
  <2>1. k \in Nat \ {0} /\ at \in Nat /\ at % k = 0 /\ room \in Nat
    BY WidthAssumption
  <2>2. cands = [i \in 1 .. room \div k + 1 |-> at + (i - 1) * k]
    BY DEF Candidates
  <2>3. Range(cands) = Steps(at, k, room)
    BY <2>2 DEF Range, Steps
  <2> HIDE DEF cands
  <2>4. \A a \in Addresses : a \in Nat
    BY WidthAssumption DEF Addresses
  <2>5. ASSUME NEW a \in Addresses
        PROVE  a \in Range(cands) <=> a % k = 0 /\ at <= a /\ a <= at + room
    <3> HIDE DEF k, at, room
    <3> QED
      BY <2>1, <2>3, <2>4, StepFacts
  <2> QED
    BY <2>5 DEF Hit
<1>3. hits \in SUBSET Nat /\ IsFiniteSet(hits)
  <2>1. IsFiniteSet(0 .. Top - 1)
    BY FS_Interval, WidthAssumption
  <2>2. hits \subseteq Addresses
    OBVIOUS
  <2> HIDE DEF hits
  <2>3. Addresses \subseteq Nat /\ Addresses = 0 .. Top - 1
    BY WidthAssumption DEF Addresses
  <2>4. IsFiniteSet(hits)
    BY <2>1, <2>2, <2>3, FS_Subset
  <2> QED
    BY <2>2, <2>3, <2>4
<1> HIDE DEF cands, hits
<1>4. /\ c \in Nat
      /\ \A k \in 1 .. c : Nth(hits, k) \in hits
      /\ \A i, j \in 1 .. c : i < j => Nth(hits, i) < Nth(hits, j)
      /\ \A a \in hits : \E k \in 1 .. c : Nth(hits, k) = a
  BY <1>3, NthFacts
<1> HIDE DEF c
<1>5. /\ n \in Nat /\ n <= c /\ Len(pass.out) \in Nat /\ ResultLimit \in Nat
      /\ n = c \/ (Len(pass.out) + n = ResultLimit /\ n > 0)
      /\ Len(pass.out) + n <= ResultLimit
  <2>1. Len(pass.out) \in Nat /\ ResultLimit \in Nat
    BY SequenceElim, WidthAssumption
  <2> DEFINE left == ResultLimit - Len(pass.out)
  <2>2. left \in Nat /\ left > 0 /\ Len(pass.out) + left = ResultLimit
    BY <2>1
  <2> HIDE DEF left
  <2>3. n \in Nat /\ n <= c /\ n <= left /\ (n = c \/ n = left)
    BY <1>4, <2>2 DEF Smaller, left
  <2> HIDE DEF n
  <2> QED
    BY <2>1, <2>2, <2>3
<1> HIDE DEF n
<1>6. \A k \in 1 .. n : k \in 1 .. c /\ rows[k].address = Nth(hits, k) /\ rows[k] = RowAt(Nth(hits, k))
  BY <1>4, <1>5 DEF RowAt
<1>7. IsSequence(rows) /\ Len(rows) = n
  <2> DEFINE R == {RowAt(Nth(hits, k)) : k \in 1 .. n}
  <2>1. rows \in [1 .. n -> R] /\ n \in Nat
    BY <1>5 DEF RowAt
  <2> HIDE DEF rows, R
  <2>2. rows \in Seq(R) /\ Len(rows) = n
    BY <2>1
  <2> QED
    BY <2>2, SequenceIntro
<1> HIDE DEF rows
<1>8. full <=> Len(pass.out) + n >= ResultLimit
  BY <1>7
<1>9. full => n > 0
  BY <1>5, <1>8
<1>10. ASSUME NEW a, Hit(a, read), full => a <= rows[n].address
       PROVE  \E k \in 1 .. n : rows[k].address = a
  <2>1. a \in hits
    BY <1>2, <1>10
  <2>2. PICK k \in 1 .. c : Nth(hits, k) = a
    BY <1>4, <2>1
  <2>3. ASSUME n < k PROVE FALSE
    <3>1. full /\ n \in 1 .. n
      BY <1>4, <1>5, <1>8, <2>3
    <3>2. a <= Nth(hits, n) /\ n \in 1 .. c
      BY <1>6, <1>10, <3>1
    <3>3. Nth(hits, n) < a
      BY <1>4, <2>2, <2>3, <3>2
    <3>4. Nth(hits, n) \in Nat /\ a \in Nat
      BY <1>3, <1>4, <2>1, <3>2
    <3> QED
      BY <3>2, <3>3, <3>4
  <2>4. k \in 1 .. n
    BY <1>4, <1>5, <2>3
  <2> QED
    BY <1>6, <2>2, <2>4
<1>11. \A k \in 1 .. n : Hit(rows[k].address, read) /\ rows[k] = RowAt(rows[k].address)
  BY <1>2, <1>4, <1>6
<1>12. \A i, j \in 1 .. n : i < j => rows[i].address < rows[j].address
  BY <1>4, <1>6
<1> HIDE DEF full
<1>13. full \in BOOLEAN
  BY DEF full
<1> QED
  BY <1>1, <1>5, <1>7, <1>8, <1>9, <1>10, <1>11, <1>12, <1>13

-----------------------------------------------------------------------------
(* From region to region.                                                  *)

\* The first of the regions left, and those after it.
LEMMA LeftFacts ==
  ASSUME SettingInv, NEW todo, Left(todo)
  PROVE  /\ Len(todo) \in Nat /\ (todo = <<>> <=> Len(todo) = 0)
         /\ todo # <<>> =>
              /\ Len(todo) > 0
              /\ Head(todo) = Walked[Len(Walked) - Len(todo) + 1] /\ Head(todo) \in Regions
              /\ Left(Tail(todo)) /\ Len(Tail(todo)) = Len(todo) - 1
              /\ Tail(todo) # <<>> => End(Head(todo)) <= Head(Tail(todo)).base
<1>1. Len(todo) \in Nat /\ (todo = <<>> <=> Len(todo) = 0) /\ todo \in Seq(Regions)
  BY EmptySeq, LenProperties DEF Left
<1>2. Disjoint(Walked) /\ Len(Walked) \in Nat
  BY SettingFacts
<1>3. ASSUME todo # <<>>
      PROVE  /\ Len(todo) > 0
             /\ Head(todo) = Walked[Len(Walked) - Len(todo) + 1] /\ Head(todo) \in Regions
             /\ Left(Tail(todo)) /\ Len(Tail(todo)) = Len(todo) - 1
             /\ Tail(todo) # <<>> => End(Head(todo)) <= Head(Tail(todo)).base
  <2> DEFINE tail == Tail(todo)
             n == Len(Walked)
             m == Len(todo)
  <2>1. m \in Nat \ {0} /\ n \in Nat /\ m <= n
    BY <1>1, <1>2, <1>3 DEF Left
  <2>2. /\ tail \in Seq(Regions) /\ Len(tail) = m - 1
        /\ \A i \in 1 .. m - 1 : tail[i] = todo[i + 1]
        /\ Head(todo) \in Regions
    BY <1>1, <1>3, HeadTailProperties
  <2>3. Head(todo) = todo[1]
    BY <1>1, <1>3
  <2>4. \A i \in 1 .. m : todo[i] = Walked[n - m + i]
    BY DEF Left
  <2> HIDE DEF tail, n, m
  <2>5. Head(todo) = Walked[n - m + 1]
    BY <2>1, <2>3, <2>4
  <2>6. ASSUME NEW i \in 1 .. m - 1 PROVE tail[i] = Walked[n - (m - 1) + i]
    <3>1. i + 1 \in 1 .. m /\ n - m + (i + 1) = n - (m - 1) + i
      BY <2>1
    <3> QED
      BY <2>2, <2>4, <3>1
  <2>7. Left(tail)
    BY <2>1, <2>2, <2>6 DEF Left, n
  <2>8. ASSUME tail # <<>> PROVE End(Head(todo)) <= Head(tail).base
    <3>1. Len(tail) \in Nat /\ Len(tail) # 0 /\ Head(tail) = tail[1]
      BY <2>2, <2>8, EmptySeq
    <3>2. 1 \in 1 .. m - 1
      BY <2>1, <2>2, <3>1
    <3>3. Head(tail) = Walked[n - (m - 1) + 1]
      BY <2>6, <3>1, <3>2
    <3>4. n - m + 1 \in 1 .. n /\ n - (m - 1) + 1 \in 1 .. n /\ n - m + 1 < n - (m - 1) + 1
      BY <2>1, <3>2
    <3> QED
      BY <1>2, <2>5, <3>3, <3>4 DEF Disjoint, n
  <2> QED
    BY <2>1, <2>2, <2>5, <2>7, <2>8 DEF tail, n, m
<1> QED
  BY <1>1, <1>3

\* A value that is searched lies in a region that was left behind, in the one the walk
\* is in, or in one of those to come.
LEMMA Whereabouts ==
  ASSUME SettingInv, NEW todo, Left(todo), NEW a \in Searched
  PROVE  /\ a \in Nat /\ a \in Addresses /\ a % scope.align = 0
         /\ todo # <<>> =>
              \/ a + Width <= Head(todo).base
              \/ Head(todo).base <= a /\ a + Width <= End(Head(todo))
              \/ Tail(todo) # <<>> /\ Head(Tail(todo)).base <= a
<1>1. a \in Addresses /\ a \in Nat
  BY WidthAssumption DEF Searched, Addresses
<1>2. a % scope.align = 0
  BY <1>1, SearchedIs
<1>3. PICK i \in 1 .. Len(Walked) : Walked[i].base <= a /\ a + Width <= End(Walked[i])
  BY <1>1, SearchedIs
<1>4. ASSUME todo # <<>>
      PROVE  \/ a + Width <= Head(todo).base
             \/ Head(todo).base <= a /\ a + Width <= End(Head(todo))
             \/ Tail(todo) # <<>> /\ Head(Tail(todo)).base <= a
  <2> DEFINE n == Len(Walked)
             h == n - Len(todo) + 1
             t == n - (Len(todo) - 1) + 1
  <2>1. /\ Len(todo) \in Nat \ {0} /\ n \in Nat /\ Len(todo) <= n
        /\ Head(todo) = Walked[h] /\ Left(Tail(todo)) /\ Len(Tail(todo)) = Len(todo) - 1
    BY <1>4, LeftFacts, SettingFacts DEF Left
  <2>2. Tail(todo) # <<>> => Head(Tail(todo)) = Walked[t]
    <3> DEFINE tail == Tail(todo)
    <3> HIDE DEF tail
    <3>1. Left(tail) /\ tail # <<>> => Head(tail) = Walked[Len(Walked) - Len(tail) + 1]
      BY LeftFacts
    <3> QED
      BY <2>1, <3>1 DEF tail
  <2>3. Tail(todo) = <<>> <=> Len(todo) = 1
    BY <2>1, LeftFacts
  <2>4. Disjoint(Walked) /\ \A j \in 1 .. n : Walked[j] \in Regions
    BY SettingFacts
  <2>5. h \in 1 .. n
    BY <2>1
  <2>6. /\ Walked[i].base \in Nat /\ End(Walked[i]) \in Nat /\ Walked[h].base \in Nat
        /\ Width \in Nat
    BY <2>4, <2>5, RegionFacts, WidthAssumption
  <2>7. CASE i < h
    <3>1. End(Walked[i]) <= Walked[h].base
      BY <2>4, <2>5, <2>7 DEF Disjoint
    <3> QED
      BY <1>1, <1>3, <2>1, <2>6, <3>1
  <2>8. CASE i = h
    BY <1>3, <2>1, <2>8
  <2>9. CASE i > h
    <3>1. Len(todo) # 1 /\ t \in 1 .. n /\ t <= i
      BY <2>1, <2>9
    <3>2. Walked[t].base <= Walked[i].base
      <4>1. CASE t = i
        BY <2>6, <4>1
      <4>2. CASE t < i
        <5>1. End(Walked[t]) <= Walked[i].base
          BY <2>4, <3>1, <4>2 DEF Disjoint
        <5>2. Walked[t] \in Regions
          BY <2>4, <3>1
        <5>3. /\ Walked[t].base \in Nat /\ End(Walked[t]) \in Nat
              /\ Walked[t].base <= End(Walked[t])
          BY <5>2, RegionFacts
        <5> QED
          BY <2>6, <5>1, <5>3
      <4> QED
        BY <2>1, <3>1, <4>1, <4>2
    <3>3. Walked[t].base \in Nat
      BY <2>4, <3>1, RegionFacts
    <3>4. Walked[t].base <= a
      BY <1>1, <1>3, <2>6, <3>2, <3>3
    <3>5. Tail(todo) # <<>>
      BY <2>3, <3>1
    <3> QED
      BY <2>2, <3>4, <3>5
  <2> QED
    BY <2>1, <2>5, <2>7, <2>8, <2>9
<1> QED
  BY <1>1, <1>2, <1>4

\* Nothing that is searched is skipped when a region is entered.
LEMMA EnterFacts ==
  ASSUME SettingInv, NEW p, FirstPass(p), Left(p.todo)
  PROVE  LET q == Enter(p)
         IN /\ FirstPass(q) /\ q.todo = p.todo /\ q.out = p.out
            /\ q.compare = p.compare /\ q.needle = p.needle /\ q.base = p.base
            /\ p.todo # <<>> =>
                 /\ q.at \in Nat /\ q.at % scope.align = 0 /\ Head(p.todo).base <= q.at
                 /\ \A a \in Searched : a < q.at => a < Head(p.todo).base
<1> DEFINE q == Enter(p)
<1>1. /\ FirstPass(q) /\ q.todo = p.todo /\ q.out = p.out
      /\ q.compare = p.compare /\ q.needle = p.needle /\ q.base = p.base
  BY DEF FirstPass, Enter
<1>2. ASSUME p.todo # <<>>
      PROVE  /\ q.at \in Nat /\ q.at % scope.align = 0 /\ Head(p.todo).base <= q.at
             /\ \A a \in Searched : a < q.at => a < Head(p.todo).base
  <2> DEFINE base == Head(p.todo).base
             k == scope.align
  <2>1. q.at = NextMultipleOf(base, k)
    BY <1>2 DEF FirstPass, Enter
  <2>2. base \in Nat /\ k \in Nat \ {0}
    BY <1>2, LeftFacts, RegionFacts, SettingFacts
  <2> HIDE DEF q
  <2>3. \A a \in Searched : a \in Nat /\ a % k = 0
    BY Whereabouts
  <2> HIDE DEF base, k
  <2>4. /\ q.at \in Nat /\ base <= q.at /\ q.at % k = 0
        /\ \A a \in Nat : a % k = 0 /\ base <= a => q.at <= a
    BY <2>1, <2>2, NextMultipleFacts
  <2>5. ASSUME NEW a \in Searched, a < q.at PROVE a < base
    BY <2>2, <2>3, <2>4, <2>5
  <2> QED
    BY <2>4, <2>5 DEF base, k
<1> QED
  BY <1>1, <1>2

\* A window ends with its region; where it is too short for a value, a hole is why.
LEMMA RegionRead ==
  ASSUME SettingInv, WalkInv, InRegion
  PROVE  LET n == WindowRead
             head == Head(pass.todo)
         IN /\ n \in Nat /\ pass.at \in Nat /\ head \in Regions
            /\ head.base <= pass.at /\ pass.at + n <= End(head)
            /\ n < Width /\ pass.at + Width <= End(head) =>
                 pass.at + n \in Addresses /\ mem[pass.at + n] = Gone
<1> DEFINE n == WindowRead
           at == pass.at
           head == Head(pass.todo)
           want == Smaller(Larger(CHUNK_SIZE, Width), End(head) - at)
<1>1. Left(pass.todo) /\ pass.todo # <<>> /\ at \in Nat /\ head.base <= at /\ at < End(head)
  BY DEF WalkInv, InRegion, Walking
<1>2. head \in Regions
  BY <1>1, LeftFacts
<1>3. End(head) \in Nat /\ End(head) <= Top /\ Top \in Nat
  BY <1>2, RegionFacts, WidthAssumption
<1>4. n = ReadLen(at, want)
  BY DEF WindowRead
<1> HIDE DEF n, at, head
<1>5. /\ want \in Nat /\ at + want <= End(head)
      /\ at + Width <= End(head) => Width <= want
  BY <1>1, <1>3, WidthAssumption DEF Smaller, Larger
<1> HIDE DEF want
<1>6. /\ n \in 0 .. want
      /\ n < want => at + n \notin Addresses \/ mem[at + n] = Gone
  BY <1>1, <1>4, <1>5, ReadFacts
<1>7. n \in Nat /\ at + n <= End(head)
  BY <1>1, <1>3, <1>5, <1>6
<1>8. ASSUME n < Width, at + Width <= End(head)
      PROVE  at + n \in Addresses /\ mem[at + n] = Gone
  <2>1. n < want /\ at + n \in 0 .. Top - 1
    BY <1>1, <1>3, <1>5, <1>7, <1>8, WidthAssumption
  <2> QED
    BY <1>6, <2>1 DEF Addresses
<1> QED
  BY <1>1, <1>2, <1>7, <1>8 DEF n, at, head

\* Where a region ends, or a hole in it, no settled value is left before the next one.
LEMMA RegionDone ==
  ASSUME SettingInv, SeenInv, WalkInv, pass.op = "first", pass # Idle, pass.todo # <<>>,
         InRegion => WindowRead < Width,
         NEW a \in Searched, Settled(a),
         Tail(pass.todo) # <<>> => a < Head(Tail(pass.todo)).base
  PROVE  Passed(a)
<1> DEFINE head == Head(pass.todo)
           at == pass.at
           n == WindowRead
<1>1. Left(pass.todo) /\ at \in Nat /\ head.base <= at
  BY DEF WalkInv
<1>2. /\ head \in Regions /\ head.base \in Nat /\ End(head) \in Nat /\ head.base <= End(head)
      /\ End(head) <= Top
  BY <1>1, LeftFacts, RegionFacts
<1>3. a \in Nat /\ a \in Addresses /\ Width \in Nat \ {0} /\ Top \in Nat
  BY <1>1, Whereabouts, WidthAssumption
<1>4. a + Width <= head.base \/ (head.base <= a /\ a + Width <= End(head))
  <2>1. \/ a + Width <= head.base
        \/ head.base <= a /\ a + Width <= End(head)
        \/ Tail(pass.todo) # <<>> /\ Head(Tail(pass.todo)).base <= a
    BY <1>1, Whereabouts
  <2>2. CASE Tail(pass.todo) # <<>>
    <3> DEFINE tail == Tail(pass.todo)
    <3>1. Left(tail)
      BY <1>1, LeftFacts
    <3> HIDE DEF tail
    <3>2. Head(tail) \in Regions
      BY <2>2, <3>1, LeftFacts DEF tail
    <3>3. Head(tail).base \in Nat /\ a < Head(tail).base
      BY <2>2, <3>2, RegionFacts DEF tail
    <3> QED
      BY <1>3, <2>1, <3>3 DEF tail
  <2> QED
    BY <2>1, <2>2
<1>5. ASSUME head.base <= a, a + Width <= End(head), at <= a PROVE FALSE
  <2>1. InRegion
    <3>1. at < End(head)
      BY <1>1, <1>2, <1>3, <1>5
    <3> QED
      BY <3>1 DEF InRegion, Walking
  <2>2. /\ n \in Nat /\ n < Width
        /\ at + Width <= End(head) => at + n \in Addresses /\ mem[at + n] = Gone
    BY <2>1, RegionRead
  <2> DEFINE x == at + n
  <2>3. x \in Addresses /\ mem[x] = Gone
    BY <1>1, <1>2, <1>3, <1>5, <2>2
  <2>4. Gone \in seen[x]
    BY <2>3 DEF SeenInv
  <2> DEFINE i == Len(Walked) - Len(pass.todo) + 1
  <2>5. head = Walked[i] /\ i \in 1 .. Len(Walked)
    <3>1. Len(pass.todo) \in Nat /\ Len(pass.todo) > 0 /\ head = Walked[i]
      BY <1>1, LeftFacts
    <3>2. Len(Walked) \in Nat /\ Len(pass.todo) <= Len(Walked)
      BY <1>1, SettingFacts DEF Left
    <3>3. i \in 1 .. Len(Walked)
      <4> HIDE DEF head
      <4> QED
        BY <3>1, <3>2
    <3> QED
      BY <3>1, <3>3
  <2>6. PICK j \in 1 .. Len(layout) : layout[j].base <= head.base /\ End(head) <= End(layout[j])
    BY <2>5, SettingFacts, ApplyFacts DEF Walked
  <2> DEFINE r == layout[j]
  <2>7. r \in Range(layout) /\ r \in Regions
    BY SettingFacts, RangeFacts DEF Disjoint
  <2>8. r.base \in Nat /\ End(r) \in Nat /\ r.base <= head.base /\ End(head) <= End(r)
    BY <2>6, <2>7, RegionFacts
  <2> HIDE DEF r, x, head, at, n, i
  <2>9. Lies(r, a)
    BY <1>2, <1>3, <1>5, <2>8 DEF Lies
  <2>10. x \in r.base .. a + Width - 1
    <3>1. x = at + n
      BY DEF x
    <3> QED
      BY <1>1, <1>2, <1>3, <1>5, <2>2, <2>8, <3>1
  <2>11. Held(r, a)
    BY <1>3, <2>7, <2>9, HeldLies
  <2> QED
    BY <2>4, <2>7, <2>10, <2>11 DEF Settled
<1> HIDE DEF head, at
<1>6. a < at /\ a < End(head)
  BY <1>1, <1>2, <1>3, <1>4, <1>5
<1> QED
  BY <1>6 DEF Passed, at, head

-----------------------------------------------------------------------------
(* One window after the other.                                             *)

\* The seam between two windows: the next begins after the last candidate of this one,
\* and no multiple of the alignment lies between them.
LEMMA AdvanceFacts ==
  ASSUME scope.align \in Nat \ {0}, pass.at \in Nat, pass.at % scope.align = 0,
         NEW read \in Nat, Width <= read
  PROVE  LET next == Advance(read)
         IN /\ next \in Nat /\ next % scope.align = 0
            /\ pass.at < next /\ pass.at + (read - Width) < next
            /\ \A a \in Nat : a % scope.align = 0 /\ pass.at <= a /\ a < next
                                => a <= pass.at + (read - Width)
<1> DEFINE k == scope.align
           at == pass.at
           n == at + Larger(read - (Width - 1), 1)
           m == NextMultipleOf(n, k)
           next == Advance(read)
<1>1. next = Larger(m, at + k) /\ k \in Nat \ {0} /\ at \in Nat /\ at % k = 0
  BY DEF Advance
<1>2. Larger(read - (Width - 1), 1) = read - Width + 1 /\ Width \in Nat \ {0}
  BY WidthAssumption DEF Larger
<1> HIDE DEF k, at, next
<1>3. n \in Nat /\ n = at + (read - Width) + 1
  BY <1>1, <1>2
<1> HIDE DEF n
<1>4. /\ m \in Nat /\ n <= m /\ m % k = 0
      /\ \A a \in Nat : a % k = 0 /\ n <= a => m <= a
  BY <1>1, <1>3, NextMultipleFacts
<1> HIDE DEF m
<1>5. at + k \in Nat /\ (at + k) % k = 0
  <2>1. PICK p \in Nat : at = p * k
    BY <1>1, MultipleFacts
  <2> DEFINE b == at + k
  <2>2. b = (p + 1) * k /\ p + 1 \in Nat /\ b \in Nat
    BY <1>1, <2>1, ProductFacts
  <2> HIDE DEF b
  <2>3. b % k = 0
    BY <1>1, <2>2, MultipleFacts
  <2> QED
    BY <2>2, <2>3 DEF b
<1>6. next \in Nat /\ next % k = 0 /\ (next = m \/ next = at + k) /\ m <= next /\ at + k <= next
  <2> DEFINE b == at + k
  <2> HIDE DEF b
  <2>1. next = Larger(m, b) /\ b \in Nat /\ b % k = 0
    BY <1>1, <1>5 DEF b
  <2>2. next \in {m, b} /\ m <= next /\ b <= next
    BY <1>4, <2>1 DEF Larger
  <2> QED
    BY <1>4, <2>1, <2>2 DEF b
<1>7. at < next /\ at + (read - Width) < next
  BY <1>1, <1>2, <1>3, <1>4, <1>6
<1>8. ASSUME NEW a \in Nat, a % k = 0, at <= a, a < next PROVE a <= at + (read - Width)
  <2>1. CASE next = m
    <3>1. ~(n <= a)
      BY <1>4, <1>8, <2>1
    <3> QED
      BY <1>1, <1>2, <1>3, <3>1
  <2>2. CASE next = at + k
    <3>1. ~(at < a)
      <4>1. at < a => at + k <= a
        BY <1>1, <1>8, MultiplesApart
      <4> QED
        BY <1>1, <1>8, <2>2, <4>1
    <3> QED
      BY <1>1, <1>2, <1>8, <3>1
  <2> QED
    BY <1>6, <2>1, <2>2
<1> QED
  BY <1>6, <1>7, <1>8 DEF k, at, next

\* A row shows what is in memory when it is made.
LEMMA ShowsNow ==
  ASSUME SeenInv, pass # Idle, NEW row, row.address \in Addresses,
         ValueAt(row.address) \subseteq Addresses, row.current = Span(mem, row.address)
  PROVE  Shows(row)
<1> DEFINE a == row.address
           span == row.current
<1>1. span = [k \in 1 .. Width |-> mem[a + k - 1]]
  BY DEF Span
<1>2. a \in Nat /\ Width \in Nat
  BY WidthAssumption DEF Addresses
<1>3. ASSUME NEW k \in 1 .. Width PROVE span[k] \in seen[a + k - 1]
  <2>1. a + k - 1 \in ValueAt(a)
    BY <1>2 DEF ValueAt
  <2>2. span[k] = mem[a + k - 1]
    BY <1>1
  <2> QED
    BY <2>1, <2>2 DEF SeenInv
<1>4. span = [k \in 1 .. Width |-> span[k]]
  BY <1>1
<1> QED
  BY <1>3, <1>4 DEF Shows

\* A match in a window is a value that was searched for and is there.
LEMMA HitFacts ==
  ASSUME SettingInv, SeenInv, WalkInv, InRegion, pass # Idle, Width <= WindowRead,
         NEW a, Hit(a, WindowRead)
  PROVE  /\ a \in Nat /\ a \in Addresses /\ ValueAt(a) \subseteq Addresses /\ a \in Searched
         /\ a < End(Head(pass.todo))
         /\ Shows(RowAt(a))
<1> DEFINE n == WindowRead
           at == pass.at
           head == Head(pass.todo)
<1>1. /\ n \in Nat /\ at \in Nat /\ head \in Regions /\ head.base <= at /\ at + n <= End(head)
      /\ Width <= n
  BY RegionRead
<1>2. /\ a \in Addresses /\ a % scope.align = 0 /\ at <= a /\ a <= at + (n - Width)
  BY DEF Hit
<1>3. /\ head.base \in Nat /\ End(head) \in Nat /\ End(head) <= Top
      /\ Width \in Nat \ {0} /\ Top \in Nat /\ Addresses = 0 .. Top - 1
  BY <1>1, RegionFacts, WidthAssumption DEF Addresses
<1> HIDE DEF n, at, head
<1>4. a \in Nat /\ head.base <= a /\ a + Width <= End(head) /\ a < End(head)
  BY <1>1, <1>2, <1>3
<1>5. ValueAt(a) \subseteq Addresses
  BY <1>3, <1>4 DEF ValueAt
<1>6. a \in Searched
  <2>1. Left(pass.todo) /\ pass.todo # <<>>
    BY DEF WalkInv, InRegion, Walking
  <2> DEFINE i == Len(Walked) - Len(pass.todo) + 1
  <2>2. Len(pass.todo) \in Nat /\ Len(pass.todo) > 0 /\ head = Walked[i]
    BY <2>1, LeftFacts DEF head
  <2>3. Len(Walked) \in Nat /\ Len(pass.todo) <= Len(Walked)
    BY <2>1, SettingFacts DEF Left
  <2>4. i \in 1 .. Len(Walked)
    BY <2>2, <2>3
  <2> HIDE DEF i
  <2> QED
    BY <1>2, <1>4, <2>2, <2>4, SearchedIs
<1>7. Shows(RowAt(a))
  <2> DEFINE row == RowAt(a)
  <2>1. row.address = a /\ row.current = Span(mem, a)
    BY DEF RowAt
  <2> HIDE DEF row
  <2> QED
    BY <1>2, <1>5, <2>1, ShowsNow DEF row
<1> QED
  BY <1>2, <1>4, <1>5, <1>6, <1>7 DEF head

\* The invariant of the walk, of the rows it finds and of the results it narrows.
WInv == SettingInv /\ RowsInv /\ WalkInv /\ FoundInv

\* A window adds its matches: above every row so far, below where the next window begins, and
\* all of them, or the first ones up to the limit.
LEMMA WindowKeeps ==
  ASSUME IInv, SeenInv, WInv, FirstWindow
  PROVE  WInv'
<1> DEFINE n == WindowRead
           w == WindowRows(n)
           rows == w.rows
           new == Len(rows)
           old == Len(pass.out)
           out == pass.out \o rows
           head == Head(pass.todo)
           at == pass.at
<1>1. /\ InRegion /\ Width <= n /\ pass.op = "first" /\ pass.todo # <<>>
      /\ pass' = [pass EXCEPT !.out = @ \o w.rows, !.scanned = @ + w.tested,
                              !.since = (@ + w.tested) % PROGRESS_INTERVAL,
                              !.at = Advance(n),
                              !.todo = IF w.full THEN <<>> ELSE @]
      /\ truncated' = w.full
      /\ UNCHANGED <<layout, scope, mem, history, seen>>
  <2>1. InRegion /\ pass.op = "first" /\ pass.todo # <<>>
    BY DEF FirstWindow, InRegion, Walking
  <2>2. /\ pass' = [pass EXCEPT !.out = @ \o w.rows, !.scanned = @ + w.tested,
                                !.since = (@ + w.tested) % PROGRESS_INTERVAL,
                                !.at = Advance(n),
                                !.todo = IF w.full THEN <<>> ELSE @]
        /\ truncated' = w.full
    BY Zenon DEF FirstWindow
  <2>3. n \in Nat
    BY <2>1, RegionRead DEF WInv
  <2>4. Width <= n
    <3> HIDE DEF n
    <3>1. n >= Width
      BY DEF FirstWindow, n
    <3> QED
      BY <2>3, <3>1, WidthAssumption
  <2> QED
    BY <2>1, <2>2, <2>4 DEF FirstWindow
<1>2. FirstPass(pass) /\ pass # Idle /\ IsSequence(pass.out)
  BY <1>1 DEF IInv, PassInv, NextPass, FirstPass, Idle
<1>3. /\ SettingInv /\ RowsInv /\ WalkInv /\ FoundInv
      /\ scope.align \in Nat \ {0}
      /\ Left(pass.todo) /\ ~truncated /\ old < ResultLimit
      /\ at \in Nat /\ at % scope.align = 0 /\ head.base <= at
      /\ \A i \in 1 .. old : pass.out[i].address < at /\ pass.out[i].address < End(head)
  BY <1>1, SettingFacts DEF WInv, WalkInv
<1>4. n \in Nat /\ at + n <= End(head) /\ head \in Regions /\ End(head) \in Nat
  BY <1>1, <1>3, RegionRead, RegionFacts
<1>5. /\ IsSequence(rows) /\ new \in Nat
      /\ \A k \in 1 .. new : Hit(rows[k].address, n) /\ rows[k] = RowAt(rows[k].address)
      /\ \A i, j \in 1 .. new : i < j => rows[i].address < rows[j].address
      /\ w.full \in BOOLEAN
      /\ w.full <=> old + new >= ResultLimit
      /\ w.full => new > 0
      /\ \A a : Hit(a, n) /\ (w.full => a <= rows[new].address)
                  => \E k \in 1 .. new : rows[k].address = a
  <2> HIDE DEF n
  <2> QED
    BY <1>1, <1>2, <1>3, <1>4, WindowFacts
<1>6. /\ IsSequence(out) /\ Len(out) = old + new /\ old \in Nat
      /\ \A i \in 1 .. old : out[i] = pass.out[i]
      /\ \A i \in 1 .. new : old + i \in 1 .. Len(out) /\ out[old + i] = rows[i]
      /\ \A i \in 1 .. Len(out) : i \in 1 .. old \/ \E j \in 1 .. new : i = old + j
  <2> HIDE DEF w, rows
  <2> DEFINE s == pass.out
  <2>1. IsSequence(s) /\ IsSequence(rows)
    BY <1>2, <1>5
  <2> HIDE DEF s
  <2>2. /\ IsSequence(s \o rows) /\ Len(s \o rows) = Len(s) + Len(rows)
        /\ \A i \in 1 .. Len(s) : (s \o rows)[i] = s[i]
        /\ \A i \in 1 .. Len(rows) :
             Len(s) + i \in 1 .. Len(s \o rows) /\ (s \o rows)[Len(s) + i] = rows[i]
        /\ \A i \in 1 .. Len(s \o rows) : i \in 1 .. Len(s) \/ \E j \in 1 .. Len(rows) : i = Len(s) + j
    BY <2>1, ConcatFacts
  <2>3. Len(s) \in Nat
    BY <2>1, SequenceElim
  <2> QED
    BY <2>2, <2>3 DEF s
<1>7. /\ pass'.op = "first" /\ pass'.out = out /\ pass'.at = Advance(n)
      /\ pass'.todo = (IF w.full THEN <<>> ELSE pass.todo)
      /\ pass'.compare = pass.compare /\ pass'.needle = pass.needle /\ pass' # Idle
  <2> HIDE DEF w, n
  <2> QED
    BY <1>1, <1>2 DEF FirstPass, Idle
<1> DEFINE next == Advance(n)
<1>8. /\ next \in Nat /\ next % scope.align = 0
      /\ at < next /\ at + (n - Width) < next
      /\ \A a \in Nat : a % scope.align = 0 /\ at <= a /\ a < next => a <= at + (n - Width)
  <2> HIDE DEF n
  <2> QED
    BY <1>1, <1>3, <1>4, AdvanceFacts
<1>9. ASSUME NEW k \in 1 .. new
      PROVE  LET a == rows[k].address
             IN /\ a \in Nat /\ a \in Addresses /\ ValueAt(a) \subseteq Addresses /\ a \in Searched
                /\ at <= a /\ a < next /\ a < End(head)
                /\ Shows(rows[k]) /\ rows[k].previous = rows[k].current
                /\ Matches(pass.compare, pass.needle, rows[k].current, rows[k].current)
  <2> DEFINE a == rows[k].address
  <2>1. Hit(a, n) /\ rows[k] = RowAt(a)
    BY <1>5
  <2> HIDE DEF rows, a
  <2>2. /\ a \in Nat /\ a \in Addresses /\ ValueAt(a) \subseteq Addresses /\ a \in Searched
        /\ a < End(head) /\ Shows(RowAt(a))
    BY <1>1, <1>2, <1>3, <2>1, HitFacts
  <2>3. at <= a /\ a <= at + (n - Width)
    BY <2>1 DEF Hit
  <2>4. a < next
    <3> HIDE DEF next, n, at
    <3>1. n - Width \in Int
      BY <1>4, WidthAssumption
    <3> QED
      BY <1>3, <1>8, <2>2, <2>3, <3>1
  <2>5. RowAt(a).previous = Span(mem, a) /\ RowAt(a).current = Span(mem, a)
    BY DEF RowAt
  <2>6. Matches(pass.compare, pass.needle, Span(mem, a), Span(mem, a))
    BY <2>1 DEF Hit
  <2> QED
    BY <2>1, <2>2, <2>3, <2>4, <2>5, <2>6 DEF a
<1> HIDE DEF n, w, rows, new, out, next
<1>10. SettingInv'
  BY <1>1, <1>3 DEF SettingInv
<1>11. /\ \A i \in 1 .. old : /\ pass.out[i].address \in Addresses
                              /\ ValueAt(pass.out[i].address) \subseteq Addresses
                              /\ Shows(pass.out[i])
       /\ \A i, j \in 1 .. old : i < j => pass.out[i].address < pass.out[j].address
       /\ \A i \in 1 .. old : pass.out[i].address \in Nat
  BY <1>2, <1>3, WidthAssumption DEF RowsInv, Placed, Addresses
<1>12. Placed(out)
  <2>1. ASSUME NEW i \in 1 .. Len(out)
        PROVE  out[i].address \in Addresses /\ ValueAt(out[i].address) \subseteq Addresses
    <3>1. CASE i \in 1 .. old
      BY <1>6, <1>11, <3>1
    <3>2. CASE i \notin 1 .. old
      <4>1. PICK j \in 1 .. new : i = old + j
        BY <1>6, <3>2
      <4>2. out[i] = rows[j]
        BY <1>6, <4>1
      <4> QED
        BY <1>9, <4>2
    <3> QED
      BY <3>1, <3>2
  <2>2. ASSUME NEW i \in 1 .. Len(out), NEW j \in 1 .. Len(out), i < j
        PROVE  out[i].address < out[j].address
    <3>1. CASE i \in 1 .. old /\ j \in 1 .. old
      BY <1>6, <1>11, <2>2, <3>1
    <3>2. CASE i \in 1 .. old /\ j \notin 1 .. old
      <4>1. PICK k \in 1 .. new : j = old + k
        BY <1>6, <3>2
      <4>2. out[j].address \in Nat /\ at <= out[j].address
        BY <1>6, <1>9, <4>1
      <4>3. out[i].address \in Nat /\ out[i].address < at
        BY <1>3, <1>6, <1>11, <3>2
      <4> QED
        BY <1>3, <4>2, <4>3
    <3>3. CASE i \notin 1 .. old
      <4>1. PICK k \in 1 .. new : i = old + k
        BY <1>6, <3>3
      <4>2. j \notin 1 .. old
        BY <1>5, <1>6, <2>2, <4>1
      <4>3. PICK l \in 1 .. new : j = old + l
        BY <1>6, <4>2
      <4>4. k < l
        BY <1>5, <1>6, <2>2, <4>1, <4>3
      <4> QED
        BY <1>5, <1>6, <4>1, <4>3, <4>4
    <3> QED
      BY <3>1, <3>2, <3>3
  <2> QED
    BY <2>1, <2>2 DEF Placed
<1>13. \A i \in 1 .. Len(out) : Shows(out[i])
  BY <1>6, <1>9, <1>11
<1>14. RowsInv'
  <2>1. \A i \in 1 .. Len(history) : Placed(history[i].rows)
    BY <1>3 DEF RowsInv
  <2>2. (\A i \in 1 .. Len(history) : Placed(history[i].rows))'
    BY <1>1, <2>1 DEF Placed, ValueAt
  <2>3. Placed(pass'.out)
    BY <1>7, <1>12
  <2>4. (\A i \in 1 .. Len(pass.out) : Shows(pass.out[i]))'
    <3>1. pass'.out = out /\ seen' = seen
      BY <1>1, <1>7
    <3> QED
      BY <1>13, <3>1 DEF Shows
  <2> QED
    BY <2>2, <2>3, <2>4 DEF RowsInv, Placed, ValueAt
<1>15. WalkInv'
  <2>1. Walked' = Walked
    BY <1>1 DEF Walked, Apply
  <2>2. CASE w.full
    <3>1. pass'.todo = <<>>
      BY <1>7, <2>2
    <3>2. Left(<<>>)
      <4>1. <<>> \in Seq(Regions) /\ Len(<<>>) = 0 /\ Len(Walked) \in Nat
        BY <1>3, EmptySeq, SettingFacts
      <4> QED
        BY <4>1 DEF Left
    <3>3. Left(pass.todo)'
      BY <2>1, <3>1, <3>2 DEF Left
    <3> QED
      BY <3>1, <3>3 DEF WalkInv
  <2>3. CASE ~w.full
    <3>1. pass'.todo = pass.todo /\ ~truncated'
      BY <1>1, <1>7, <2>3
    <3>2. Left(pass.todo)'
      BY <1>3, <2>1, <3>1 DEF Left
    <3>3. Len(pass'.out) < ResultLimit
      <4>1. ResultLimit \in Nat /\ ~(old + new >= ResultLimit)
        BY <1>5, <2>3, WidthAssumption
      <4>2. Len(pass'.out) = old + new
        BY <1>6, <1>7
      <4> QED
        BY <1>5, <1>6, <4>1, <4>2
    <3>4. pass'.at \in Nat /\ pass'.at % scope.align = 0 /\ head.base <= pass'.at
      <4>1. head.base \in Nat
        BY <1>4, RegionFacts
      <4> HIDE DEF head, at
      <4> QED
        BY <1>3, <1>7, <1>8, <4>1 DEF next
    <3>5. ASSUME NEW i \in 1 .. Len(out) PROVE out[i].address < next /\ out[i].address < End(head)
      <4>1. CASE i \in 1 .. old
        <5>1. out[i].address \in Nat /\ out[i].address < at /\ out[i].address < End(head)
          BY <1>3, <1>6, <1>11, <4>1
        <5> QED
          BY <1>3, <1>8, <5>1
      <4>2. CASE i \notin 1 .. old
        BY <1>6, <1>9, <4>2
      <4> QED
        BY <4>1, <4>2
    <3> QED
      BY <1>1, <1>7, <3>1, <3>2, <3>3, <3>4, <3>5 DEF WalkInv, next, End
  <2> QED
    BY <1>5, <2>2, <2>3
<1>16. ASSUME NEW i \in 1 .. Len(out)
       PROVE  /\ out[i].address \in Searched /\ out[i].previous = out[i].current
              /\ Matches(pass.compare, pass.needle, out[i].current, out[i].current)
  <2>1. CASE i \in 1 .. old
    <3>1. out[i] = pass.out[i]
      BY <1>6, <2>1
    <3> QED
      BY <1>1, <1>3, <2>1, <3>1 DEF FoundInv
  <2>2. CASE i \notin 1 .. old
    <3>1. PICK j \in 1 .. new : i = old + j
      BY <1>6, <2>2
    <3>2. out[i] = rows[j]
      BY <1>6, <3>1
    <3> QED
      BY <1>9, <3>2
  <2> QED
    BY <2>1, <2>2
<1>17. ASSUME NEW a \in Searched, Passed(a)', Settled(a),
              Matches(pass.compare, pass.needle, Span(mem, a), Span(mem, a))
       PROVE  \E i \in 1 .. Len(out) : out[i].address = a
  <2>1. a \in Nat /\ a \in Addresses /\ a % scope.align = 0
    BY <1>3, Whereabouts
  <2>2. (w.full => a <= rows[new].address) /\ (~w.full => a < next)
    <3>1. CASE w.full
      <4>1. pass'.todo = <<>> /\ truncated'
        BY <1>1, <1>7, <3>1
      <4>2. a <= Last(out).address
        BY <1>7, <1>17, <4>1 DEF Passed
      <4>3. Last(out) = out[old + new] /\ new \in 1 .. new
        BY <1>5, <1>6, <3>1 DEF Last
      <4> QED
        BY <1>6, <3>1, <4>2, <4>3
    <3>2. CASE ~w.full
      <4>1. pass'.todo = pass.todo
        BY <1>7, <3>2
      <4> QED
        BY <1>1, <1>7, <1>17, <3>2, <4>1 DEF Passed, next
    <3> QED
      BY <3>1, <3>2
  <2>3. a < End(head)
    <3>1. CASE w.full
      <4>1. new \in 1 .. new
        BY <1>5, <3>1
      <4>2. rows[new].address \in Nat /\ rows[new].address < End(head)
        BY <1>9, <4>1
      <4> QED
        BY <1>4, <2>1, <2>2, <3>1, <4>2
    <3>2. CASE ~w.full
      <4>1. pass'.todo = pass.todo
        BY <1>7, <3>2
      <4> QED
        BY <1>1, <1>17, <4>1 DEF Passed
    <3> QED
      BY <3>1, <3>2
  <2>4. CASE a < at
    <3>1. Passed(a)
      BY <1>1, <2>3, <2>4 DEF Passed
    <3>2. PICK i \in 1 .. old : pass.out[i].address = a
      BY <1>1, <1>3, <1>17, <3>1 DEF FoundInv
    <3>3. i \in 1 .. Len(out)
      BY <1>5, <1>6
    <3> QED
      BY <1>6, <3>2, <3>3
  <2>5. CASE at <= a
    <3>1. a < next
      <4>1. CASE w.full
        <5>1. new \in 1 .. new
          BY <1>5, <4>1
        <5>2. rows[new].address \in Nat /\ rows[new].address < next
          BY <1>9, <5>1
        <5> QED
          BY <1>8, <2>1, <2>2, <4>1, <5>2
      <4> QED
        BY <2>2, <4>1
    <3>2. a <= at + (n - Width)
      BY <1>8, <2>1, <2>5, <3>1
    <3>3. Hit(a, n)
      BY <1>17, <2>1, <2>5, <3>2 DEF Hit
    <3>4. PICK k \in 1 .. new : rows[k].address = a
      BY <1>5, <2>2, <3>3
    <3> QED
      BY <1>6, <3>4
  <2> QED
    BY <1>3, <2>1, <2>4, <2>5
<1>18. FoundInv'
  <2>1. Searched' = Searched
    BY <1>1 DEF Searched
  <2>2. \A a : Settled(a)' <=> Settled(a)
    BY <1>1 DEF Settled
  <2>3. \A a : Span(mem', a) = Span(mem, a)
    BY <1>1
  <2>4. (\A i \in 1 .. Len(pass.out) :
           /\ pass.out[i].address \in Searched /\ pass.out[i].previous = pass.out[i].current
           /\ Matches(pass.compare, pass.needle, pass.out[i].current, pass.out[i].current))'
    BY <1>7, <1>16, <2>1 DEF Matches
  <2>5. (\A a \in Searched :
           Passed(a) /\ Settled(a) /\ Matches(pass.compare, pass.needle, Span(mem, a), Span(mem, a))
             => \E i \in 1 .. Len(pass.out) : pass.out[i].address = a)'
    BY <1>7, <1>17, <2>1, <2>2, <2>3 DEF Matches
  <2> QED
    BY <2>4, <2>5 DEF FoundInv
<1> QED
  BY <1>10, <1>14, <1>15, <1>18 DEF WInv

\* Leaving a region passes nothing but values that are not settled.
LEMMA RegionEndsKeeps ==
  ASSUME IInv, SeenInv, WInv, FirstRegionEnds
  PROVE  WInv'
<1> DEFINE p == [pass EXCEPT !.todo = Tail(@)]
           tail == Tail(pass.todo)
           head == Head(pass.todo)
<1>1. /\ pass.op = "first" /\ pass.todo # <<>> /\ pass' = Enter(p)
      /\ InRegion => WindowRead < Width
      /\ UNCHANGED <<layout, scope, mem, history, seen, truncated>>
  BY DEF FirstRegionEnds, Walking, LeaveRegion
<1>2. FirstPass(pass) /\ pass # Idle /\ IsSequence(pass.out)
  BY <1>1 DEF IInv, PassInv, NextPass, FirstPass, Idle
<1>3. /\ FirstPass(p) /\ p.todo = tail /\ p.out = pass.out
      /\ p.compare = pass.compare /\ p.needle = pass.needle
  BY <1>2 DEF FirstPass
<1>4. /\ SettingInv /\ RowsInv /\ WalkInv /\ FoundInv
      /\ Left(pass.todo) /\ ~truncated /\ Len(pass.out) < ResultLimit
      /\ \A i \in 1 .. Len(pass.out) :
           pass.out[i].address < pass.at /\ pass.out[i].address < End(head)
  BY <1>1 DEF WInv, WalkInv
<1>5. Left(tail) /\ (tail # <<>> => End(head) <= Head(tail).base)
  BY <1>1, <1>4, LeftFacts
<1> HIDE DEF p, tail
<1>6. /\ FirstPass(pass') /\ pass'.todo = tail /\ pass'.out = pass.out
      /\ pass'.compare = pass.compare /\ pass'.needle = pass.needle
      /\ tail # <<>> =>
           /\ pass'.at \in Nat /\ pass'.at % scope.align = 0 /\ Head(tail).base <= pass'.at
           /\ \A a \in Searched : a < pass'.at => a < Head(tail).base
  BY <1>1, <1>3, <1>4, <1>5, EnterFacts
<1>7. SettingInv'
  BY <1>1, <1>4 DEF SettingInv
<1>8. RowsInv'
  BY <1>1, <1>2, <1>4, <1>6 DEF RowsInv, Placed, ValueAt, Shows
<1>9. WalkInv'
  <2>1. Walked' = Walked
    BY <1>1 DEF Walked, Apply
  <2>2. Left(pass.todo)'
    BY <1>5, <1>6, <2>1 DEF Left
  <2>3. ASSUME tail # <<>>, NEW i \in 1 .. Len(pass.out)
        PROVE  pass.out[i].address < pass'.at /\ pass.out[i].address < End(Head(tail))
    <3> DEFINE a == pass.out[i].address
    <3>1. a \in Nat
      BY <1>2, <1>4, WidthAssumption DEF RowsInv, Placed, Addresses
    <3>2. head \in Regions /\ Head(tail) \in Regions
      BY <1>1, <1>4, <1>5, <2>3, LeftFacts
    <3>3. /\ End(head) \in Nat /\ Head(tail).base \in Nat /\ End(Head(tail)) \in Nat
          /\ Head(tail).base <= End(Head(tail))
      BY <3>2, RegionFacts
    <3>4. a < End(head)
      BY <1>4
    <3> HIDE DEF a, head
    <3> QED
      BY <1>5, <1>6, <2>3, <3>1, <3>3, <3>4 DEF a
  <2> QED
    BY <1>1, <1>4, <1>6, <2>2, <2>3 DEF WalkInv, End
<1>10. ASSUME NEW a \in Searched, Passed(a)', Settled(a) PROVE Passed(a)
  <2>1. tail # <<>> => a < Head(tail).base
    BY <1>6, <1>10 DEF Passed
  <2> QED
    BY <1>1, <1>2, <1>4, <1>10, <2>1, RegionDone DEF tail
<1>11. FoundInv'
  <2>1. Searched' = Searched
    BY <1>1 DEF Searched
  <2>2. \A a : Settled(a)' <=> Settled(a)
    BY <1>1 DEF Settled
  <2>3. \A a : Span(mem', a) = Span(mem, a)
    BY <1>1
  <2>4. (\A i \in 1 .. Len(pass.out) :
           /\ pass.out[i].address \in Searched /\ pass.out[i].previous = pass.out[i].current
           /\ Matches(pass.compare, pass.needle, pass.out[i].current, pass.out[i].current))'
    BY <1>1, <1>4, <1>6, <2>1 DEF FoundInv, Matches
  <2>5. (\A a \in Searched :
           Passed(a) /\ Settled(a) /\ Matches(pass.compare, pass.needle, Span(mem, a), Span(mem, a))
             => \E i \in 1 .. Len(pass.out) : pass.out[i].address = a)'
    BY <1>1, <1>4, <1>6, <1>10, <2>1, <2>2, <2>3 DEF FoundInv, Matches
  <2> QED
    BY <2>4, <2>5 DEF FoundInv
<1> QED
  BY <1>7, <1>8, <1>9, <1>11 DEF WInv

\* Before the first region nothing is searched.
LEMMA FirstScanKeeps ==
  ASSUME IInv, WInv, NEW c, NEW n, FirstScan(c, n)
  PROVE  WInv'
<1> DEFINE p == [op |-> "first", compare |-> c, needle |-> n, todo |-> Walked, at |-> 0,
                 since |-> 0, scanned |-> 0, out |-> <<>>, base |-> Results]
<1>1. /\ pass' = Enter(p) /\ truncated' = FALSE
      /\ UNCHANGED <<layout, scope, history>>
  BY DEF FirstScan, Begins, Walked
<1>2. IsSequence(<<>>) /\ Len(<<>>) = 0
  BY EmptySeq, SequenceIntro
<1>3. FirstPass(p) /\ p.todo = Walked /\ p.out = <<>>
  BY <1>2 DEF FirstPass
<1> HIDE DEF p
<1>4. SettingInv /\ RowsInv
  BY DEF WInv
<1>5. /\ Disjoint(Walked) /\ Walked \in Seq(Regions) /\ Len(Walked) \in Nat
      /\ (Walked = <<>> <=> Len(Walked) = 0)
      /\ \A i \in 1 .. Len(Walked) : Walked[i] \in Regions
  BY <1>4, SettingFacts, EmptySeq DEF Disjoint
<1>6. Left(Walked)
  BY <1>5 DEF Left
<1>7. /\ FirstPass(pass') /\ pass'.todo = Walked /\ pass'.out = <<>>
      /\ Walked # <<>> =>
           /\ pass'.at \in Nat /\ pass'.at % scope.align = 0 /\ Head(Walked).base <= pass'.at
           /\ \A a \in Searched : a < pass'.at => a < Head(Walked).base
  BY <1>1, <1>3, <1>4, <1>6, EnterFacts
<1>8. SettingInv'
  BY <1>1, <1>4 DEF SettingInv
<1>9. RowsInv'
  <2>1. (\A i \in 1 .. Len(history) : Placed(history[i].rows))'
    BY <1>1, <1>4 DEF RowsInv, Placed, ValueAt
  <2>2. Placed(pass.out)' /\ (\A i \in 1 .. Len(pass.out) : Shows(pass.out[i]))'
    BY <1>2, <1>7 DEF Placed
  <2> QED
    BY <2>1, <2>2 DEF RowsInv
<1>10. WalkInv'
  <2>1. Walked' = Walked
    BY <1>1 DEF Walked, Apply
  <2>2. Left(pass.todo)'
    BY <1>6, <1>7, <2>1 DEF Left
  <2>3. Len(pass'.out) < ResultLimit /\ 1 .. Len(pass'.out) = {}
    BY <1>2, <1>7, WidthAssumption
  <2> QED
    BY <1>1, <1>7, <2>2, <2>3 DEF WalkInv
<1>11. FoundInv'
  <2>1. Searched' = Searched
    BY <1>1 DEF Searched
  <2>2. ASSUME NEW a \in Searched, Passed(a)' PROVE FALSE
    <3>1. PICK i \in 1 .. Len(Walked) : Walked[i].base <= a
      BY <1>4, SearchedIs DEF Searched
    <3>2. Walked # <<>> /\ Head(Walked) = Walked[1] /\ 1 \in 1 .. Len(Walked)
      BY <1>5, <3>1
    <3>3. a < Walked[1].base
      BY <1>7, <2>2, <3>2 DEF Passed
    <3>4. /\ Walked[1].base \in Nat /\ End(Walked[1]) \in Nat /\ Walked[i].base \in Nat
          /\ Walked[1].base <= End(Walked[1])
      BY <1>5, <3>2, RegionFacts
    <3>5. Walked[1].base <= Walked[i].base
      <4>1. i = 1 \/ End(Walked[1]) <= Walked[i].base
        BY <1>5, <3>2 DEF Disjoint
      <4> QED
        BY <3>4, <4>1
    <3>6. a \in Nat
      BY WidthAssumption DEF Searched, Addresses
    <3> QED
      BY <3>1, <3>3, <3>4, <3>5, <3>6
  <2>3. 1 .. Len(pass'.out) = {}
    BY <1>2, <1>7
  <2> QED
    BY <2>1, <2>2, <2>3 DEF FoundInv
<1> QED
  BY <1>8, <1>9, <1>10, <1>11 DEF WInv

\* The results a pass works on are in order.
LEMMA ResultsPlaced == HistoryInv /\ RowsInv => Placed(Results)
<1> SUFFICES ASSUME HistoryInv, RowsInv PROVE Placed(Results)
  OBVIOUS
<1>1. CASE history = <<>>
  <2>1. Len(<<>>) = 0
    BY EmptySeq
  <2> QED
    BY <1>1, <2>1 DEF Placed, Results
<1>2. CASE history # <<>>
  <2>1. Len(history) \in 1 .. Len(history)
    BY <1>2, SequenceElim DEF HistoryInv
  <2> QED
    BY <1>2, <2>1 DEF Results, Last, RowsInv
<1> QED
  BY <1>1, <1>2

\* A pass that ends.
LEMMA PushKeepsWalk ==
  ASSUME IInv, WInv, NEW g, Placed(g.rows), history' = PushGeneration(g), pass' = Idle,
         UNCHANGED <<layout, scope>>
  PROVE  WInv'
<1>1. \A i \in 1 .. Len(history') :
        history'[i] = g \/ \E j \in 1 .. Len(history) : history'[i] = history[j]
  BY PushFacts DEF IInv
<1>2. \A i \in 1 .. Len(history') : Placed(history'[i].rows)
  BY <1>1 DEF WInv, RowsInv
<1>3. RowsInv'
  BY <1>2 DEF RowsInv, Placed, ValueAt
<1> QED
  BY <1>3 DEF WInv, SettingInv, WalkInv, FoundInv, Idle

\* A next scan keeps the order of the results it reads again.
LEMMA NextReadsKeeps ==
  ASSUME IInv, SeenInv, ReadInv, WInv, NextReads
  PROVE  WInv'
<1> DEFINE prev == pass.base[pass.at]
           readable == ReadLen(prev.address, Width) >= Width
           matches == Matches(pass.compare, pass.needle, Span(mem, prev.address), prev.current)
           row == NextRow(prev)
           out == IF readable /\ matches THEN Append(pass.out, row) ELSE pass.out
           lost == IF readable THEN pass.unreadable ELSE pass.unreadable + 1
           n == Len(pass.out)
<1>1. /\ pass.op = "next" /\ pass.at <= Len(pass.base)
      /\ pass' = [pass EXCEPT !.at = @ + 1, !.unreadable = lost, !.out = out]
      /\ UNCHANGED <<layout, scope, mem, history, seen>>
  BY DEF NextReads, Rereading
<1>2. NextPass(pass) /\ pass # Idle /\ pass.base = Results /\ IsSequence(pass.out)
  BY <1>1 DEF IInv, PassInv, BaseInv, FirstPass, NextPass, Idle
<1>3. pass'.op = "next" /\ pass'.out = out
  <2> HIDE DEF out, lost
  <2> QED
    BY <1>1, <1>2 DEF NextPass
<1>4. Placed(pass.base) /\ pass.at \in 1 .. Len(pass.base) /\ Len(pass.base) \in Nat
  <2>1. Placed(pass.base) /\ Len(pass.base) \in Nat
    BY <1>2, ResultsPlaced, ResultsSequence, SequenceElim DEF IInv, WInv
  <2> QED
    BY <1>1, <2>1 DEF IInv, NextInv
<1>5. Placed(pass.out) /\ \A i \in 1 .. n : Shows(pass.out[i])
  BY <1>2 DEF WInv, RowsInv
<1>6. /\ row.address = prev.address /\ row.current = Span(mem, prev.address)
      /\ prev.address \in Addresses /\ ValueAt(prev.address) \subseteq Addresses
  BY <1>4 DEF NextRow, Placed
<1>7. Shows(row)
  <2> HIDE DEF row, prev
  <2> QED
    BY <1>2, <1>6, ShowsNow
<1>8. ASSUME NEW i \in 1 .. n PROVE pass.out[i].address < row.address
  <2>1. i \in DOMAIN pass.out
    BY <1>2, SequenceElim
  <2>2. PICK j \in 1 .. pass.at - 1 : pass.base[j].address = pass.out[i].address
    BY <1>1, <2>1 DEF ReadInv, Narrows
  <2>3. j \in 1 .. Len(pass.base) /\ j < pass.at
    BY <1>4
  <2>4. pass.base[j].address < pass.base[pass.at].address
    BY <1>4, <2>3 DEF Placed
  <2> QED
    BY <1>6, <2>2, <2>4
<1>9. /\ IsSequence(Append(pass.out, row)) /\ Len(Append(pass.out, row)) = n + 1 /\ n \in Nat
      /\ \A i \in 1 .. n : Append(pass.out, row)[i] = pass.out[i]
      /\ Append(pass.out, row)[n + 1] = row
  <2> HIDE DEF row
  <2> QED
    BY <1>2, AppendSequence, SequenceElim
<1>10. Placed(out) /\ \A i \in 1 .. Len(out) : Shows(out[i])
  <2>1. CASE out = Append(pass.out, row)
    <3> HIDE DEF out, row
    <3> DEFINE more == Append(pass.out, row)
    <3>1. \A i \in 1 .. n + 1 : i \in 1 .. n \/ i = n + 1
      BY <1>9
    <3>2. ASSUME NEW i \in 1 .. n + 1
          PROVE  /\ more[i].address \in Addresses /\ ValueAt(more[i].address) \subseteq Addresses
                 /\ Shows(more[i])
      <4>1. CASE i \in 1 .. n
        BY <1>5, <1>9, <4>1 DEF Placed
      <4>2. CASE i = n + 1
        BY <1>6, <1>7, <1>9, <4>2
      <4> QED
        BY <3>1, <4>1, <4>2
    <3>3. ASSUME NEW i \in 1 .. n + 1, NEW j \in 1 .. n + 1, i < j
          PROVE  more[i].address < more[j].address
      <4>1. i \in 1 .. n
        BY <1>9, <3>3
      <4>2. CASE j \in 1 .. n
        BY <1>5, <1>9, <3>3, <4>1, <4>2 DEF Placed
      <4>3. CASE j = n + 1
        BY <1>8, <1>9, <4>1, <4>3
      <4> QED
        BY <3>1, <4>2, <4>3
    <3> HIDE DEF more
    <3>4. Len(more) = n + 1 /\ out = more
      BY <1>9, <2>1 DEF more
    <3> QED
      BY <3>2, <3>3, <3>4 DEF Placed
  <2>2. CASE out = pass.out
    BY <1>5, <2>2
  <2> QED
    BY <2>1, <2>2
<1> HIDE DEF out
<1>11. RowsInv'
  <2>1. (\A i \in 1 .. Len(history) : Placed(history[i].rows))'
    BY <1>1 DEF WInv, RowsInv, Placed, ValueAt
  <2>2. Placed(pass.out)'
    BY <1>3, <1>10 DEF Placed, ValueAt
  <2>3. (\A i \in 1 .. Len(pass.out) : Shows(pass.out[i]))'
    <3>1. pass'.out = out /\ seen' = seen
      BY <1>1, <1>3
    <3> QED
      BY <1>10, <3>1 DEF Shows
  <2> QED
    BY <2>1, <2>2, <2>3 DEF RowsInv
<1> QED
  BY <1>1, <1>3, <1>11 DEF WInv, SettingInv, WalkInv, FoundInv

\* The target's changes add to what was seen, and unsettle the values they touch.
LEMMA ChangeKeeps ==
  ASSUME IInv, SeenInv, WInv, NEW x \in Addresses, NEW b, TargetChanges(x, b)
  PROVE  WInv'
<1>1. /\ mem[x] # b /\ mem' = [mem EXCEPT ![x] = b]
      /\ UNCHANGED <<layout, scope, history, truncated, pass>>
  BY DEF TargetChanges
<1>2. SettingInv' /\ Walked' = Walked /\ Searched' = Searched
  BY <1>1 DEF WInv, SettingInv, Walked, Apply, Searched
<1>3. (\A i \in 1 .. Len(history) : Placed(history[i].rows))'
  BY <1>1 DEF WInv, RowsInv, Placed, ValueAt
<1>4. WalkInv'
  BY <1>1, <1>2 DEF WInv, WalkInv, Left, End
<1>5. CASE pass = Idle
  BY <1>1, <1>2, <1>3, <1>5 DEF WInv, RowsInv, WalkInv, FoundInv, Idle
<1>6. CASE pass # Idle
  <2>1. seen' = [seen EXCEPT ![x] = @ \cup {b}]
    BY <1>6 DEF TargetChanges
  <2>2. /\ mem'[x] = b /\ \A c \in Addresses \ {x} : mem'[c] = mem[c]
        /\ seen'[x] = seen[x] \cup {b} /\ \A c \in Addresses \ {x} : seen'[c] = seen[c]
        /\ mem[x] \in seen[x]
    BY <1>1, <1>6, <2>1 DEF SeenInv
  <2>3. \A c \in Addresses : seen[c] \subseteq seen'[c]
    BY <2>2
  <2>4. Placed(pass.out) /\ \A i \in 1 .. Len(pass.out) : Shows(pass.out[i])
    BY <1>6 DEF WInv, RowsInv
  <2>5. ASSUME NEW i \in 1 .. Len(pass.out) PROVE Shows(pass.out[i])'
    <3> DEFINE row == pass.out[i]
    <3>1. Shows(row) /\ row.address \in Addresses /\ ValueAt(row.address) \subseteq Addresses
      BY <2>4 DEF Placed
    <3>2. \A k \in 1 .. Width : row.address + k - 1 \in ValueAt(row.address)
      <4> DEFINE a == row.address
      <4>1. a \in Nat /\ Width \in Nat
        BY <3>1, WidthAssumption DEF Addresses
      <4> HIDE DEF a
      <4>2. \A k \in 1 .. Width : a + k - 1 \in ValueAt(a)
        BY <4>1 DEF ValueAt
      <4> QED
        BY <4>2 DEF a
    <3> QED
      BY <1>1, <2>3, <3>1, <3>2 DEF Shows
  <2>6. RowsInv'
    BY <1>1, <1>3, <2>4, <2>5 DEF RowsInv, Placed, ValueAt
  <2>7. ASSUME pass.op = "first", NEW a \in Searched, Settled(a)'
        PROVE  Settled(a) /\ Span(mem', a) = Span(mem, a)
    <3>1. a \in Addresses /\ a \in Nat /\ Width \in Nat \ {0}
      BY WidthAssumption DEF Searched, Addresses
    <3>2. ValueAt(a) \subseteq Addresses
      <4>1. PICK i \in 1 .. Len(Walked) : a + Width <= End(Walked[i])
        BY <2>7, <3>1, SearchedIs DEF WInv
      <4>2. End(Walked[i]) \in Nat /\ End(Walked[i]) <= Top /\ Top \in Nat
        BY SettingFacts, RegionFacts, WidthAssumption DEF WInv
      <4> QED
        BY <3>1, <4>1, <4>2 DEF ValueAt, Addresses
    <3>3. \A c \in ValueAt(a) : seen'[c] = {mem'[c]}
      BY <2>7 DEF Settled
    <3>4. x \notin ValueAt(a)
      BY <1>1, <2>2, <3>3
    <3>5. \A c \in ValueAt(a) : seen[c] = {mem[c]} /\ mem'[c] = mem[c]
      BY <2>2, <3>2, <3>3, <3>4
    <3>6. ASSUME NEW r \in Range(layout), Held(r, a), NEW c \in r.base .. a + Width - 1
          PROVE  Gone \notin seen[c]
      <4>1. Gone \notin seen'[c]
        BY <1>1, <2>7, <3>6 DEF Settled
      <4>2. c \in Addresses
        <5>1. r \in Regions /\ r.base \in Nat
          <6>1. r \in Regions
            BY SettingFacts, RangeFacts DEF WInv, Disjoint
          <6> QED
            BY <6>1, RegionFacts
        <5>2. a + Width - 1 \in Addresses
          BY <3>1, <3>2 DEF ValueAt
        <5> QED
          BY <3>1, <5>1, <5>2, WidthAssumption DEF Addresses
      <4> QED
        BY <2>3, <4>1, <4>2
    <3>7. Settled(a)
      BY <3>5, <3>6 DEF Settled
    <3>8. \A k \in 1 .. Width : a + k - 1 \in ValueAt(a)
      BY <3>1 DEF ValueAt
    <3>9. Span(mem', a) = Span(mem, a)
      BY <3>5, <3>8 DEF Span
    <3> QED
      BY <3>7, <3>9
  <2>8. FoundInv'
    <3> SUFFICES ASSUME pass.op = "first" PROVE FoundInv'
      BY <1>1 DEF FoundInv
    <3>1. FoundInv
      BY DEF WInv
    <3>2. \A a : Passed(a)' <=> Passed(a)
      BY <1>1 DEF Passed, End
    <3>3. (\A i \in 1 .. Len(pass.out) :
             /\ pass.out[i].address \in Searched /\ pass.out[i].previous = pass.out[i].current
             /\ Matches(pass.compare, pass.needle, pass.out[i].current, pass.out[i].current))'
      BY <1>1, <1>2, <3>1 DEF FoundInv, Matches
    <3>4. (\A a \in Searched :
             Passed(a) /\ Settled(a) /\ Matches(pass.compare, pass.needle, Span(mem, a), Span(mem, a))
               => \E i \in 1 .. Len(pass.out) : pass.out[i].address = a)'
      BY <1>1, <1>2, <2>7, <3>1, <3>2 DEF FoundInv, Matches
    <3> QED
      BY <3>3, <3>4 DEF FoundInv
  <2> QED
    BY <1>2, <1>4, <2>6, <2>8 DEF WInv
<1> QED
  BY <1>5, <1>6

\* Before the first scan.
LEMMA InitWalk == Init => WInv
<1> SUFFICES ASSUME Init PROVE WInv
  OBVIOUS
<1>1. Len(<<>>) = 0
  BY EmptySeq
<1> QED
  BY <1>1 DEF Init, WInv, SettingInv, RowsInv, WalkInv, FoundInv, Idle

\* Every step of the scanner and of its target.
LEMMA StepWalk == IInv /\ SeenInv /\ ReadInv /\ WInv /\ [Next]_vars => WInv'
<1> SUFFICES ASSUME IInv, SeenInv, ReadInv, WInv, [Next]_vars PROVE WInv'
  OBVIOUS
<1>1. CASE UNCHANGED vars
  <2>1. UNCHANGED <<layout, scope, mem, history, truncated, pass, seen>>
    BY <1>1 DEF vars
  <2>2. SettingInv' /\ Walked' = Walked /\ Searched' = Searched
    BY <2>1 DEF WInv, SettingInv, Walked, Apply, Searched
  <2>3. RowsInv'
    BY <2>1 DEF WInv, RowsInv, Placed, ValueAt, Shows
  <2>4. WalkInv'
    BY <2>1, <2>2 DEF WInv, WalkInv, Left, End
  <2>5. FoundInv'
    <3>1. \A a : (Passed(a)' <=> Passed(a)) /\ (Settled(a)' <=> Settled(a))
      BY <2>1 DEF Passed, End, Settled
    <3> QED
      BY <2>1, <2>2, <3>1 DEF WInv, FoundInv, Matches
  <2> QED
    BY <2>2, <2>3, <2>4, <2>5 DEF WInv
<1>2. ASSUME pass' = Idle, UNCHANGED <<layout, scope>>,
             \A i \in 1 .. Len(history') : Placed(history'[i].rows)
      PROVE  WInv'
  BY <1>2 DEF WInv, SettingInv, RowsInv, Placed, ValueAt, WalkInv, FoundInv, Idle
<1>3. \A i \in 1 .. Len(history) : Placed(history[i].rows)
  BY DEF WInv, RowsInv
<1>4. ASSUME Abandon PROVE WInv'
  BY <1>2, <1>3, <1>4 DEF Abandon
<1>5. ASSUME pass.op \in {"first", "next"} PROVE Placed(pass.out)
  BY <1>5 DEF WInv, RowsInv, Idle
<1>6. ASSUME NEW c, NEW n, FirstScan(c, n) PROVE WInv'
  BY <1>6, FirstScanKeeps
<1>7. ASSUME NEW c, NEW n, NextScan(c, n) PROVE WInv'
  <2>1. /\ pass'.op = "next" /\ pass'.out = <<>> /\ UNCHANGED <<layout, scope, history>>
    BY <1>7 DEF NextScan, Begins
  <2>2. Placed(<<>>) /\ Len(<<>>) = 0
    BY EmptySeq DEF Placed
  <2>3. RowsInv'
    BY <1>3, <2>1, <2>2 DEF RowsInv, Placed, ValueAt
  <2> QED
    BY <2>1, <2>3 DEF WInv, SettingInv, WalkInv, FoundInv
<1>8. CASE FirstWindow
  BY <1>8, WindowKeeps
<1>9. CASE FirstRegionEnds
  BY <1>9, RegionEndsKeeps
<1>10. CASE FirstReadFails \/ FirstCancelled \/ NextFails \/ NextCancelled
  BY <1>4, <1>10 DEF FirstReadFails, FirstCancelled, NextFails, NextCancelled
<1>11. CASE FirstCompletes \/ NextCompletes
  <2>1. PICK k : /\ pass.op \in {"first", "next"} /\ pass' = Idle
                 /\ history' = PushGeneration(Generation(pass.out, k))
                 /\ UNCHANGED <<layout, scope>>
    BY <1>11 DEF FirstCompletes, NextCompletes
  <2> DEFINE g == Generation(pass.out, k)
  <2>2. Placed(g.rows)
    BY <1>5, <2>1 DEF Generation
  <2> HIDE DEF g
  <2> QED
    BY <2>1, <2>2, PushKeepsWalk DEF g
<1>12. CASE NextReads
  BY <1>12, NextReadsKeeps
<1>13. CASE Undo
  <2>1. /\ pass' = Idle /\ UNCHANGED <<layout, scope>>
        /\ Len(history) > 1 /\ history' = Front(history)
    BY <1>13 DEF Undo
  <2>2. IsSequence(history) /\ Len(history) \in Nat
    BY SequenceElim DEF IInv, HistoryInv
  <2>3. Len(history') = Len(history) - 1 /\ \A i \in 1 .. Len(history) - 1 : history'[i] = history[i]
    BY <2>1, <2>2, FrontSequence
  <2>4. \A i \in 1 .. Len(history') : Placed(history'[i].rows)
    BY <1>3, <2>2, <2>3
  <2> QED
    BY <1>2, <2>1, <2>4
<1>14. ASSUME NEW a \in Addresses, NEW b, TargetChanges(a, b) PROVE WInv'
  BY <1>14, ChangeKeeps
<1> QED
  BY <1>1, <1>6, <1>7, <1>8, <1>9, <1>10, <1>11, <1>12, <1>13, <1>14 DEF Next, ScanSteps

\* A value that is settled is the one a row of the pass shows.
LEMMA ShownIsThere ==
  ASSUME SeenInv, NEW row, Shows(row), \A b \in ValueAt(row.address) : seen[b] = {mem[b]},
         row.address \in Addresses
  PROVE  row.current = Span(mem, row.address)
<1> DEFINE a == row.address
<1>1. a \in Nat /\ Width \in Nat \ {0}
  BY WidthAssumption DEF Addresses
<1>2. \A k \in 1 .. Width : a + k - 1 \in ValueAt(a)
  <2> HIDE DEF a
  <2> QED
    BY <1>1 DEF ValueAt
<1>3. \A k \in 1 .. Width : row.current[k] = mem[a + k - 1]
  BY <1>2 DEF Shows
<1> QED
  BY <1>3 DEF Shows, Span

\* What a first scan pushes when it completes.
LEMMA FirstExact ==
  ASSUME IInv, SeenInv, WInv, [Next]_vars, pass.op = "first", history' # history
  PROVE  LET rows == Last(history').rows
             found == AddressesOf(rows)
         IN /\ \A i \in 2 .. Len(rows) : rows[i - 1].address < rows[i].address
            /\ found \subseteq Searched
            /\ \A a \in Searched :
                 Settled(a) /\ (truncated => a <= Last(rows).address) =>
                   (a \in found <=> Matches(pass.compare, pass.needle, Span(mem, a), Span(mem, a)))
<1> DEFINE g == Generation(pass.out, 0)
           rows == pass.out
<1>1. FirstPass(pass) /\ pass # Idle
  BY DEF IInv, PassInv, NextPass, FirstPass, Idle
<1>2. FirstCompletes
  BY <1>1
  DEF Next, ScanSteps, vars, FirstScan, NextScan, Begins, FirstWindow, FirstRegionEnds,
      FirstReadFails, FirstCancelled, NextCancelled, Abandon, NextReads, NextFails, NextCompletes,
      Undo, TargetChanges
<1>3. history' = PushGeneration(g) /\ pass.todo = <<>> /\ g.rows = rows
  BY <1>2 DEF FirstCompletes, Generation
<1> HIDE DEF g
<1>4. Last(history') = g
  BY <1>3, PushFacts DEF IInv
<1>5. IsSequence(rows) /\ Len(rows) \in Nat /\ DOMAIN rows = 1 .. Len(rows)
  BY <1>1, SequenceElim DEF FirstPass
<1>6. Placed(rows) /\ (\A i \in 1 .. Len(rows) : Shows(rows[i])) /\ FoundInv
  BY <1>1 DEF WInv, RowsInv
<1>7. ASSUME NEW i \in 2 .. Len(rows) PROVE rows[i - 1].address < rows[i].address
  <2>1. i - 1 \in 1 .. Len(rows) /\ i \in 1 .. Len(rows) /\ i - 1 < i
    BY <1>5
  <2> QED
    BY <1>6, <2>1 DEF Placed
<1>8. AddressesOf(rows) \subseteq Searched
  BY <1>5, <1>6 DEF AddressesOf, FoundInv
<1>9. ASSUME NEW a \in Searched, Settled(a), truncated => a <= Last(rows).address
      PROVE  a \in AddressesOf(rows)
               <=> Matches(pass.compare, pass.needle, Span(mem, a), Span(mem, a))
  <2>1. Passed(a)
    BY <1>3, <1>9 DEF Passed
  <2>2. ASSUME Matches(pass.compare, pass.needle, Span(mem, a), Span(mem, a))
        PROVE  a \in AddressesOf(rows)
    BY <1>5, <1>6, <1>9, <2>1, <2>2 DEF FoundInv, AddressesOf
  <2>3. ASSUME a \in AddressesOf(rows)
        PROVE  Matches(pass.compare, pass.needle, Span(mem, a), Span(mem, a))
    <3>1. PICK i \in 1 .. Len(rows) : rows[i].address = a
      BY <1>5, <2>3 DEF AddressesOf
    <3>2. rows[i].current = Span(mem, a)
      <4>1. \A b \in ValueAt(a) : seen[b] = {mem[b]}
        BY <1>9 DEF Settled
      <4>2. a \in Addresses /\ Shows(rows[i])
        BY <1>6, <3>1 DEF Placed
      <4> QED
        BY <3>1, <4>1, <4>2, ShownIsThere
    <3>3. Matches(pass.compare, pass.needle, rows[i].current, rows[i].current)
      BY <1>6 DEF FoundInv
    <3> QED
      BY <3>2, <3>3
  <2> QED
    BY <2>2, <2>3
<1> QED
  BY <1>3, <1>4, <1>7, <1>8, <1>9

\* What a next scan pushes when it completes: the addresses of its results differ, so a row
\* answers for one of them.
LEMMA NextExact ==
  ASSUME IInv, SeenInv, ReadInv, WInv, [Next]_vars, pass.op = "next", history' # history
  PROVE  LET rows == Last(history').rows
             old == IF history = <<>> THEN <<>> ELSE Last(history).rows
         IN /\ \A i \in DOMAIN rows : \E j \in DOMAIN old :
                 old[j].address = rows[i].address /\ old[j].current = rows[i].previous
            /\ \A j \in DOMAIN old :
                 (\A b \in ValueAt(old[j].address) : seen[b] = {mem[b]} /\ mem[b] # Gone) =>
                   (old[j].address \in AddressesOf(rows)
                      <=> Matches(pass.compare, pass.needle, Span(mem, old[j].address), old[j].current))
<1> DEFINE rows == Last(history').rows
           old == Results
<1>1. NextPass(pass) /\ pass # Idle
  BY DEF IInv, PassInv, FirstPass, Idle
<1>2. NextCompletes
  BY <1>1
  DEF Next, ScanSteps, vars, FirstScan, NextScan, Begins, FirstWindow, InRegion, Walking,
      FirstRegionEnds, FirstReadFails, FirstCancelled, Abandon, FirstCompletes, NextReads,
      NextFails, NextCancelled, Undo, TargetChanges
<1>3. rows = pass.out
  <2> DEFINE g == Generation(pass.out, pass.unreadable)
  <2>1. history' = PushGeneration(g) /\ g.rows = pass.out
    BY <1>2 DEF NextCompletes, Generation
  <2> HIDE DEF g
  <2>2. Last(history') = g
    BY <2>1, PushFacts DEF IInv
  <2> QED
    BY <2>1, <2>2
<1>4. /\ \A i \in DOMAIN rows : Narrows(rows[i], old, Len(old))
      /\ NoneLost(rows, old, Len(old))
  BY PushKeepsRows
<1> HIDE DEF rows
<1>5. Placed(old) /\ Len(old) \in Nat /\ DOMAIN old = 1 .. Len(old)
  BY ResultsPlaced, ResultsSequence, SequenceElim DEF IInv, WInv
<1>6. DOMAIN rows = 1 .. Len(rows) /\ \A i \in 1 .. Len(rows) : Shows(rows[i])
  BY <1>1, <1>3, SequenceElim DEF NextPass, WInv, RowsInv
<1> HIDE DEF old
<1>7. \A i \in DOMAIN rows : \E j \in DOMAIN old :
        old[j].address = rows[i].address /\ old[j].current = rows[i].previous
  BY <1>4, <1>5 DEF Narrows
<1>8. ASSUME NEW j \in DOMAIN old,
             \A b \in ValueAt(old[j].address) : seen[b] = {mem[b]} /\ mem[b] # Gone
      PROVE  old[j].address \in AddressesOf(rows)
               <=> Matches(pass.compare, pass.needle, Span(mem, old[j].address), old[j].current)
  <2> DEFINE a == old[j].address
  <2>1. Stayed(a) /\ a \in Addresses
    BY <1>5, <1>8 DEF Placed, Stayed
  <2>2. ASSUME Matches(pass.compare, pass.needle, Span(mem, a), old[j].current)
        PROVE  a \in AddressesOf(rows)
    BY <1>4, <1>5, <2>1, <2>2 DEF NoneLost, AddressesOf
  <2>3. ASSUME a \in AddressesOf(rows)
        PROVE  Matches(pass.compare, pass.needle, Span(mem, a), old[j].current)
    <3>1. PICK i \in DOMAIN rows : rows[i].address = a
      BY <2>3 DEF AddressesOf
    <3>2. PICK k \in 1 .. Len(old) : /\ old[k].address = a /\ old[k].current = rows[i].previous
      BY <1>4, <3>1 DEF Narrows
    <3>3. Matches(pass.compare, pass.needle, rows[i].current, rows[i].previous)
      BY <1>4 DEF Narrows
    <3>4. k = j
      <4>1. k \in Nat /\ j \in Nat /\ a \in Nat
        BY <1>5, <2>1, WidthAssumption DEF Addresses
      <4>2. (k < j => a < a) /\ (j < k => a < a)
        BY <1>5, <3>2 DEF Placed
      <4> QED
        BY <4>1, <4>2
    <3>5. rows[i].current = Span(mem, a)
      BY <1>6, <1>8, <2>1, <3>1, ShownIsThere
    <3> QED
      BY <3>2, <3>3, <3>4, <3>5
  <2> QED
    BY <2>2, <2>3
<1> QED
  BY <1>7, <1>8 DEF rows, old, Results

\* In every reachable state.
LEMMA AlwaysWalk == Spec => [](SeenInv /\ ReadInv /\ WInv)
BY InitRead, StepRead, InitWalk, StepWalk, AlwaysIInv, PTL DEF Spec

\* For every address space, layout, filter, alignment, width, chunk size, compare and result
\* limit, and whatever the target changes meanwhile: a first scan that completes
\* (Scanner::first_scan) pushes the values it was asked for, in order and once each.
THEOREM FirstScanIsExact == Spec => FirstScanExact
<1>1. IInv /\ SeenInv /\ ReadInv /\ WInv /\ [Next]_vars
        => [pass.op = "first" /\ history' # history =>
              LET rows == Last(history').rows
                  found == AddressesOf(rows)
              IN /\ \A i \in 2 .. Len(rows) : rows[i - 1].address < rows[i].address
                 /\ found \subseteq Searched
                 /\ \A a \in Searched :
                      Settled(a) /\ (truncated => a <= Last(rows).address) =>
                        (a \in found
                           <=> Matches(pass.compare, pass.needle, Span(mem, a), Span(mem, a)))]_vars
  BY FirstExact
<1> QED
  BY <1>1, AlwaysWalk, AlwaysIInv, PTL DEF Spec, FirstScanExact

\* For every history of scans, undos and evictions before it: a next scan that completes
\* (Scanner::next_scan) keeps exactly the results that stayed readable and compare, each
\* with the value the user last saw.
THEOREM NextScanIsExact == Spec => NextScanExact
<1>1. IInv /\ SeenInv /\ ReadInv /\ WInv /\ [Next]_vars
        => [pass.op = "next" /\ history' # history =>
              LET rows == Last(history').rows
                  old == IF history = <<>> THEN <<>> ELSE Last(history).rows
              IN /\ \A i \in DOMAIN rows : \E j \in DOMAIN old :
                      old[j].address = rows[i].address /\ old[j].current = rows[i].previous
                 /\ \A j \in DOMAIN old :
                      (\A b \in ValueAt(old[j].address) : seen[b] = {mem[b]} /\ mem[b] # Gone) =>
                        (old[j].address \in AddressesOf(rows)
                           <=> Matches(pass.compare, pass.needle, Span(mem, old[j].address),
                                       old[j].current))]_vars
  BY NextExact
<1> QED
  BY <1>1, AlwaysWalk, AlwaysIInv, PTL DEF Spec, NextScanExact

-----------------------------------------------------------------------------
(* The panel.                                                              *)

Generations == Seq(Nat \ {0})

\* A Scanner: its value type and its generations.
IsSession(s) == s = [type |-> s.type, gens |-> s.gens] /\ s.gens \in Generations

IsJob(j) ==
  /\ j = [st |-> j.st, kind |-> j.kind, scanner |-> j.scanner, cmp |-> j.cmp, stop |-> j.stop]
  /\ j.st \in {"running", "ok", "failed", "stopped", "panicked"} /\ j.kind \in {"first", "next"}
  /\ IsSession(j.scanner)

PanelInv == HasScan => IsSession(scanner)

NumberInv == scans \in Nat /\ (Scanning => IsJob(scanJob) /\ scans > 0)

\* A Next Scan took the panel's session along, and until it lands with a new generation
\* the table is still that session's, or was emptied by New Scan.  A scan that went
\* well has a generation to show.
JobInv ==
  Scanning =>
    /\ scanJob.kind = "next" =>
         /\ scanner = NoScanner
         /\ scanJob.scanner.gens # <<>>
         /\ scanJob.st # "ok" => \/ snapshot = SnapshotOf(scanJob.scanner)
                                 \/ snapshot = NoRows /\ disowned
    /\ scanJob.kind = "first" /\ scanJob.st # "ok" => scanJob.scanner.gens = <<>>
    /\ scanJob.st = "ok" => scanJob.scanner.gens # <<>>

PanelIInv == PanelInv /\ NumberInv /\ JobInv /\ TableOfSession

-----------------------------------------------------------------------------
(* Generations.                                                            *)

LEMMA GenerationFacts ==
  ASSUME NEW g \in Generations, NEW n \in Nat \ {0}
  PROVE  Append(g, n) \in Generations /\ Append(g, n) # <<>>
BY DEF Generations

LEMMA PopFacts ==
  ASSUME NEW S, NEW g \in Seq(S), Len(g) > 1
  PROVE  Front(g) \in Seq(S) /\ Front(g) # <<>>
<1>1. Len(g) - 1 \in Nat \ {0} /\ \A i \in 1 .. Len(g) - 1 : g[i] \in S
  BY LenProperties, ElementOfSeq
<1>2. Front(g) \in Seq(S) /\ Len(Front(g)) = Len(g) - 1
  BY <1>1, SubSeqProperties DEF Front
<1> QED
  BY <1>1, <1>2

\* The snapshot of a session that has scanned is not the empty table.
LEMMA SnapshotShows ==
  ASSUME NEW s, IsSession(s), s.gens # <<>>
  PROVE  SnapshotOf(s) # NoRows
<1>1. Last(s.gens) \in Nat \ {0}
  BY DEF IsSession, Generations, Last
<1> QED
  BY <1>1 DEF SnapshotOf, NoRows

-----------------------------------------------------------------------------
LEMMA PanelInitInv == ScanInit => PanelIInv
BY DEF ScanInit, PanelIInv, PanelInv, NumberInv, JobInv, TableOfSession, HasScan, Scanning

LEMMA PanelStepInv == PanelIInv /\ [ScanNext]_scanVars => PanelIInv'
<1> SUFFICES ASSUME PanelIInv, [ScanNext]_scanVars PROVE PanelIInv'
  OBVIOUS
<1> USE DEF HasScan, Scanning
<1>1. ASSUME UNCHANGED <<scanner, scanJob, snapshot, disowned>>, scans' = scans
      PROVE  PanelIInv'
  BY <1>1 DEF PanelIInv, PanelInv, NumberInv, JobInv, TableOfSession, IsJob, IsSession, SnapshotOf
<1>2. CASE UNCHANGED scanVars
  BY <1>1, <1>2 DEF scanVars
<1>3. ASSUME NEW t \in ScanTypes, PickType(t) PROVE PanelIInv'
  BY <1>1, <1>3 DEF PickType, PanelOp
<1>4. ASSUME NEW c, PickCompare(c) PROVE PanelIInv'
  BY <1>1, <1>4 DEF PickCompare, PanelOp
<1>5. ASSUME NEW m, TickModule(m) PROVE PanelIInv'
  BY <1>1, <1>5 DEF TickModule, PanelOp
<1>6. ASSUME NEW f, NEW loaded, NEW typed, DoFirstScan(f, loaded, typed) PROVE PanelIInv'
  <2> DEFINE s == [type |-> valueType, gens |-> <<>>]
  <2>1. IsSession(s)
    BY DEF IsSession, Generations
  <2>2. /\ scanJob' = [st |-> "running", kind |-> "first", scanner |-> s, cmp |-> compare,
                       stop |-> FALSE]
        /\ scans' = scans + 1
        /\ UNCHANGED <<scanner, snapshot, disowned>>
    BY <1>6 DEF DoFirstScan, Spawn
  <2>3. s.gens = <<>>
    OBVIOUS
  <2> HIDE DEF s
  <2>4. IsJob(scanJob') /\ scanJob'.scanner = s
    BY <2>1, <2>2 DEF IsJob
  <2> QED
    BY <2>2, <2>3, <2>4
    DEF PanelIInv, PanelInv, NumberInv, JobInv, TableOfSession, NoScan, IsSession, SnapshotOf
<1>7. ASSUME NEW typed, DoNextScan(typed) PROVE PanelIInv'
  <2>1. /\ scanJob' = [st |-> "running", kind |-> "next", scanner |-> scanner, cmp |-> compare,
                       stop |-> FALSE]
        /\ scans' = scans + 1 /\ scanner' = NoScanner
        /\ UNCHANGED <<snapshot, disowned>> /\ scanner # NoScanner
    BY <1>7 DEF DoNextScan, Spawn
  <2>2. IsSession(scanner) /\ scanner.gens # <<>>
    BY <2>1 DEF PanelIInv, PanelInv, TableOfSession
  <2>3. IsJob(scanJob') /\ scanJob'.scanner = scanner
    BY <2>1, <2>2 DEF IsJob
  <2> QED
    BY <2>1, <2>2, <2>3 DEF PanelIInv, PanelInv, NumberInv, JobInv, TableOfSession, NoScan, SnapshotOf
<1>8. CASE StopScan
  <2>1. /\ scanJob.st = "running" /\ scanJob' = [scanJob EXCEPT !.stop = TRUE]
        /\ UNCHANGED <<scanner, snapshot, disowned, scans>>
    BY <1>8 DEF StopScan, PanelOp
  <2>2. CASE Scanning
    <3>1. IsJob(scanJob)
      BY <2>2 DEF PanelIInv, NumberInv
    <3>2. /\ IsJob(scanJob') /\ scanJob'.st = scanJob.st /\ scanJob'.kind = scanJob.kind
          /\ scanJob'.scanner = scanJob.scanner
      BY <2>1, <3>1 DEF IsJob
    <3> QED
      BY <2>1, <2>2, <3>2
      DEF PanelIInv, PanelInv, NumberInv, JobInv, TableOfSession, IsSession, SnapshotOf
  <2>3. CASE ~Scanning
    BY <2>1, <2>3 DEF NoScan
  <2> QED
    BY <2>2, <2>3
<1>9. CASE DoUndo
  <2> DEFINE s == [scanner EXCEPT !.gens = Front(@)]
  <2>1. /\ Len(scanner.gens) > 1
        /\ scanner' = s /\ snapshot' = SnapshotOf(s)
        /\ UNCHANGED <<scanJob, disowned, scans>>
    BY <1>9 DEF DoUndo, PanelOp
  <2>2. HasScan
    BY <2>1 DEF NoScanner
  <2>3. IsSession(scanner)
    BY <2>2 DEF PanelIInv, PanelInv
  <2>4. Front(scanner.gens) \in Generations /\ Front(scanner.gens) # <<>>
    BY <2>1, <2>3, PopFacts DEF IsSession, Generations
  <2>5. s = [type |-> scanner.type, gens |-> Front(scanner.gens)]
    BY <2>3 DEF IsSession
  <2> HIDE DEF s
  <2>6. IsSession(s) /\ s.gens # <<>>
    BY <2>4, <2>5 DEF IsSession
  <2>7. SnapshotOf(s) # NoRows
    BY <2>6, SnapshotShows
  <2>8. Scanning => scanJob.kind = "first"
    BY <2>2 DEF PanelIInv, JobInv, NumberInv, IsJob
  <2> QED
    BY <2>1, <2>6, <2>7, <2>8
    DEF PanelIInv, PanelInv, NumberInv, JobInv, TableOfSession, IsJob, IsSession, SnapshotOf
<1>10. CASE NewScan
  BY <1>10 DEF NewScan, PanelOp, PanelIInv, PanelInv, NumberInv, JobInv, TableOfSession, IsJob,
               IsSession, SnapshotOf
<1>11. ASSUME NEW how \in {"ok", "failed", "stopped", "panicked"}, ScanEnds(how) PROVE PanelIInv'
  <2>1. /\ scanJob.st = "running"
        /\ scanJob' = [scanJob EXCEPT !.st = how,
                         !.scanner.gens = IF how = "ok" THEN Append(@, scans) ELSE @]
        /\ UNCHANGED <<scanner, snapshot, disowned, scans>>
    BY <1>11 DEF ScanEnds
  <2>2. CASE Scanning
    <3>1. IsJob(scanJob) /\ IsSession(scanJob.scanner) /\ scans \in Nat \ {0}
      BY <2>2 DEF PanelIInv, NumberInv, IsJob
    <3> DEFINE g == scanJob.scanner.gens
               h == IF how = "ok" THEN Append(g, scans) ELSE g
    <3>2. g \in Generations
      BY <3>1 DEF IsSession
    <3>3. h \in Generations /\ (how = "ok" => h # <<>>) /\ (how # "ok" => h = g)
      BY <3>1, <3>2, GenerationFacts
    <3>4. /\ scanJob' = [st |-> how, kind |-> scanJob.kind, cmp |-> scanJob.cmp,
                         scanner |-> [type |-> scanJob.scanner.type, gens |-> h],
                         stop |-> scanJob.stop]
          /\ how # "ok" => scanJob'.scanner = scanJob.scanner
      BY <2>1, <3>1 DEF IsJob, IsSession
    <3>5. IsJob(scanJob')
      BY <3>1, <3>3, <3>4 DEF IsJob, IsSession
    <3> HIDE DEF h
    <3>6. scanJob'.st = how /\ scanJob'.kind = scanJob.kind /\ scanJob'.scanner.gens = h
      BY <3>4
    <3>7. JobInv'
      BY <2>1, <2>2, <3>3, <3>4, <3>6 DEF PanelIInv, JobInv, SnapshotOf
    <3> QED
      BY <2>1, <2>2, <3>5, <3>7 DEF PanelIInv, PanelInv, NumberInv, TableOfSession, IsSession, SnapshotOf
  <2>3. CASE ~Scanning
    BY <2>1, <2>3 DEF NoScan
  <2> QED
    BY <2>2, <2>3
<1>12. CASE PollScan
  <2>1. Scanning
    BY <1>12 DEF PollScan, NoScan
  <2>2. scanJob' = NoScan /\ scans' = scans /\ disowned' = (disowned /\ scanJob.st # "ok")
    BY <1>12 DEF PollScan
  <2> DEFINE s == scanJob.scanner
  <2>3. IsSession(s) /\ (s.gens # <<>> => SnapshotOf(s) # NoRows)
    BY <2>1, SnapshotShows DEF PanelIInv, NumberInv, IsJob
  <2>4. CASE scanJob.st = "panicked"
    BY <1>12, <2>2, <2>4
    DEF PollScan, PanelIInv, PanelInv, NumberInv, JobInv, TableOfSession, IsSession, SnapshotOf
  <2>5. CASE scanJob.st = "ok"
    <3>1. scanner' = s /\ snapshot' = SnapshotOf(s)
      BY <1>12, <2>5 DEF PollScan
    <3>2. s.gens # <<>>
      BY <2>1, <2>5 DEF PanelIInv, JobInv
    <3> HIDE DEF s
    <3> QED
      BY <2>2, <2>3, <3>1, <3>2
      DEF PanelIInv, PanelInv, NumberInv, JobInv, TableOfSession, IsSession, SnapshotOf
  <2>6. CASE scanJob.st \notin {"ok", "panicked"} /\ s.gens = <<>>
    <3>1. scanner' = NoScanner
      BY <1>12, <2>6 DEF PollScan, LandFailed
    <3> QED
      BY <2>2, <3>1 DEF PanelIInv, PanelInv, NumberInv, JobInv, TableOfSession
  <2>7. CASE scanJob.st \notin {"ok", "panicked"} /\ s.gens # <<>>
    <3>1. scanner' = s /\ snapshot' = snapshot /\ (disowned' <=> disowned)
      BY <1>12, <2>2, <2>7 DEF PollScan, LandFailed
    <3>2. snapshot = SnapshotOf(s) \/ (snapshot = NoRows /\ disowned)
      <4>1. scanJob.kind = "next" /\ scanJob.st # "ok"
      BY <2>1, <2>7 DEF PanelIInv, NumberInv, JobInv, IsJob
    <4> QED
      BY <2>1, <4>1 DEF PanelIInv, JobInv
    <3> HIDE DEF s
    <3> QED
      BY <2>2, <2>3, <2>7, <3>1, <3>2
      DEF PanelIInv, PanelInv, NumberInv, JobInv, TableOfSession, IsSession, SnapshotOf
  <2> QED
    BY <2>4, <2>5, <2>6, <2>7
<1>13. CASE RefreshLive
  BY <1>1, <1>13 DEF RefreshLive
<1>14. CASE FreezeResult
  BY <1>1, <1>14 DEF FreezeResult, PanelOp
<1>15. CASE DetachScanner
  BY <1>15 DEF DetachScanner, PanelOp, PanelIInv, PanelInv, NumberInv, JobInv, TableOfSession
<1>16. CASE AttachScanner
  BY <1>1, <1>16 DEF AttachScanner, PanelOp
<1> QED
  BY <1>2, <1>3, <1>4, <1>5, <1>6, <1>7, <1>8, <1>9, <1>10, <1>11, <1>12, <1>13, <1>14, <1>15,
     <1>16
  DEF ScanNext

\* In every reachable state of the panel the inductive invariant holds: a Scanner is on
\* the panel or in the job and never in both, and a job that has not landed carries what
\* the table shows (do_next_scan, poll).
THEOREM PanelAlwaysIInv == ScanSpec => []PanelIInv
BY PanelInitInv, PanelStepInv, PTL DEF ScanSpec

\* For every number of scans, New Scans, Stops, Undos, detaches and failed or panicking
\* workers: the table on screen is the newest generation of the session on the panel.
THEOREM TableFollows == ScanSpec => []TableOfSession
<1>1. PanelIInv => TableOfSession
  BY DEF PanelIInv
<1> QED
  BY <1>1, PanelAlwaysIInv, PTL
=============================================================================
