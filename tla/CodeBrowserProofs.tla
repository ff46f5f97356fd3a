------------------------- MODULE CodeBrowserProofs --------------------------
(***************************************************************************)
(* Proofs about CodeBrowser, for any modules, regions and code, any chunk  *)
(* and listing size and any number of operations.                          *)
(*                                                                         *)
(* The decoders are recursive functions of the address.  What they compute *)
(* is shown by induction from the end of the buffer (DownInduction), which *)
(* rests on the least element of a set of numbers: a fact about sets, so   *)
(* the provers need no operator as a parameter.                            *)
(*                                                                         *)
(* ListingExact is not inductive: to add rows one has to know where the    *)
(* listing goes on, and that nothing decodes between its last row and that *)
(* address; to tear a row, that rows do not overlap (ListingInv).  The     *)
(* navigator may be behind the dissects but is never ahead of them         *)
(* (NavInv), so a new epoch cannot meet lists that already bear it.        *)
(* DissectExact says what a job is to have found when it lands.  Midway    *)
(* each interval left is the rest of a region, decoded as the whole region *)
(* would be from there on, and what a module that stayed makes is found or *)
(* still to come (JobInv).  The rest decodes like the region because a     *)
(* chunk stops where a plain decode has an instruction's start.            *)
(***************************************************************************)
EXTENDS CodeBrowser, SequenceTheorems, WellFoundedInduction, TLAPS

-----------------------------------------------------------------------------
(* Induction over intervals, and the functions it justifies.               *)

\* A set of naturals has a least element.
LEMMA Least ==
  ASSUME NEW T \in SUBSET Nat, T # {}
  PROVE  \E x \in T : \A y \in T : x <= y
<1>1. PICK x \in T : \A y \in T : ~(<<y, x>> \in OpToRel(<, Nat))
  BY WFMin, NatLessThanWellFounded
<1>2. \A y \in T : ~ (y < x)
  BY <1>1 DEF OpToRel
<1> QED
  BY <1>2

\* What holds at a when it holds at all later points holds on the interval.
LEMMA DownInduction ==
  ASSUME NEW lo \in Nat, NEW hi \in Nat, NEW S,
         \A a \in lo .. hi : (\A b \in a + 1 .. hi : b \in S) => a \in S
  PROVE  lo .. hi \subseteq S
<1> SUFFICES ASSUME lo .. hi \ S # {} PROVE FALSE
  OBVIOUS
<1> DEFINE T == {hi - a : a \in lo .. hi \ S}
<1>1. T \in SUBSET Nat /\ T # {}
  OBVIOUS
<1>2. PICK x \in T : \A y \in T : x <= y
  BY <1>1, Least
<1>3. PICK a \in lo .. hi \ S : x = hi - a
  BY <1>2
<1>4. ASSUME NEW b \in a + 1 .. hi, b \notin S PROVE FALSE
  <2>1. hi - b \in T
    BY <1>3, <1>4
  <2>2. x <= hi - b
    <3> HIDE DEF T
    <3> QED
      BY <1>2, <2>1
  <2> QED
    BY <1>3, <1>4, <2>2
<1> QED
  BY <1>3, <1>4

\* The equation of a decoder: nothing where it halts, else what it decodes here and
\* what follows at a later address.
DecoderEq(f, lo, hi, halt, head, next) ==
  f = [a \in lo .. hi |-> IF a \in halt THEN <<>> ELSE head[a] \o f[next[a]]]

\* It has a solution, and solutions are sequences.
LEMMA Unfolds ==
  ASSUME NEW lo \in Nat, NEW hi \in Nat, NEW T, NEW halt, NEW head, NEW next,
         \A a \in lo .. hi \ halt : head[a] \in Seq(T) /\ next[a] \in a + 1 .. hi
  PROVE  /\ \E f : DecoderEq(f, lo, hi, halt, head, next)
         /\ \A f : DecoderEq(f, lo, hi, halt, head, next) => f \in [lo .. hi -> Seq(T)]
<1> USE DEF DecoderEq
<1> DEFINE Eq(f, l) == DecoderEq(f, l, hi, halt, head, next)
           E == {l \in lo .. hi : \E f : Eq(f, l)}
<1>1. ASSUME NEW l \in lo .. hi, \A m \in l + 1 .. hi : m \in E PROVE l \in E
  <2>1. PICK g : l < hi => Eq(g, l + 1)
    <3>1. CASE l < hi
      <4>1. l + 1 \in E
        <5> HIDE DEF E
        <5> QED
          BY <1>1, <3>1
      <4> QED
        BY <4>1
    <3> QED
      BY <3>1
  <2> DEFINE h == [a \in l .. hi |-> IF a \in halt THEN <<>> ELSE head[a] \o g[next[a]]]
  <2>2. ASSUME NEW a \in l .. hi \ halt PROVE h[next[a]] = g[next[a]]
    <3>1. next[a] \in l + 1 .. hi /\ l < hi
      BY <2>2
    <3>2. g[next[a]] = IF next[a] \in halt THEN <<>> ELSE head[next[a]] \o g[next[next[a]]]
      BY <2>1, <3>1
    <3> QED
      BY <3>1, <3>2
  <2>3. h = [a \in l .. hi |-> IF a \in halt THEN <<>> ELSE head[a] \o h[next[a]]]
    BY <2>2
  <2> QED
    BY <2>3
<1>2. lo .. hi \subseteq E
  <2> HIDE DEF E
  <2> QED
    BY <1>1, DownInduction
<1>3. \E f : Eq(f, lo)
  <2>1. CASE lo \in lo .. hi
    BY <1>2, <2>1
  <2>2. CASE lo \notin lo .. hi
    <3>1. lo .. hi = {}
      BY <2>2
    <3>2. Eq([a \in lo .. hi |-> <<>>], lo)
      BY <3>1
    <3> QED
      BY <3>2
  <2> QED
    BY <2>1, <2>2
<1>4. ASSUME NEW f, Eq(f, lo) PROVE f \in [lo .. hi -> Seq(T)]
  <2> DEFINE S == {a \in lo .. hi : f[a] \in Seq(T)}
  <2>1. ASSUME NEW a \in lo .. hi, \A b \in a + 1 .. hi : b \in S PROVE a \in S
    <3>1. f[a] = IF a \in halt THEN <<>> ELSE head[a] \o f[next[a]]
      BY <1>4
    <3>2. CASE a \in halt
      <4>1. f[a] = <<>>
        BY <3>1, <3>2
      <4>2. <<>> \in Seq(T)
        BY EmptySeq
      <4> QED
        BY <4>1, <4>2
    <3>3. CASE a \notin halt
      <4>1. head[a] \in Seq(T) /\ f[next[a]] \in Seq(T)
        BY <2>1, <3>3
      <4>2. f[a] = head[a] \o f[next[a]]
        BY <3>1, <3>3
      <4>3. head[a] \o f[next[a]] \in Seq(T)
        BY <4>1, ConcatProperties
      <4> QED
        BY <4>2, <4>3
    <3> QED
      BY <3>2, <3>3
  <2>2. lo .. hi \subseteq S
    <3> HIDE DEF S
    <3> QED
      BY <2>1, DownInduction
  <2> QED
    BY <1>4, <2>2
<1> QED
  BY <1>3, <1>4

-----------------------------------------------------------------------------
(* Decoding: a chunked dissect sees the instructions of a plain decode.    *)

Rows == [at : Nat, len : Nat]
Covered(table, start, end) == \A a \in start .. end - 1 : table[a] \in 0 .. Overlap

\* The smaller of two numbers.
LEMMA MinOfTwo ==
  ASSUME NEW x \in Nat, NEW y \in Nat
  PROVE  Min({x, y}) = IF x <= y THEN x ELSE y
  BY DEF Min

\* The equation of DecodeUntil, for a plain decode and for a chunk.
UntilEq(f, table, start, stop, end) ==
  f = [a \in start .. end |->
         IF a >= stop THEN <<>>
         ELSE <<Insn(a, Step(table, a, end))>> \o f[a + Step(table, a, end)]]

\* An instruction ends inside the buffer it is decoded from.
LEMMA StepInBuffer ==
  ASSUME NEW table, NEW a \in Nat, NEW end \in Nat, a < end, table[a] \in Nat
  PROVE  Step(table, a, end) \in Nat /\ a + Step(table, a, end) \in a + 1 .. end
  BY DEF Step

\* DecodeUntil is a solution of its equation.
LEMMA DecodeUntilUnfolds ==
  ASSUME NEW table, NEW start \in Nat, NEW stop \in Nat, NEW end \in Nat, stop <= end,
         \A a \in start .. stop - 1 : table[a] \in Nat
  PROVE  \E f \in [start .. end -> Seq(Rows)] :
           UntilEq(f, table, start, stop, end) /\ f[start] = DecodeUntil(table, start, stop, end)
<1> DEFINE halt == stop .. end
           head == [a \in start .. end |-> <<Insn(a, Step(table, a, end))>>]
           next == [a \in start .. end |-> a + Step(table, a, end)]
           F == CHOOSE f : f = [a \in start .. end |->
                  IF a >= stop THEN <<>>
                  ELSE <<Insn(a, Step(table, a, end))>> \o f[a + Step(table, a, end)]]
<1>1. ASSUME NEW a \in start .. end \ halt
      PROVE  head[a] \in Seq(Rows) /\ next[a] \in a + 1 .. end
  <2>1. a < stop /\ table[a] \in Nat
    BY <1>1
  <2>2. Step(table, a, end) \in Nat /\ a + Step(table, a, end) \in a + 1 .. end
    BY <2>1, StepInBuffer
  <2>3. Insn(a, Step(table, a, end)) \in Rows
    BY <2>2 DEF Insn, Rows
  <2> QED
    BY <2>2, <2>3
<1>2. \A f : UntilEq(f, table, start, stop, end) <=> DecoderEq(f, start, end, halt, head, next)
  BY DEF UntilEq, DecoderEq
<1>3. /\ \E f : UntilEq(f, table, start, stop, end)
      /\ \A f : UntilEq(f, table, start, stop, end) => f \in [start .. end -> Seq(Rows)]
  <2> HIDE DEF halt, head, next
  <2>1. /\ \E f : DecoderEq(f, start, end, halt, head, next)
        /\ \A f : DecoderEq(f, start, end, halt, head, next) => f \in [start .. end -> Seq(Rows)]
    BY <1>1, Unfolds
  <2> QED
    BY <1>2, <2>1
<1>4. UntilEq(F, table, start, stop, end)
  BY <1>3 DEF UntilEq
<1>5. DecodeUntil(table, start, stop, end) = F[start]
  BY DEF DecodeUntil
<1> QED
  <2> HIDE DEF F
  <2> QED
    BY <1>3, <1>4, <1>5

\* What f is at an address.
LEMMA UntilAt ==
  ASSUME NEW f, NEW table, NEW start \in Nat, NEW stop \in Nat, NEW end \in Nat,
         UntilEq(f, table, start, stop, end), NEW a \in start .. end
  PROVE  f[a] = IF a >= stop THEN <<>>
                ELSE <<Insn(a, Step(table, a, end))>> \o f[a + Step(table, a, end)]
  BY DEF UntilEq

\* All rows start before a.
Before(rows, a) == \A i \in Range(rows) : i.at < a

\* The rows of one more row and the others.
LEMMA RangeCons ==
  ASSUME NEW T, NEW x \in T, NEW s \in Seq(T)
  PROVE  Range(<<x>> \o s) = {x} \cup Range(s)
<1> DEFINE one == <<x>>
<1>1. one \in Seq(T) /\ Range(one) = {x}
  BY DEF Range
<1> HIDE DEF one
<1>2. Range(one \o s) = Range(one) \cup Range(s)
  BY <1>1, RangeConcatenation
<1> QED
  BY <1>1, <1>2 DEF one

\* A chunk decodes as the whole region does, up to where the next chunk starts: an
\* instruction that starts before its end fits in the overlap.
LEMMA ChunkDecodesPlainly ==
  ASSUME NEW table, NEW start \in Nat, NEW end \in Nat, Covered(table, start, end),
         NEW D \in [start .. end -> Seq(Rows)], UntilEq(D, table, start, end, end),
         NEW pos \in start .. end, pos < end
  PROVE  /\ DissectChunk(table, pos, end) \in Seq(Rows)
         /\ EndOf(Last(DissectChunk(table, pos, end))) \in pos + 1 .. end
         /\ Before(DissectChunk(table, pos, end), EndOf(Last(DissectChunk(table, pos, end))))
         /\ D[pos] = DissectChunk(table, pos, end) \o D[EndOf(Last(DissectChunk(table, pos, end)))]
<1> DEFINE want == Min({end, pos + ChunkBytes})
           buf == ReadEnd(pos, end)
<1>1. ChunkBytes \in Nat \ {0} /\ Overlap \in Nat \ {0}
  BY CodeBrowserAssumption
<1>0. pos \in Nat /\ pos + ChunkBytes \in Nat /\ pos + ChunkBytes + Overlap \in Nat
  BY <1>1
<1>2. /\ want \in Nat /\ buf \in Nat /\ pos < want /\ want <= buf /\ buf <= end
      /\ buf < end => buf = pos + ChunkBytes + Overlap /\ want = pos + ChunkBytes
  <2>1. want = IF end <= pos + ChunkBytes THEN end ELSE pos + ChunkBytes
    BY <1>0, MinOfTwo
  <2>2. buf = IF end <= pos + ChunkBytes + Overlap THEN end ELSE pos + ChunkBytes + Overlap
    BY <1>0, MinOfTwo DEF ReadEnd
  <2> HIDE DEF want, buf
  <2> QED
    BY <1>0, <1>1, <2>1, <2>2
<1> HIDE DEF want, buf
<1>3. \A a \in start .. end - 1 : table[a] \in Nat /\ table[a] <= Overlap
  BY <1>1 DEF Covered
<1>4. PICK U \in [pos .. buf -> Seq(Rows)] :
        UntilEq(U, table, pos, want, buf) /\ U[pos] = DecodeUntil(table, pos, want, buf)
  <2>1. \A a \in pos .. want - 1 : table[a] \in Nat
    BY <1>0, <1>2, <1>3
  <2> QED
    BY <1>0, <1>2, <2>1, DecodeUntilUnfolds
<1> DEFINE S == {a \in pos .. want - 1 : /\ EndOf(Last(U[a])) \in a + 1 .. end /\ U[a] # <<>>
                                         /\ Before(U[a], EndOf(Last(U[a])))
                                         /\ D[a] = U[a] \o D[EndOf(Last(U[a]))]}
<1>5. ASSUME NEW a \in pos .. want - 1, \A b \in a + 1 .. want - 1 : b \in S PROVE a \in S
  <2> DEFINE len == Step(table, a, end)
  <2>1. /\ a \in Nat /\ a < want /\ a < end /\ a \in start .. end /\ a \in pos .. buf
        /\ table[a] \in Nat /\ table[a] <= Overlap
    BY <1>0, <1>2, <1>3
  <2>2. Step(table, a, buf) = len
    BY <1>0, <1>1, <1>2, <2>1 DEF Step
  <2>3. /\ len \in Nat /\ a + len \in Nat /\ a < a + len
        /\ a + len \in start .. end /\ a + len \in pos .. buf
    <3>1. len \in Nat /\ a + len \in a + 1 .. end
      BY <2>1, StepInBuffer
    <3>2. a < buf
      BY <1>2, <2>1
    <3>3. a + len \in a + 1 .. buf
      BY <1>2, <2>1, <2>2, <3>2, StepInBuffer
    <3> HIDE DEF len
    <3> QED
      BY <1>0, <2>1, <3>1, <3>3
  <2> HIDE DEF len
  <2>4. Insn(a, len) \in Rows /\ EndOf(Insn(a, len)) = a + len
    BY <2>1, <2>3 DEF Insn, EndOf, Rows
  <2>5. D[a] = <<Insn(a, len)>> \o D[a + len]
    <3>1. ~(a >= end)
      BY <2>1
    <3>2. D[a] = IF a >= end THEN <<>>
                 ELSE <<Insn(a, Step(table, a, end))>> \o D[a + Step(table, a, end)]
      BY <2>1 DEF UntilEq
    <3> QED
      BY <3>1, <3>2 DEF len
  <2>6. U[a] = <<Insn(a, len)>> \o U[a + len]
    <3>1. ~(a >= want)
      BY <1>2, <2>1
    <3>2. U[a] = IF a >= want THEN <<>>
                 ELSE <<Insn(a, Step(table, a, buf))>> \o U[a + Step(table, a, buf)]
      BY <1>4, <2>1 DEF UntilEq
    <3> QED
      BY <2>2, <3>1, <3>2
  <2>7. U[a] \in Seq(Rows) /\ U[a + len] \in Seq(Rows) /\ D[a + len] \in Seq(Rows)
    BY <2>1, <2>3
  <2>8. CASE a + len >= want
    <3>1. U[a + len] = <<>>
      BY <1>0, <1>2, <1>4, <2>3, <2>8, UntilAt
    <3>2. U[a] = <<Insn(a, len)>>
      BY <2>4, <2>6, <3>1
    <3>3. Last(U[a]) = Insn(a, len)
      BY <3>2 DEF Last
    <3>4. EndOf(Last(U[a])) = a + len /\ a + len \in a + 1 .. end
      BY <2>1, <2>3, <2>4, <3>3
    <3>5. U[a] # <<>>
      BY <3>2
    <3>6. D[a] = U[a] \o D[EndOf(Last(U[a]))]
      BY <2>5, <3>2, <3>4
    <3>7. Before(U[a], EndOf(Last(U[a])))
      <4>1. Range(U[a]) = {Insn(a, len)}
        BY <3>2 DEF Range
      <4>2. a < EndOf(Last(U[a]))
        BY <2>1, <2>3, <3>4
      <4> QED
        BY <4>1, <4>2 DEF Before, Insn
    <3> QED
      BY <3>4, <3>5, <3>6, <3>7
  <2>9. CASE a + len < want
    <3>1. a + len \in S
      <4> HIDE DEF S
      <4>1. a + len \in a + 1 .. want - 1
        BY <1>2, <2>1, <2>3, <2>9
      <4> QED
        BY <1>5, <4>1
    <3> DEFINE e == EndOf(Last(U[a + len]))
    <3>2. /\ e \in a + len + 1 .. end /\ U[a + len] # <<>> /\ D[a + len] = U[a + len] \o D[e]
          /\ Before(U[a + len], e)
      BY <3>1
    <3>3. Last(U[a]) = Last(U[a + len])
      <4>1. Len(U[a + len]) \in Nat \ {0}
        BY <2>7, <3>2, EmptySeq
      <4>2. Len(U[a]) = 1 + Len(U[a + len]) /\ U[a][1 + Len(U[a + len])] = U[a + len][Len(U[a + len])]
        BY <2>4, <2>6, <2>7, <4>1
      <4> QED
        BY <4>2 DEF Last
    <3> HIDE DEF e
    <3>4. D[e] \in Seq(Rows) /\ <<Insn(a, len)>> \in Seq(Rows)
      BY <2>1, <2>3, <2>4, <3>2
    <3>5. D[a] = U[a] \o D[e]
      <4> DEFINE one == <<Insn(a, len)>>
                 more == U[a + len]
                 rest == D[e]
      <4>0. one \in Seq(Rows) /\ more \in Seq(Rows) /\ rest \in Seq(Rows)
        BY <2>7, <3>4
      <4>1. (one \o more) \o rest = one \o (more \o rest)
        <5> HIDE DEF one, more, rest
        <5> QED
          BY <4>0, SMT
      <4> QED
        BY <2>5, <2>6, <3>2, <4>1
    <3>6. U[a] # <<>>
      BY <2>4, <2>6, <2>7
    <3>7. e \in a + 1 .. end
      BY <2>1, <2>3, <3>2
    <3>8. Before(U[a], e)
      <4> DEFINE row == Insn(a, len)
      <4>1. row \in Rows /\ row.at = a
        BY <2>4 DEF Insn
      <4>2. U[a] = <<row>> \o U[a + len]
        BY <2>6
      <4> HIDE DEF row
      <4>3. Range(U[a]) = {row} \cup Range(U[a + len])
        BY <2>7, <4>1, <4>2, RangeCons
      <4>4. a < e
        BY <2>1, <3>7
      <4> QED
        BY <3>2, <4>1, <4>3, <4>4 DEF Before
    <3> QED
      BY <3>3, <3>5, <3>6, <3>7, <3>8 DEF e
  <2>10. a + len >= want \/ a + len < want
    BY <1>2, <2>3
  <2> QED
    BY <2>8, <2>9, <2>10
<1>6. pos .. want - 1 \subseteq S
  <2>1. want - 1 \in Nat
    BY <1>0, <1>2
  <2> HIDE DEF S
  <2> QED
    BY <1>0, <1>5, <2>1, DownInduction
<1>7. pos \in S
  <2> HIDE DEF S
  <2> QED
    BY <1>0, <1>2, <1>6
<1>8. DissectChunk(table, pos, end) = U[pos]
  BY <1>4 DEF DissectChunk, want, buf
<1>9. U[pos] \in Seq(Rows)
  BY <1>0, <1>2, <1>4
<1> QED
  BY <1>7, <1>8, <1>9

\* Decoding from one of the instructions on gives the instructions from there.
LEMMA SubDecode ==
  ASSUME NEW table, NEW start \in Nat, NEW end \in Nat, Covered(table, start, end),
         NEW D \in [start .. end -> Seq(Rows)], UntilEq(D, table, start, end, end),
         NEW a \in start .. end
  PROVE  D[a] = DecodeAll(table, a, end)
<1>0. \A b \in start .. end - 1 : table[b] \in Nat
  BY CodeBrowserAssumption DEF Covered
<1>1. PICK f \in [a .. end -> Seq(Rows)] :
        UntilEq(f, table, a, end, end) /\ f[a] = DecodeUntil(table, a, end, end)
  <2>1. a \in Nat /\ end <= end /\ \A b \in a .. end - 1 : table[b] \in Nat
    BY <1>0
  <2> QED
    BY <2>1, DecodeUntilUnfolds
<1> DEFINE S == {b \in a .. end : f[b] = D[b]}
<1>2. ASSUME NEW b \in a .. end, \A c \in b + 1 .. end : c \in S PROVE b \in S
  <2> DEFINE next == b + Step(table, b, end)
  <2>1. b \in Nat /\ b \in start .. end
    OBVIOUS
  <2>2. /\ f[b] = IF b >= end THEN <<>> ELSE <<Insn(b, Step(table, b, end))>> \o f[next]
        /\ D[b] = IF b >= end THEN <<>> ELSE <<Insn(b, Step(table, b, end))>> \o D[next]
    BY <1>1, <2>1 DEF UntilEq
  <2>3. CASE b < end
    <3>0. table[b] \in Nat
      BY <1>0, <2>1, <2>3
    <3>1. next \in b + 1 .. end
      BY <2>1, <2>3, <3>0, StepInBuffer
    <3> HIDE DEF next
    <3>2. next \in S
      <4> HIDE DEF S
      <4> QED
        BY <1>2, <3>1
    <3> QED
      BY <2>2, <3>2
  <2>4. CASE ~(b < end)
    <3>1. b >= end
      BY <2>1, <2>4
    <3> QED
      BY <2>2, <3>1
  <2> QED
    BY <2>3, <2>4
<1>3. a .. end \subseteq S
  <2>1. a \in Nat
    OBVIOUS
  <2> HIDE DEF S
  <2> QED
    BY <1>2, <2>1, DownInduction
<1>4. a \in a .. end
  OBVIOUS
<1> QED
  BY <1>1, <1>3, <1>4 DEF DecodeAll

\* A plain decode as a function of where it starts.
LEMMA PlainDecode ==
  ASSUME NEW table, NEW start \in Nat, NEW end \in Nat, start <= end, Covered(table, start, end)
  PROVE  \E D \in [start .. end -> Seq(Rows)] :
           /\ UntilEq(D, table, start, end, end)
           /\ \A a \in start .. end : D[a] = DecodeAll(table, a, end)
<1>1. PICK D \in [start .. end -> Seq(Rows)] : UntilEq(D, table, start, end, end)
  <2>1. end <= end /\ \A b \in start .. end - 1 : table[b] \in Nat
    BY CodeBrowserAssumption DEF Covered
  <2> QED
    BY <2>1, DecodeUntilUnfolds
<1> QED
  BY <1>1, SubDecode

\* Its instructions lie in the interval it decodes.
LEMMA RowsInside ==
  ASSUME NEW table, NEW start \in Nat, NEW end \in Nat, start <= end, Covered(table, start, end),
         NEW a \in start .. end, NEW i \in Range(DecodeAll(table, a, end))
  PROVE  i \in Rows /\ i.at \in a .. end - 1 /\ i.at + i.len <= end
<1>1. PICK D \in [start .. end -> Seq(Rows)] :
        /\ UntilEq(D, table, start, end, end)
        /\ \A b \in start .. end : D[b] = DecodeAll(table, b, end)
  BY PlainDecode
<1> DEFINE Inside(b) == \A row \in Range(D[b]) :
                           row \in Rows /\ row.at \in b .. end - 1 /\ row.at + row.len <= end
           S == {b \in start .. end : Inside(b)}
<1>2. ASSUME NEW b \in start .. end, \A c \in b + 1 .. end : c \in S PROVE b \in S
  <2> DEFINE len == Step(table, b, end)
  <2>1. D[b] = IF b >= end THEN <<>> ELSE <<Insn(b, len)>> \o D[b + len]
    BY <1>1 DEF UntilEq
  <2>2. CASE b < end
    <3>1. table[b] \in Nat
      BY <2>2, CodeBrowserAssumption DEF Covered
    <3>2. len \in Nat /\ b + len \in b + 1 .. end
      BY <2>2, <3>1, StepInBuffer
    <3> HIDE DEF len
    <3>3. b + len \in S
      <4> HIDE DEF S
      <4> QED
        BY <1>2, <3>2
    <3>4. Insn(b, len) \in Rows /\ Insn(b, len).at = b /\ Insn(b, len).len = len
      BY <3>2 DEF Insn, Rows
    <3>5. Range(D[b]) = {Insn(b, len)} \cup Range(D[b + len])
      <4>1. D[b + len] \in Seq(Rows)
        BY <3>2
      <4>2. ~(b >= end)
        BY <2>2
      <4>3. D[b] = <<Insn(b, len)>> \o D[b + len]
        BY <2>1, <4>2
      <4> QED
        BY <3>4, <4>1, <4>3, RangeCons
    <3>6. Inside(b)
      <4>1. ASSUME NEW row \in Range(D[b])
            PROVE  row \in Rows /\ row.at \in b .. end - 1 /\ row.at + row.len <= end
        <5>1. CASE row = Insn(b, len)
          BY <2>2, <3>2, <3>4, <5>1
        <5>2. CASE row \in Range(D[b + len])
          <6>1. row \in Rows /\ row.at \in b + len .. end - 1 /\ row.at + row.len <= end
            BY <3>3, <5>2
          <6> QED
            BY <3>2, <6>1
        <5> QED
          BY <3>5, <4>1, <5>1, <5>2
      <4> QED
        BY <4>1
    <3> QED
      BY <3>6
  <2>3. CASE ~(b < end)
    <3>1. D[b] = <<>>
      BY <2>1, <2>3
    <3>2. Range(D[b]) = {}
      BY <3>1 DEF Range
    <3> QED
      BY <3>2
  <2> QED
    BY <2>2, <2>3
<1>3. a \in S
  <2> HIDE DEF S
  <2> QED
    BY <1>2, DownInduction
<1> QED
  BY <1>1, <1>3

\* Tables that agree on an interval decode it alike.
LEMMA SameDecode ==
  ASSUME NEW t, NEW u, NEW start \in Nat, NEW end \in Nat, start <= end,
         Covered(t, start, end), \A b \in start .. end - 1 : u[b] = t[b],
         NEW a \in start .. end
  PROVE  DecodeAll(u, a, end) = DecodeAll(t, a, end)
<1>0. Covered(u, start, end)
  BY DEF Covered
<1>1. PICK D \in [start .. end -> Seq(Rows)] :
        /\ UntilEq(D, t, start, end, end)
        /\ \A b \in start .. end : D[b] = DecodeAll(t, b, end)
  BY PlainDecode
<1>2. PICK E \in [start .. end -> Seq(Rows)] :
        /\ UntilEq(E, u, start, end, end)
        /\ \A b \in start .. end : E[b] = DecodeAll(u, b, end)
  BY <1>0, PlainDecode
<1> DEFINE S == {b \in start .. end : E[b] = D[b]}
<1>3. ASSUME NEW b \in start .. end, \A c \in b + 1 .. end : c \in S PROVE b \in S
  <2> DEFINE len == Step(t, b, end)
  <2>1. D[b] = IF b >= end THEN <<>> ELSE <<Insn(b, len)>> \o D[b + len]
    BY <1>1 DEF UntilEq
  <2>2. E[b] = IF b >= end THEN <<>>
               ELSE <<Insn(b, Step(u, b, end))>> \o E[b + Step(u, b, end)]
    BY <1>2 DEF UntilEq
  <2>3. CASE b < end
    <3>1. t[b] \in Nat /\ u[b] = t[b]
      BY <2>3, CodeBrowserAssumption DEF Covered
    <3>2. Step(u, b, end) = len /\ b + len \in b + 1 .. end
      BY <2>3, <3>1, StepInBuffer DEF Step
    <3> HIDE DEF len
    <3>3. b + len \in S
      <4> HIDE DEF S
      <4> QED
        BY <1>3, <3>2
    <3> QED
      BY <2>1, <2>2, <2>3, <3>2, <3>3
  <2>4. CASE ~(b < end)
    BY <2>1, <2>2, <2>4
  <2> QED
    BY <2>3, <2>4
<1>4. a \in S
  <2> HIDE DEF S
  <2> QED
    BY <1>3, DownInduction
<1> QED
  BY <1>1, <1>2, <1>4

-----------------------------------------------------------------------------
(* The invariant of the code browser.                                      *)

\* A table of instructions as they start, and as patches leave them.
Table(t) ==
  /\ DOMAIN t \subseteq Nat /\ \A a \in DOMAIN t : t[a] \in 0 .. Overlap
  /\ \A r \in AllRegions : r[1] .. r[2] - 1 \subseteq DOMAIN t

Disasms ==
  [mode : {"Function", "Linear"}, focus : Nat, back : Seq(Nat), forward : Seq(Nat),
   regions : SUBSET AllRegions, listing : Seq(Rows), next : Nat,
   cache : [at : Nat, insns : Seq(Rows)]]

\* Row lies in a region of d and is the instruction the table has there, or is torn.
RowShown(d, table, patched, row) ==
  /\ row.len > 0 /\ \E r \in d.regions : Holds(r, row.at) /\ EndOf(row) <= r[2]
  /\ row.at \in patched \/ table[row.at] = row.len

\* The listing goes on at a after row: right behind it, or in a later region when
\* nothing decodes up to there.
GoesOn(d, table, patched, row, a) ==
  LET region == RegionOf(d, row.at)
  IN \/ a = EndOf(row)
     \/ /\ region[2] <= a /\ \E r \in d.regions : r[1] = a
        /\ EndOf(row) = region[2] \/ patched # {} \/ Blocked(table, EndOf(row), region[2])
        /\ patched # {} \/ \A r \in d.regions :
                            r[1] \in region[2] .. a - 1 => Blocked(table, r[1], r[2])

\* ListingExact, with what it takes to add rows (the address to go on at) and to tear
\* one (the rows do not overlap).
ListingInv(d, table, patched) ==
  d.mode = "Linear" =>
    /\ \A i \in 1 .. Len(d.listing) : RowShown(d, table, patched, d.listing[i])
    /\ \A i, j \in 1 .. Len(d.listing) : i < j => EndOf(d.listing[i]) <= d.listing[j].at
    /\ \A i \in 1 .. Len(d.listing) - 1 :
         GoesOn(d, table, patched, d.listing[i], d.listing[i + 1].at)
    /\ d.next # NoAddr =>
         /\ InRegion(d, d.next)
         /\ d.listing # <<>> => /\ GoesOn(d, table, patched, Last(d.listing), d.next)
                                /\ EndOf(Last(d.listing)) <= d.next

DisasmInv(d, table, patched) == d \in Disasms /\ ListingInv(d, table, patched)

CodeInv ==
  /\ loaded \subseteq DOMAIN ModuleRegions /\ Table(code)
  /\ DisasmInv(disasm, code, torn)

\* The navigator is never ahead of the dissects.
NavInv ==
  /\ epoch \in Nat /\ nav.built \in 0 .. epoch
  /\ dissect.done /\ nav.built = epoch => nav.refs = dissect.refs

Viewers == [at : Nat, history : Seq(Nat), buf : Nat, prev : Nat, current : BOOLEAN]
HexInv == hex \in Viewers /\ (hex.current => hex.buf = hex.at)

-----------------------------------------------------------------------------
(* Regions.                                                                *)

LEMMA MinFacts ==
  ASSUME NEW T \in SUBSET Nat, T # {}
  PROVE  Min(T) \in T /\ \A x \in T : Min(T) <= x
  BY Least DEF Min

\* A region is an interval of positive addresses.
LEMMA RegionBounds ==
  ASSUME NEW r \in AllRegions
  PROVE  r[1] \in Nat \ {0} /\ r[2] \in Nat /\ r[1] < r[2] /\ Holds(r, r[1])
  BY RegionsAssumption DEF Holds

\* At most one region holds an address.
LEMMA RegionOfIs ==
  ASSUME NEW d, d.regions \subseteq AllRegions, NEW a \in Nat, NEW r \in d.regions, Holds(r, a)
  PROVE  RegionOf(d, a) = r
<1>1. \A q \in d.regions : Holds(q, a) => q = r
  <2> SUFFICES ASSUME NEW q \in d.regions, Holds(q, a), q # r PROVE FALSE
    OBVIOUS
  <2>1. q[2] <= r[1] \/ r[2] <= q[1]
    BY RegionsAssumption
  <2> QED
    BY <2>1, RegionBounds DEF Holds
<1> QED
  BY <1>1 DEF RegionOf

LEMMA NextRegionFacts ==
  ASSUME NEW d, d.regions \subseteq AllRegions, NEW a \in Nat
  PROVE  /\ NextRegionStart(d, a) \in Nat
         /\ NextRegionStart(d, a) # NoAddr =>
              /\ InRegion(d, NextRegionStart(d, a)) /\ a <= NextRegionStart(d, a)
              /\ \E r \in d.regions : r[1] = NextRegionStart(d, a)
              /\ \A r \in d.regions : ~(r[1] \in a .. NextRegionStart(d, a) - 1)
<1> DEFINE starts == {r[1] : r \in d.regions} \ 0 .. a - 1
<1>1. starts \in SUBSET Nat /\ \A x \in starts : a <= x
  BY RegionBounds
<1>2. CASE starts = {}
  BY <1>2 DEF NextRegionStart, NoAddr
<1>3. CASE starts # {}
  <2>1. Min(starts) \in starts /\ \A x \in starts : Min(starts) <= x
    <3> HIDE DEF starts
    <3> QED
      BY <1>1, <1>3, MinFacts
  <2>2. NextRegionStart(d, a) = Min(starts)
    BY <1>3 DEF NextRegionStart
  <2>3. PICK r \in d.regions : Min(starts) = r[1]
    BY <2>1
  <2>4. InRegion(d, Min(starts))
    BY <2>3, RegionBounds DEF InRegion
  <2>5. ASSUME NEW r1 \in d.regions, r1[1] \in a .. Min(starts) - 1 PROVE FALSE
    <3>1. r1[1] \in Nat /\ r1[1] \in starts
      BY <2>5, RegionBounds
    <3>2. Min(starts) <= r1[1] /\ Min(starts) \in Nat
      BY <1>1, <2>1, <3>1
    <3> HIDE DEF starts
    <3> QED
      BY <2>5, <3>1, <3>2
  <2> HIDE DEF starts
  <2> QED
    BY <1>1, <2>1, <2>2, <2>3, <2>4, <2>5
<1> QED
  BY <1>2, <1>3

-----------------------------------------------------------------------------
(* disassemble_range.                                                      *)

RangeStops(table, a, end) ==
  a >= end \/ a \notin DOMAIN table \/ table[a] = 0 \/ a + table[a] > end

RangeEq(f, table, start, end) ==
  f = [a \in start .. end |->
         IF a >= end \/ a \notin DOMAIN table \/ table[a] = 0 \/ a + table[a] > end THEN <<>>
         ELSE <<Insn(a, table[a])>> \o f[a + table[a]]]

LEMMA RangeUnfolds ==
  ASSUME NEW table, Table(table), NEW start \in Nat, NEW end \in Nat
  PROVE  \E f \in [start .. end -> Seq(Rows)] :
           RangeEq(f, table, start, end) /\ f[start] = DecodeRange(table, start, end)
<1> DEFINE halt == {a \in start .. end : RangeStops(table, a, end)}
           head == [a \in start .. end |-> <<Insn(a, table[a])>>]
           next == [a \in start .. end |-> a + table[a]]
           F == CHOOSE f : f = [a \in start .. end |->
                  IF a >= end \/ a \notin DOMAIN table \/ table[a] = 0 \/ a + table[a] > end THEN <<>>
                  ELSE <<Insn(a, table[a])>> \o f[a + table[a]]]
<1>1. ASSUME NEW a \in start .. end \ halt
      PROVE  head[a] \in Seq(Rows) /\ next[a] \in a + 1 .. end
  <2>1. a \in Nat /\ a \in DOMAIN table /\ table[a] # 0 /\ ~(a + table[a] > end)
    BY <1>1 DEF RangeStops
  <2>2. table[a] \in Nat
    BY <2>1, CodeBrowserAssumption DEF Table
  <2>3. Insn(a, table[a]) \in Rows
    BY <2>1, <2>2 DEF Insn, Rows
  <2> QED
    BY <2>1, <2>2, <2>3
<1>2. \A f : RangeEq(f, table, start, end) <=> DecoderEq(f, start, end, halt, head, next)
  BY DEF RangeEq, DecoderEq, RangeStops
<1>3. /\ \E f : RangeEq(f, table, start, end)
      /\ \A f : RangeEq(f, table, start, end) => f \in [start .. end -> Seq(Rows)]
  <2> HIDE DEF halt, head, next
  <2>1. /\ \E f : DecoderEq(f, start, end, halt, head, next)
        /\ \A f : DecoderEq(f, start, end, halt, head, next) => f \in [start .. end -> Seq(Rows)]
    BY <1>1, Unfolds
  <2> QED
    BY <1>2, <2>1
<1>4. RangeEq(F, table, start, end)
  BY <1>3 DEF RangeEq
<1>5. DecodeRange(table, start, end) = F[start]
  BY DEF DecodeRange
<1> QED
  <2> HIDE DEF F
  <2> QED
    BY <1>3, <1>4, <1>5

\* The rows of a decode from a: one behind the other, as the table has them.
Decoded(table, rows, a, end) ==
  /\ rows # <<>> => rows[1].at = a
  /\ rows = <<>> => RangeStops(table, a, end)
  /\ \A i \in 1 .. Len(rows) : /\ a <= rows[i].at /\ rows[i].len > 0 /\ EndOf(rows[i]) <= end
                               /\ table[rows[i].at] = rows[i].len
  /\ \A i \in 1 .. Len(rows) - 1 : rows[i + 1].at = EndOf(rows[i])
  /\ \A i, j \in 1 .. Len(rows) : i < j => EndOf(rows[i]) <= rows[j].at

LEMMA DecodedCons ==
  ASSUME NEW table, NEW rows \in Seq(Rows), NEW a \in Nat, NEW len \in Nat \ {0}, NEW end \in Nat,
         a + len <= end, table[a] = len, Decoded(table, rows, a + len, end)
  PROVE  Decoded(table, <<Insn(a, len)>> \o rows, a, end)
<1> DEFINE all == <<Insn(a, len)>> \o rows
           n == Len(rows)
<1>1. Insn(a, len) \in Rows /\ Insn(a, len).at = a /\ Insn(a, len).len = len
      /\ EndOf(Insn(a, len)) = a + len
  BY DEF Insn, EndOf, Rows
<1>2. /\ all \in Seq(Rows) /\ Len(all) = n + 1 /\ n \in Nat /\ all # <<>>
      /\ all[1] = Insn(a, len) /\ \A i \in 2 .. n + 1 : all[i] = rows[i - 1]
  BY <1>1
<1>3. \A i \in 1 .. n : rows[i] \in Rows
  OBVIOUS
<1> HIDE DEF all, n
<1>4. \A i \in 1 .. n : rows[i].at \in Nat /\ rows[i].len \in Nat /\ a + len <= rows[i].at
  BY <1>3 DEF Decoded, n, Rows
<1>5. \A i \in 1 .. n + 1 : /\ a <= all[i].at /\ all[i].len > 0 /\ EndOf(all[i]) <= end
                            /\ table[all[i].at] = all[i].len
  <2> SUFFICES ASSUME NEW i \in 1 .. n + 1
               PROVE  /\ a <= all[i].at /\ all[i].len > 0 /\ EndOf(all[i]) <= end
                      /\ table[all[i].at] = all[i].len
    OBVIOUS
  <2>1. CASE i = 1
    BY <1>1, <1>2, <2>1
  <2>2. CASE i # 1
    <3>1. i - 1 \in 1 .. n /\ all[i] = rows[i - 1]
      BY <1>2, <2>2
    <3>2. a <= rows[i - 1].at
      BY <1>4, <3>1
    <3> QED
      BY <3>1, <3>2 DEF Decoded, n
  <2> QED
    BY <2>1, <2>2
<1>6. ASSUME NEW i \in 1 .. n PROVE all[i + 1].at = EndOf(all[i])
  <2>1. all[i + 1] = rows[i]
    BY <1>2
  <2>2. CASE i = 1
    <3>1. rows # <<>>
      BY <1>2, <2>2 DEF n
    <3> QED
      BY <1>1, <1>2, <2>1, <2>2, <3>1 DEF Decoded
  <2>3. CASE i # 1
    <3>1. i - 1 \in 1 .. n - 1 /\ all[i] = rows[i - 1] /\ (i - 1) + 1 = i
      BY <1>2, <2>3
    <3>2. rows[(i - 1) + 1].at = EndOf(rows[i - 1])
      BY <3>1 DEF Decoded, n
    <3> QED
      BY <2>1, <3>1, <3>2
  <2> QED
    BY <2>2, <2>3
<1>7. ASSUME NEW i \in 1 .. n + 1, NEW j \in 1 .. n + 1, i < j PROVE EndOf(all[i]) <= all[j].at
  <2>1. all[j] = rows[j - 1] /\ j - 1 \in 1 .. n
    BY <1>2, <1>7
  <2>2. CASE i = 1
    BY <1>1, <1>2, <1>4, <2>1, <2>2
  <2>3. CASE i # 1
    <3>1. i - 1 \in 1 .. n /\ all[i] = rows[i - 1] /\ i - 1 < j - 1
      BY <1>2, <1>7, <2>3
    <3> QED
      BY <2>1, <3>1 DEF Decoded, n
  <2> QED
    BY <2>2, <2>3
<1> QED
  <2>1. n = (n + 1) - 1
    BY <1>2
  <2> QED
    BY <1>1, <1>2, <1>5, <1>6, <1>7, <2>1 DEF Decoded, all

LEMMA DecodeRangeFacts ==
  ASSUME NEW table, Table(table), NEW start \in Nat, NEW end \in Nat, start <= end
  PROVE  /\ DecodeRange(table, start, end) \in Seq(Rows)
         /\ Decoded(table, DecodeRange(table, start, end), start, end)
<1>1. PICK f \in [start .. end -> Seq(Rows)] :
        RangeEq(f, table, start, end) /\ f[start] = DecodeRange(table, start, end)
  BY RangeUnfolds
<1> DEFINE S == {a \in start .. end : Decoded(table, f[a], a, end)}
<1>2. ASSUME NEW a \in start .. end, \A b \in a + 1 .. end : b \in S PROVE a \in S
  <2>1. CASE RangeStops(table, a, end)
    <3>1. f[a] = <<>>
      BY <1>1, <2>1 DEF RangeEq, RangeStops
    <3> QED
      BY <2>1, <3>1 DEF Decoded
  <2>2. CASE ~RangeStops(table, a, end)
    <3>1. f[a] = <<Insn(a, table[a])>> \o f[a + table[a]]
      BY <1>1, <2>2 DEF RangeEq, RangeStops
    <3>2. a \in Nat /\ table[a] \in Nat \ {0} /\ a + table[a] <= end
      <4>1. a \in Nat /\ a \in DOMAIN table /\ table[a] # 0 /\ ~(a + table[a] > end)
        BY <2>2 DEF RangeStops
      <4> QED
        BY <4>1, CodeBrowserAssumption DEF Table
    <3>3. a + table[a] \in a + 1 .. end
      BY <3>2
    <3>4. a + table[a] \in S
      <4> HIDE DEF S
      <4> QED
        BY <1>2, <3>3
    <3>5. f[a + table[a]] \in Seq(Rows) /\ Decoded(table, f[a + table[a]], a + table[a], end)
      BY <3>4
    <3>6. Decoded(table, <<Insn(a, table[a])>> \o f[a + table[a]], a, end)
      BY <3>2, <3>5, DecodedCons
    <3> QED
      BY <3>1, <3>6
  <2> QED
    BY <2>1, <2>2
<1>3. start .. end \subseteq S
  <2> HIDE DEF S
  <2> QED
    BY <1>2, DownInduction
<1> QED
  BY <1>1, <1>3

-----------------------------------------------------------------------------
(* The operators on the disassembler's state keep its invariant.           *)

LEMMA NoRows == <<>> \in Seq(Rows) /\ <<>> \in Seq(Nat)
  BY EmptySeq

LEMMA CappedType ==
  ASSUME NEW h \in Seq(Nat), NEW a \in Nat
  PROVE  Capped(h, a) \in Seq(Nat)
<1>1. CASE Len(h) >= HistoryCap
  <2>1. h # <<>>
    BY <1>1, CodeBrowserAssumption
  <2>2. Tail(h) \in Seq(Nat)
    BY <2>1, HeadTailProperties
  <2> QED
    BY <1>1, <2>2, AppendProperties DEF Capped
<1>2. CASE ~(Len(h) >= HistoryCap)
  BY <1>2, AppendProperties DEF Capped
<1> QED
  BY <1>1, <1>2

LEMMA FrontAndLast ==
  ASSUME NEW h \in Seq(Nat), h # <<>>
  PROVE  Front(h) \in Seq(Nat) /\ Last(h) \in Nat
<1>1. Len(h) \in Nat \ {0}
  BY EmptySeq
<1>2. Front(h) \in Seq(Nat)
  BY <1>1, SubSeqProperties DEF Front
<1> QED
  BY <1>1, <1>2 DEF Last

\* An empty listing that goes on at a, or in the next region.
LEMMA ResetKeeps ==
  ASSUME NEW d \in Disasms, NEW a \in Nat, NEW table, NEW patched
  PROVE  /\ DisasmInv(LinearReset(d, a), table, patched)
         /\ LinearReset(d, a).mode = d.mode
<1>1. d.regions \subseteq AllRegions
  BY DEF Disasms
<1> DEFINE e == LinearReset(d, a)
           next == IF InRegion(d, a) THEN a ELSE NextRegionStart(d, a)
<1>2. next \in Nat /\ (next # NoAddr => InRegion(d, next))
  BY <1>1, NextRegionFacts
<1> HIDE DEF next
<1>3. e = [d EXCEPT !.listing = <<>>, !.next = next]
  BY DEF LinearReset, next
<1>4. e \in Disasms /\ e.listing = <<>> /\ e.next = next /\ e.regions = d.regions /\ e.mode = d.mode
  BY <1>2, <1>3, NoRows DEF Disasms
<1> HIDE DEF e
<1>5. e.next # NoAddr => InRegion(e, e.next)
  BY <1>2, <1>4 DEF InRegion
<1>6. ListingInv(e, table, patched)
  BY <1>4, <1>5 DEF ListingInv
<1> QED
  BY <1>4, <1>6 DEF DisasmInv, e

\* Only mode, regions, listing and next matter to the invariant.
LEMMA SameListing ==
  ASSUME NEW d, NEW e, NEW table, NEW patched, ListingInv(d, table, patched),
         e.mode = d.mode, e.regions = d.regions, e.listing = d.listing, e.next = d.next
  PROVE  ListingInv(e, table, patched)
<1>1. \A row, a : GoesOn(d, table, patched, row, a) <=> GoesOn(e, table, patched, row, a)
  BY DEF GoesOn, RegionOf
<1>2. \A row : RowShown(d, table, patched, row) <=> RowShown(e, table, patched, row)
  BY DEF RowShown
<1>3. \A a : InRegion(d, a) <=> InRegion(e, a)
  BY DEF InRegion
<1> QED
  BY <1>1, <1>2, <1>3 DEF ListingInv

LEMMA FocusKeeps ==
  ASSUME NEW d, NEW table, NEW patched, DisasmInv(d, table, patched), NEW a \in Nat
  PROVE  DisasmInv(SetFocus(d, a), table, patched)
<1> DEFINE at == [d EXCEPT !.focus = a]
<1>1. d \in Disasms
  BY DEF DisasmInv
<1>2. /\ at \in Disasms /\ at.mode = d.mode /\ at.regions = d.regions /\ at.listing = d.listing
      /\ at.next = d.next
  BY <1>1 DEF Disasms
<1>3. CASE d.mode = "Function"
  <2> DEFINE e == [at EXCEPT !.cache = IF @.at = a THEN @ ELSE NoCache]
  <2>1. SetFocus(d, a) = e
    BY <1>3 DEF SetFocus
  <2>2. NoCache \in [at : Nat, insns : Seq(Rows)]
    BY NoRows DEF NoCache, NoAddr
  <2>3. (IF d.cache.at = a THEN d.cache ELSE NoCache) \in [at : Nat, insns : Seq(Rows)]
    BY <1>1, <2>2 DEF Disasms
  <2>4. e = [at EXCEPT !.cache = IF d.cache.at = a THEN d.cache ELSE NoCache]
    BY <1>1 DEF Disasms
  <2>5. e \in Disasms /\ e.mode = "Function"
    BY <1>2, <1>3, <2>3, <2>4 DEF Disasms
  <2> QED
    BY <2>1, <2>5 DEF DisasmInv, ListingInv
<1>4. CASE d.mode = "Linear"
  <2>1. SetFocus(d, a) = IF Listed(d, a) THEN at ELSE LinearReset(at, a)
    BY <1>4 DEF SetFocus
  <2>2. DisasmInv(LinearReset(at, a), table, patched)
    BY <1>2, ResetKeeps
  <2>3. DisasmInv(at, table, patched)
    <3> HIDE DEF at
    <3> QED
      BY <1>2, SameListing DEF DisasmInv
  <2> QED
    BY <2>1, <2>2, <2>3
<1> QED
  BY <1>1, <1>3, <1>4 DEF Disasms

LEMMA GotoKeeps ==
  ASSUME NEW d, NEW table, NEW patched, d \in Disasms, NEW a \in Nat
  PROVE  DisasmInv(Goto(d, a), table, patched)
<1> DEFINE back == IF d.focus \in {NoAddr, a} THEN d.back ELSE Capped(d.back, d.focus)
           e == [d EXCEPT !.mode = "Function", !.forward = <<>>, !.back = back]
<1>1. d.back \in Seq(Nat) /\ d.focus \in Nat
  BY DEF Disasms
<1>2. back \in Seq(Nat)
  BY <1>1, CappedType
<1>3. Goto(d, a) = SetFocus(e, a)
  BY DEF Goto, Disasms
<1> HIDE DEF back
<1>4. e \in Disasms /\ e.mode = "Function"
  BY <1>2, NoRows DEF Disasms
<1>5. DisasmInv(e, table, patched)
  BY <1>4 DEF DisasmInv, ListingInv
<1> QED
  BY <1>3, <1>5, FocusKeeps

WithHistory(d, back, forward) == [d EXCEPT !.back = back, !.forward = forward]

\* A record with other history, then the focus set.
LEMMA HistoryKeeps ==
  ASSUME NEW d, NEW table, NEW patched, DisasmInv(d, table, patched),
         NEW back \in Seq(Nat), NEW forward \in Seq(Nat), NEW a \in Nat
  PROVE  DisasmInv(SetFocus(WithHistory(d, back, forward), a), table, patched)
<1> DEFINE e == WithHistory(d, back, forward)
<1>1. /\ e \in Disasms /\ e.mode = d.mode /\ e.regions = d.regions /\ e.listing = d.listing
      /\ e.next = d.next
  BY DEF DisasmInv, Disasms, WithHistory
<1> HIDE DEF e
<1>2. DisasmInv(e, table, patched)
  BY <1>1, SameListing DEF DisasmInv
<1>3. DisasmInv(SetFocus(e, a), table, patched)
  BY <1>2, FocusKeeps
<1> QED
  BY <1>3 DEF e

LEMMA NavigateKeeps ==
  ASSUME NEW d, NEW table, NEW patched, DisasmInv(d, table, patched), NEW a \in Nat
  PROVE  DisasmInv(Navigate(d, a), table, patched)
<1>1. d.back \in Seq(Nat) /\ d.focus \in Nat /\ <<>> \in Seq(Nat)
  BY EmptySeq DEF DisasmInv, Disasms
<1>2. Capped(d.back, d.focus) \in Seq(Nat)
  BY <1>1, CappedType
<1>3. CASE a # d.focus
  <2>1. Navigate(d, a) = SetFocus(WithHistory(d, Capped(d.back, d.focus), <<>>), a)
    BY <1>3 DEF Navigate, DisasmInv, Disasms, WithHistory
  <2> QED
    BY <1>1, <1>2, <2>1, HistoryKeeps
<1>4. CASE a = d.focus
  BY <1>4 DEF Navigate
<1> QED
  BY <1>3, <1>4

LEMMA BackKeeps ==
  ASSUME NEW d, NEW table, NEW patched, DisasmInv(d, table, patched), d.back # <<>>
  PROVE  DisasmInv(GoBack(d), table, patched)
<1>1. d.back \in Seq(Nat) /\ d.forward \in Seq(Nat) /\ d.focus \in Nat
  BY DEF DisasmInv, Disasms
<1>2. Capped(d.forward, d.focus) \in Seq(Nat) /\ Front(d.back) \in Seq(Nat) /\ Last(d.back) \in Nat
  BY <1>1, CappedType, FrontAndLast
<1>3. GoBack(d) = SetFocus(WithHistory(d, Front(d.back), Capped(d.forward, d.focus)), Last(d.back))
  BY DEF GoBack, DisasmInv, Disasms, WithHistory
<1> QED
  BY <1>2, <1>3, HistoryKeeps

LEMMA ForwardKeeps ==
  ASSUME NEW d, NEW table, NEW patched, DisasmInv(d, table, patched), d.forward # <<>>
  PROVE  DisasmInv(GoForward(d), table, patched)
<1>1. d.back \in Seq(Nat) /\ d.forward \in Seq(Nat) /\ d.focus \in Nat
  BY DEF DisasmInv, Disasms
<1>2. Capped(d.back, d.focus) \in Seq(Nat) /\ Front(d.forward) \in Seq(Nat) /\ Last(d.forward) \in Nat
  BY <1>1, CappedType, FrontAndLast
<1>3. GoForward(d) =
        SetFocus(WithHistory(d, Capped(d.back, d.focus), Front(d.forward)), Last(d.forward))
  BY DEF GoForward, DisasmInv, Disasms, WithHistory
<1> QED
  BY <1>2, <1>3, HistoryKeeps

\* ensure_function_disasm.
LEMMA EnsureKeeps ==
  ASSUME Table(code), NEW d, NEW patched, DisasmInv(d, code, patched)
  PROVE  /\ DisasmInv(EnsureFunction(d), code, patched)
         /\ EnsureFunction(d).back = d.back /\ EnsureFunction(d).forward = d.forward
<1> DEFINE rows == DecodeRange(code, d.focus, d.focus + ChunkBytes)
           cache == [at |-> d.focus, insns |-> rows]
           e == [d EXCEPT !.cache = cache]
<1>1. d.focus \in Nat /\ d.focus + ChunkBytes \in Nat /\ d.focus <= d.focus + ChunkBytes
  BY CodeBrowserAssumption DEF DisasmInv, Disasms
<1>2. rows \in Seq(Rows)
  BY <1>1, DecodeRangeFacts
<1> HIDE DEF rows
<1>3. cache \in [at : Nat, insns : Seq(Rows)]
  BY <1>1, <1>2
<1>4. EnsureFunction(d) = d \/ EnsureFunction(d) = e
  BY DEF EnsureFunction, rows
<1> HIDE DEF cache
<1>5. /\ e \in Disasms /\ e.mode = d.mode /\ e.regions = d.regions /\ e.listing = d.listing
      /\ e.next = d.next /\ e.back = d.back /\ e.forward = d.forward
  BY <1>3 DEF DisasmInv, Disasms
<1> HIDE DEF e
<1>6. DisasmInv(e, code, patched)
  BY <1>5, SameListing DEF DisasmInv
<1> QED
  BY <1>4, <1>5, <1>6

\* try_parse_address.
LEMMA TryKeeps ==
  ASSUME NEW d, NEW table, NEW patched, DisasmInv(d, table, patched), NEW a \in Nat
  PROVE  DisasmInv(TryAddress(d, a), table, patched)
  BY NavigateKeeps DEF TryAddress

LEMMA RowFacts ==
  ASSUME NEW row \in Rows
  PROVE  row.at \in Nat /\ row.len \in Nat /\ EndOf(row) = row.at + row.len /\ EndOf(row) \in Nat
  BY DEF Rows, EndOf

\* GoesOn where the listing jumps.
LEMMA GapGoesOn ==
  ASSUME NEW d, NEW table, NEW patched, NEW row, NEW a, NEW r, RegionOf(d, row.at) = r,
         r[2] <= a, \E q \in d.regions : q[1] = a,
         EndOf(row) = r[2] \/ patched # {} \/ Blocked(table, EndOf(row), r[2]),
         patched # {} \/ \A q \in d.regions : q[1] \in r[2] .. a - 1 => Blocked(table, q[1], q[2])
  PROVE  GoesOn(d, table, patched, row, a)
  BY Zenon DEF GoesOn

\* extend_linear: the next chunk.
LEMMA ExtendKeeps ==
  ASSUME Table(code), NEW d, NEW patched, DisasmInv(d, code, patched), d.mode = "Linear"
  PROVE  DisasmInv(ExtendLinear(d), code, patched)
<1>1. /\ d \in Disasms /\ d.next \in Nat /\ d.listing \in Seq(Rows) /\ d.regions \subseteq AllRegions
      /\ ListingInv(d, code, patched)
  BY DEF DisasmInv, Disasms
<1>2. CASE Len(d.listing) >= MaxListing \/ d.next = NoAddr
  <2> DEFINE e == [d EXCEPT !.next = NoAddr]
  <2>1. ExtendLinear(d) = e
    BY <1>2 DEF ExtendLinear
  <2>2. /\ e \in Disasms /\ e.mode = d.mode /\ e.regions = d.regions /\ e.listing = d.listing
        /\ e.next = NoAddr
    BY <1>1 DEF Disasms, NoAddr
  <2> HIDE DEF e
  <2>3. \A row, a : GoesOn(d, code, patched, row, a) <=> GoesOn(e, code, patched, row, a)
    BY <2>2 DEF GoesOn, RegionOf
  <2>4. \A row : RowShown(d, code, patched, row) <=> RowShown(e, code, patched, row)
    BY <2>2 DEF RowShown
  <2>5. ListingInv(e, code, patched)
    BY <1>1, <2>2, <2>3, <2>4 DEF ListingInv
  <2> QED
    BY <2>1, <2>2, <2>5 DEF DisasmInv
<1>3. CASE ~(Len(d.listing) >= MaxListing \/ d.next = NoAddr)
  <2> DEFINE region == RegionOf(d, d.next)
             end == region[2]
             stop == Min({end, d.next + ChunkBytes})
             got == DecodeRange(code, d.next, stop)
             next == AfterChunk(d, d.next, end, got)
             e == [d EXCEPT !.listing = d.listing \o got, !.next = next]
  <2>1. InRegion(d, d.next) /\ (d.listing # <<>> => /\ GoesOn(d, code, patched, Last(d.listing), d.next)
                                                    /\ EndOf(Last(d.listing)) <= d.next)
    BY <1>1, <1>3 DEF ListingInv
  <2>2. region \in d.regions /\ Holds(region, d.next)
    BY <2>1 DEF InRegion, RegionOf
  <2>3. ExtendLinear(d) = e
    BY <1>1, <1>3, <2>1 DEF ExtendLinear, Disasms
  <2> HIDE DEF region
  <2>4. /\ region \in AllRegions /\ region[1] \in Nat /\ end \in Nat /\ region[1] <= d.next
        /\ d.next < end
    BY <1>1, <2>2, RegionBounds DEF Holds
  <2>5. /\ ChunkBytes \in Nat \ {0} /\ Overlap \in Nat \ {0} /\ Overlap <= ChunkBytes
        /\ d.next + ChunkBytes \in Nat
    BY <1>1, CodeBrowserAssumption
  <2>6. stop = IF end <= d.next + ChunkBytes THEN end ELSE d.next + ChunkBytes
    BY <2>4, <2>5, MinOfTwo
  <2>7. stop \in Nat /\ d.next < stop /\ stop <= end
    BY <1>1, <2>4, <2>5, <2>6
  <2>8. got \in Seq(Rows) /\ Decoded(code, got, d.next, stop)
    <3> HIDE DEF stop
    <3>1. Table(code) /\ d.next \in Nat /\ stop \in Nat /\ d.next <= stop
      BY <1>1, <2>7
    <3> QED
      BY <3>1, DecodeRangeFacts
  <2>9. d.next \in DOMAIN code /\ code[d.next] \in 0 .. Overlap
    BY <1>1, <2>4 DEF Table
  <2>10. got = <<>> => code[d.next] = 0 \/ d.next + code[d.next] > end
    <3>1. SUFFICES ASSUME got = <<>> PROVE code[d.next] = 0 \/ d.next + code[d.next] > end
      OBVIOUS
    <3>2. code[d.next] = 0 \/ d.next + code[d.next] > stop
      BY <1>1, <2>7, <2>8, <2>9, <3>1 DEF Decoded, RangeStops
    <3> QED
      BY <1>1, <2>4, <2>5, <2>6, <2>9, <3>2
  <2> HIDE DEF stop, got
  <2>11. \A i \in 1 .. Len(got) : /\ got[i] \in Rows /\ got[i].at \in Nat /\ got[i].len \in Nat
                                  /\ EndOf(got[i]) \in Nat
    <3>1. \A i \in 1 .. Len(got) : got[i] \in Rows
      BY <2>8
    <3> QED
      BY <3>1, RowFacts
  \* What is added lies in the region and is the code that is there.
  <2>12. ASSUME NEW i \in 1 .. Len(got)
         PROVE  /\ got[i].len > 0 /\ code[got[i].at] = got[i].len /\ EndOf(got[i]) <= end
                /\ Holds(region, got[i].at) /\ RegionOf(d, got[i].at) = region
    <3>1. /\ d.next <= got[i].at /\ got[i].len > 0 /\ EndOf(got[i]) <= stop
          /\ code[got[i].at] = got[i].len
      BY <2>8 DEF Decoded
    <3>2. got[i].at < EndOf(got[i])
      BY <2>11, <3>1 DEF EndOf
    <3>3. Holds(region, got[i].at) /\ EndOf(got[i]) <= end
      BY <1>1, <2>4, <2>7, <2>11, <3>1, <3>2 DEF Holds
    <3> QED
      BY <1>1, <2>2, <2>11, <3>1, <3>3, RegionOfIs
  \* Where the next chunk starts.
  <2>13. /\ next \in Nat
         /\ next # NoAddr => InRegion(d, next)
         /\ got # <<>> /\ next # NoAddr =>
              GoesOn(d, code, patched, Last(got), next) /\ EndOf(Last(got)) <= next
         /\ got = <<>> => next = NextRegionStart(d, end) /\ (next # NoAddr => end <= next)
    <3>1. /\ NextRegionStart(d, end) \in Nat
          /\ NextRegionStart(d, end) # NoAddr =>
               /\ InRegion(d, NextRegionStart(d, end)) /\ end <= NextRegionStart(d, end)
               /\ \E r \in d.regions : r[1] = NextRegionStart(d, end)
               /\ \A r \in d.regions : ~(r[1] \in end .. NextRegionStart(d, end) - 1)
      BY <1>1, <2>4, NextRegionFacts
    <3>2. CASE got # <<>>
      <4>1. Len(got) \in 1 .. Len(got) /\ Last(got) = got[Len(got)]
        BY <2>8, <3>2, EmptySeq DEF Last
      <4>2. /\ Last(got).at \in Nat /\ EndOf(Last(got)) \in Nat /\ EndOf(Last(got)) <= end
            /\ RegionOf(d, Last(got).at) = region /\ Last(got).at < EndOf(Last(got))
            /\ Holds(region, Last(got).at)
        BY <2>11, <2>12, <4>1 DEF EndOf
      <4>3. CASE EndOf(Last(got)) < end
        <5>1. next = EndOf(Last(got))
          BY <3>2, <4>3 DEF AfterChunk
        <5>2. Holds(region, next)
          BY <2>4, <4>2, <4>3, <5>1 DEF Holds
        <5> QED
          BY <2>2, <3>2, <4>2, <5>1, <5>2 DEF InRegion, GoesOn
      <4>4. CASE ~(EndOf(Last(got)) < end)
        <5>1. next = NextRegionStart(d, end) /\ EndOf(Last(got)) = end
          BY <2>4, <3>2, <4>2, <4>4 DEF AfterChunk
        <5> QED
          BY <3>1, <3>2, <4>2, <5>1 DEF GoesOn
      <4> QED
        BY <4>3, <4>4
    <3>3. CASE got = <<>>
      BY <3>1, <3>3 DEF AfterChunk
    <3> QED
      BY <3>2, <3>3
  <2> HIDE DEF next
  <2> DEFINE m == Len(d.listing)
             n == Len(got)
             all == d.listing \o got
  <2>14. /\ all \in Seq(Rows) /\ Len(all) = m + n /\ m \in Nat /\ n \in Nat
         /\ \A i \in 1 .. m : all[i] = d.listing[i]
         /\ \A i \in 1 .. n : all[m + i] = got[i]
    BY <1>1, <2>8
  <2>15. /\ e \in Disasms /\ e.mode = d.mode /\ e.regions = d.regions /\ e.listing = all
         /\ e.next = next
    BY <1>1, <2>13, <2>14 DEF Disasms
  <2> HIDE DEF e, all
  <2>16. \A row, a : GoesOn(d, code, patched, row, a) <=> GoesOn(e, code, patched, row, a)
    BY <2>15 DEF GoesOn, RegionOf
  <2>17. \A row : RowShown(d, code, patched, row) <=> RowShown(e, code, patched, row)
    BY <2>15 DEF RowShown
  <2>18. \A i \in 1 .. m : /\ d.listing[i] \in Rows /\ d.listing[i].at \in Nat /\ d.listing[i].len \in Nat
                           /\ EndOf(d.listing[i]) \in Nat /\ d.listing[i].len > 0
    <3>1. \A i \in 1 .. m : d.listing[i] \in Rows
      BY <1>1
    <3>2. \A i \in 1 .. m : d.listing[i].len > 0
      BY <1>1 DEF ListingInv, RowShown
    <3> QED
      BY <3>1, <3>2, RowFacts
  <2> HIDE DEF m, n
  <2>19. ASSUME NEW i \in 1 .. m + n PROVE i \in 1 .. m \/ (i - m \in 1 .. n /\ i = m + (i - m))
    BY <2>14
  <2>20. ASSUME NEW i \in 1 .. m + n PROVE RowShown(e, code, patched, all[i])
    <3>1. CASE i \in 1 .. m
      BY <1>1, <2>14, <2>17, <3>1 DEF ListingInv, m
    <3>2. CASE i - m \in 1 .. n /\ i = m + (i - m)
      <4>1. all[i] = got[i - m]
        BY <2>14, <3>2
      <4>2. RowShown(d, code, patched, got[i - m])
        BY <2>2, <2>12, <3>2 DEF RowShown, n
      <4> QED
        BY <2>17, <4>1, <4>2
    <3> QED
      BY <2>19, <3>1, <3>2
  \* The listing ends before the chunk starts.
  <2>21. ASSUME NEW i \in 1 .. m PROVE EndOf(d.listing[i]) <= d.next
    <3>1. d.listing # <<>> /\ m \in 1 .. m /\ Last(d.listing) = d.listing[m]
      BY <1>1, <2>14 DEF m, Last
    <3>2. EndOf(d.listing[m]) <= d.next
      BY <2>1, <3>1
    <3>3. CASE i = m
      BY <3>2, <3>3
    <3>4. CASE i # m
      <4>1. EndOf(d.listing[i]) <= d.listing[m].at
        BY <1>1, <2>14, <3>1, <3>4 DEF ListingInv, m
      <4>2. d.listing[m].at <= EndOf(d.listing[m])
        BY <2>18, <3>1 DEF EndOf
      <4> QED
        BY <1>1, <2>18, <3>1, <3>2, <4>1, <4>2
    <3> QED
      BY <3>3, <3>4
  <2>22. ASSUME NEW i \in 1 .. m + n, NEW j \in 1 .. m + n, i < j PROVE EndOf(all[i]) <= all[j].at
    <3>1. CASE j \in 1 .. m
      <4>1. i \in 1 .. m
        BY <2>14, <2>22, <3>1
      <4> QED
        BY <1>1, <2>14, <2>22, <3>1, <4>1 DEF ListingInv, m
    <3>2. CASE j - m \in 1 .. n /\ j = m + (j - m)
      <4>1. all[j] = got[j - m]
        BY <2>14, <3>2
      <4>2. d.next <= got[j - m].at
        BY <2>8, <3>2 DEF Decoded, n
      <4>3. CASE i \in 1 .. m
        <5>1. all[i] = d.listing[i] /\ EndOf(d.listing[i]) <= d.next /\ EndOf(d.listing[i]) \in Nat
          BY <2>14, <2>18, <2>21, <4>3
        <5>2. got[j - m].at \in Nat
          BY <2>11, <3>2 DEF n
        <5> QED
          BY <1>1, <4>1, <4>2, <5>1, <5>2
      <4>4. CASE i - m \in 1 .. n /\ i = m + (i - m)
        <5>1. all[i] = got[i - m] /\ i - m < j - m
          BY <2>14, <2>22, <4>4
        <5> QED
          BY <2>8, <3>2, <4>1, <4>4, <5>1 DEF Decoded, n
      <4> QED
        BY <2>19, <4>3, <4>4
    <3> QED
      BY <2>19, <3>1, <3>2
  <2>23. ASSUME NEW i \in 1 .. m + n - 1 PROVE GoesOn(e, code, patched, all[i], all[i + 1].at)
    <3>1. CASE i + 1 \in 1 .. m
      <4>1. i \in 1 .. m - 1 /\ all[i] = d.listing[i] /\ all[i + 1] = d.listing[i + 1]
        BY <2>14, <3>1
      <4> QED
        BY <1>1, <2>16, <4>1 DEF ListingInv, m
    <3>2. CASE i = m /\ n > 0
      <4>1. /\ d.listing # <<>> /\ Last(d.listing) = d.listing[m] /\ all[m] = d.listing[m]
            /\ all[m + 1] = got[1] /\ got # <<>>
        <5>1. m \in 1 .. m /\ 1 \in 1 .. n
          BY <2>14, <2>23, <3>2
        <5>2. all[m] = d.listing[m] /\ all[m + 1] = got[1]
          BY <2>14, <5>1
        <5>3. d.listing # <<>> /\ got # <<>>
          BY <5>1 DEF m, n
        <5> QED
          BY <5>2, <5>3 DEF m, Last
      <4>2. got[1].at = d.next
        BY <2>8, <4>1 DEF Decoded
      <4> QED
        BY <2>1, <2>16, <3>2, <4>1, <4>2
    <3>3. CASE i - m \in 1 .. n - 1
      <4>1. /\ i = m + (i - m) /\ i + 1 = m + ((i - m) + 1) /\ i - m \in 1 .. n
            /\ (i - m) + 1 \in 1 .. n
        BY <2>14, <3>3
      <4>2. all[i] = got[i - m] /\ all[i + 1] = got[(i - m) + 1]
        BY <2>14, <4>1
      <4>3. got[(i - m) + 1].at = EndOf(got[i - m])
        BY <2>8, <3>3 DEF Decoded, n
      <4> QED
        BY <4>2, <4>3 DEF GoesOn
    <3> QED
      BY <2>14, <3>1, <3>2, <3>3
  <2>24. ASSUME e.next # NoAddr
         PROVE  /\ InRegion(e, e.next)
                /\ all # <<>> => GoesOn(e, code, patched, Last(all), e.next) /\ EndOf(Last(all)) <= e.next
    <3>1. InRegion(e, e.next)
      BY <2>13, <2>15, <2>24 DEF InRegion
    <3>2. CASE got # <<>>
      <4>1. n \in 1 .. n /\ Last(all) = Last(got)
        BY <2>8, <2>14, <3>2 DEF Last, n
      <4> QED
        BY <2>13, <2>15, <2>16, <2>24, <3>1, <3>2, <4>1
    \* Nothing decodes: the gap is behind the last row that was there.
    <3>3. CASE got = <<>> /\ d.listing # <<>>
      <4> DEFINE row == Last(d.listing)
      <4>1. n = 0 /\ m \in 1 .. m /\ Last(all) = row /\ row = d.listing[m]
        BY <1>1, <2>8, <2>14, <3>3 DEF Last, n, m
      <4>2. row.at \in Nat /\ EndOf(row) \in Nat /\ row.at < EndOf(row)
        BY <2>18, <4>1 DEF EndOf
      <4>3. PICK r \in d.regions : Holds(r, row.at) /\ EndOf(row) <= r[2]
        BY <1>1, <4>1 DEF ListingInv, RowShown, m
      <4>4. RegionOf(d, row.at) = r /\ r[1] \in Nat /\ r[2] \in Nat /\ r \in AllRegions
        BY <1>1, <4>2, <4>3, RegionOfIs, RegionBounds
      <4>5. next = NextRegionStart(d, end) /\ next # NoAddr /\ end <= next /\ next \in Nat
        BY <2>13, <2>15, <2>24, <3>3
      <4>6. GoesOn(d, code, patched, row, d.next) /\ EndOf(row) <= d.next
        BY <2>1, <3>3
      <4> HIDE DEF row
      <4>7. /\ \E q \in d.regions : q[1] = next
            /\ \A q \in d.regions : ~(q[1] \in end .. next - 1)
        BY <1>1, <2>4, <4>5, NextRegionFacts
      <4>8. Blocked(code, d.next, end)
        BY <2>10, <3>3 DEF Blocked
      <4>9. r[1] <= row.at /\ row.at < r[2] /\ EndOf(row) <= r[2]
        BY <4>3 DEF Holds
      <4>10. ASSUME d.next < r[2] PROVE GoesOn(d, code, patched, row, next)
        <5>1. d.next = EndOf(row)
          BY <1>1, <4>2, <4>4, <4>6, <4>10 DEF GoesOn
        <5>2. Holds(r, d.next)
          BY <1>1, <4>2, <4>4, <4>9, <4>10, <5>1 DEF Holds
        <5>3. region = r
          BY <1>1, <4>3, <5>2, RegionOfIs DEF region
        <5> QED
          BY <4>4, <4>5, <4>7, <4>8, <5>1, <5>3, GapGoesOn
      <4>11. ASSUME ~(d.next < r[2]) PROVE GoesOn(d, code, patched, row, next)
        \* The chunk started a region, and that region is skipped too.
        <5>1. region[1] = d.next /\ r[2] <= d.next
          <6>1. r[2] <= d.next
            BY <1>1, <4>4, <4>11
          <6>2. CASE d.next = EndOf(row)
            <7>1. d.next = r[2] /\ r # region
              BY <1>1, <2>2, <4>2, <4>4, <4>9, <6>1, <6>2, RegionBounds DEF Holds
            <7>2. region[2] <= r[1] \/ r[2] <= region[1]
              BY <2>4, <4>4, <7>1, RegionsAssumption
            <7> QED
              BY <1>1, <2>4, <4>2, <4>4, <4>9, <7>1, <7>2
          <6>3. CASE d.next # EndOf(row)
            <7>1. PICK q \in d.regions : q[1] = d.next
              BY <4>6, <6>3 DEF GoesOn
            <7>2. Holds(q, d.next)
              BY <1>1, <7>1, RegionBounds
            <7>3. region = q
              BY <1>1, <7>2, RegionOfIs DEF region
            <7> QED
              BY <6>1, <7>1, <7>3
          <6> QED
            BY <6>2, <6>3
        <5>2. EndOf(row) = r[2] \/ patched # {} \/ Blocked(code, EndOf(row), r[2])
          BY <1>1, <4>2, <4>4, <4>6, <4>9, <5>1 DEF GoesOn
        <5>3. patched # {} \/ \A q \in d.regions : q[1] \in r[2] .. d.next - 1 => Blocked(code, q[1], q[2])
          <6>1. CASE d.next = EndOf(row)
            <7>1. r[2] .. d.next - 1 = {}
              BY <1>1, <4>2, <4>4, <4>9, <6>1
            <7> QED
              BY <7>1
          <6>2. CASE d.next # EndOf(row)
            BY <4>4, <4>6, <6>2 DEF GoesOn
          <6> QED
            BY <6>1, <6>2
        <5>4. ASSUME NEW q \in d.regions, q[1] \in r[2] .. next - 1, patched = {}
              PROVE  Blocked(code, q[1], q[2])
          <6>1. q[1] \in Nat /\ q[2] \in Nat /\ q[1] < q[2] /\ q \in AllRegions
            BY <1>1, RegionBounds
          <6>2. CASE q[1] < d.next
            BY <1>1, <4>4, <5>3, <5>4, <6>1, <6>2
          <6>3. CASE ~(q[1] < d.next)
            <7>1. q[1] < end
              BY <2>4, <4>5, <4>7, <5>4, <6>1
            <7>2. q = region
              <8>1. q # region => q[2] <= region[1] \/ region[2] <= q[1]
                BY <2>4, <6>1, RegionsAssumption
              <8> QED
                BY <1>1, <2>4, <5>1, <6>1, <6>3, <7>1, <8>1
            <7> QED
              BY <4>8, <5>1, <7>2
          <6> QED
            BY <6>2, <6>3
        <5>5. r[2] <= next
          BY <1>1, <2>4, <4>4, <4>5, <5>1
        <5> QED
          BY <4>4, <4>7, <5>2, <5>4, <5>5, GapGoesOn
      <4>12. GoesOn(d, code, patched, row, next)
        BY <4>10, <4>11
      <4> QED
        BY <1>1, <2>4, <2>15, <2>16, <3>1, <4>1, <4>2, <4>5, <4>6, <4>12
    <3>4. CASE got = <<>> /\ d.listing = <<>>
      <4>1. all = <<>>
        BY <3>4 DEF all
      <4> QED
        BY <3>1, <4>1
    <3> QED
      BY <3>2, <3>3, <3>4
  <2>25. ListingInv(e, code, patched)
    BY <2>14, <2>15, <2>20, <2>22, <2>23, <2>24 DEF ListingInv
  <2> QED
    BY <2>3, <2>15, <2>25 DEF DisasmInv
<1> QED
  BY <1>2, <1>3

LEMMA ScrolledKeeps ==
  ASSUME Table(code), NEW d, NEW patched, DisasmInv(d, code, patched)
  PROVE  DisasmInv(Scrolled(d), code, patched)
  BY ExtendKeeps DEF Scrolled

\* set_selected_modules.
LEMMA SelectingKeeps ==
  ASSUME Table(code), NEW d \in Disasms, NEW rs \in SUBSET AllRegions, NEW patched
  PROVE  DisasmInv(Selecting(d, rs), code, patched)
<1> DEFINE linear == [d EXCEPT !.mode = "Linear", !.regions = rs]
           start == Min({r[1] : r \in rs})
           back == IF d.focus = NoAddr THEN d.back ELSE Capped(d.back, d.focus)
           e == [linear EXCEPT !.back = back, !.forward = <<>>, !.focus = start]
<1>1. linear \in Disasms
  BY DEF Disasms
<1>2. CASE rs = {}
  <2> DEFINE f == [linear EXCEPT !.listing = <<>>, !.next = NoAddr]
  <2>1. Selecting(d, rs) = f
    BY <1>2 DEF Selecting
  <2>2. f \in Disasms /\ f.listing = <<>> /\ f.next = NoAddr
    BY <1>1, NoRows DEF Disasms, NoAddr
  <2> HIDE DEF f
  <2>3. ListingInv(f, code, patched)
    BY <2>2 DEF ListingInv
  <2> QED
    BY <2>1, <2>2, <2>3 DEF DisasmInv
<1>3. CASE rs # {}
  <2>1. start \in Nat
    <3> DEFINE starts == {r[1] : r \in rs}
    <3>1. starts \in SUBSET Nat /\ starts # {}
      BY <1>3, RegionBounds
    <3>2. Min(starts) \in starts
      <4> HIDE DEF starts
      <4> QED
        BY <3>1, MinFacts
    <3> QED
      BY <3>1, <3>2
  <2>2. back \in Seq(Nat)
    BY CappedType DEF Disasms
  <2>3. Selecting(d, rs) = ExtendLinear(LinearReset(e, start))
    BY <1>3 DEF Selecting, Disasms
  <2> HIDE DEF start, back
  <2>4. e \in Disasms /\ e.mode = "Linear"
    BY <1>1, <2>1, <2>2, NoRows DEF Disasms
  <2> HIDE DEF e
  <2>5. DisasmInv(LinearReset(e, start), code, patched) /\ LinearReset(e, start).mode = "Linear"
    BY <2>1, <2>4, ResetKeeps
  <2> QED
    BY <2>3, <2>5, ExtendKeeps
<1> QED
  BY <1>2, <1>3

\* A patch leaves a table of instructions.
LEMMA NoppedTable ==
  ASSUME Table(code), NEW i, NEW n
  PROVE  Table(Nopped(i, n))
  BY CodeBrowserAssumption DEF Table, Nopped

\* The rows that are acted on.
LEMMA ActiveRows ==
  ASSUME NEW d \in Disasms, NEW i \in Active(d)
  PROVE  i \in Rows /\ (d.mode = "Linear" => \E k \in 1 .. Len(d.listing) : i = d.listing[k])
<1>1. d.listing \in Seq(Rows) /\ d.cache.insns \in Seq(Rows)
  BY DEF Disasms
<1> QED
  BY <1>1 DEF Active, Range

\* Writing some bytes of a row that fails midway tears that row and no other.
LEMMA TearKeeps ==
  ASSUME Table(code), NEW patched, DisasmInv(disasm, code, patched), NEW i \in Active(disasm)
  PROVE  DisasmInv(disasm, Nopped(i, i.len - 1), patched \cup {i.at})
<1> DEFINE l == disasm.listing
           table == Nopped(i, i.len - 1)
           torn1 == patched \cup {i.at}
<1>1. disasm \in Disasms /\ ListingInv(disasm, code, patched) /\ l \in Seq(Rows)
  BY DEF DisasmInv, Disasms
<1>2. SUFFICES ASSUME disasm.mode = "Linear" PROVE ListingInv(disasm, table, torn1)
  BY <1>1 DEF DisasmInv, ListingInv
<1>3. PICK k \in 1 .. Len(l) : i = l[k]
  BY <1>1, <1>2, ActiveRows
<1>4. torn1 # {} /\ i.at \in torn1 /\ patched \subseteq torn1
  OBVIOUS
<1>5. \A row, a : GoesOn(disasm, code, patched, row, a) => GoesOn(disasm, table, torn1, row, a)
  BY <1>4 DEF GoesOn
<1>6. ASSUME NEW j \in 1 .. Len(l) PROVE RowShown(disasm, table, torn1, l[j])
  <2>1. RowShown(disasm, code, patched, l[j])
    BY <1>1, <1>2, <1>6 DEF ListingInv
  <2>2. CASE j = k
    BY <1>3, <1>4, <2>1, <2>2 DEF RowShown
  <2>3. CASE j # k
    <3>1. l[j] \in Rows /\ l[k] \in Rows /\ l[j].len > 0 /\ l[k].len > 0
      BY <1>1, <1>2, <1>3, <1>6 DEF ListingInv, RowShown
    <3>2. /\ l[j].at \in Nat /\ l[j].len \in Nat /\ EndOf(l[j]) = l[j].at + l[j].len
          /\ l[k].at \in Nat /\ l[k].len \in Nat /\ EndOf(l[k]) = l[k].at + l[k].len
      BY <3>1, RowFacts
    <3>3. EndOf(l[j]) <= l[k].at \/ EndOf(l[k]) <= l[j].at
      <4>1. j < k \/ k < j
        BY <1>3, <1>6, <2>3
      <4> QED
        BY <1>1, <1>2, <1>3, <1>6, <4>1 DEF ListingInv
    <3>4. l[j].at \notin i.at .. i.at + (i.len - 1) - 1
      <4> DEFINE x == l[j].at
                 y == l[j].len
                 u == l[k].at
                 v == l[k].len
      <4>1. x \in Nat /\ y \in Nat /\ u \in Nat /\ v \in Nat /\ y > 0 /\ v > 0
        BY <3>1, <3>2
      <4>2. x + y <= u \/ u + v <= x
        BY <3>2, <3>3
      <4> HIDE DEF x, y, u, v
      <4>3. x \notin u .. u + (v - 1) - 1
        BY <4>1, <4>2
      <4> QED
        BY <1>3, <4>3 DEF x, u, v
    <3>5. l[j].at \in DOMAIN code
      <4>1. PICK r \in disasm.regions : Holds(r, l[j].at)
        BY <2>1 DEF RowShown
      <4>2. r \in AllRegions
        BY <1>1, <4>1 DEF Disasms
      <4>3. l[j].at \in r[1] .. r[2] - 1
        BY <3>2, <4>1, <4>2, RegionBounds DEF Holds
      <4> QED
        BY <4>2, <4>3 DEF Table
    <3>6. table[l[j].at] = code[l[j].at]
      BY <3>4, <3>5 DEF Nopped
    <3> HIDE DEF table
    <3> QED
      BY <1>4, <2>1, <3>6 DEF RowShown
  <2> QED
    BY <2>2, <2>3
<1> HIDE DEF table, torn1
<1> QED
  BY <1>1, <1>2, <1>5, <1>6 DEF ListingInv

-----------------------------------------------------------------------------
(* What a dissect makes of a region, chunk after chunk.                    *)

Refs == Branches \cup Loads

\* Makes, of what is decoded from a on.
MadeFrom(table, patched, a, end, b) ==
  \E i \in Range(DecodeAll(table, a, end)) :
    i.at = b[1] /\ i.len = table[b[1]] /\ i.at .. i.at + i.len - 1 \cap patched = {}

\* A reference is a pair of addresses.
LEMMA RefFacts ==
  ASSUME NEW b \in Refs
  PROVE  b[1] \in Nat /\ b[2] \in Nat
  BY RefsAssumption DEF Refs

LEMMA RegionCovered ==
  ASSUME NEW table, Table(table), NEW r \in AllRegions
  PROVE  r[1] \in Nat /\ r[2] \in Nat /\ r[1] < r[2] /\ Covered(table, r[1], r[2])
<1>1. r[1] \in Nat /\ r[2] \in Nat /\ r[1] < r[2]
  BY RegionBounds
<1>2. Covered(table, r[1], r[2])
  BY DEF Table, Covered
<1> QED
  BY <1>1, <1>2

\* Regions do not share an end or an address.
LEMMA RegionsApart ==
  ASSUME NEW r \in AllRegions, NEW q \in AllRegions
  PROVE  /\ r[2] = q[2] => r = q
         /\ \A a \in Nat : Holds(r, a) /\ Holds(q, a) => r = q
<1>1. /\ r[1] \in Nat /\ r[2] \in Nat /\ r[1] < r[2]
      /\ q[1] \in Nat /\ q[2] \in Nat /\ q[1] < q[2]
  BY RegionBounds
<1>2. r # q => r[2] <= q[1] \/ q[2] <= r[1]
  BY RegionsAssumption
<1>3. r[2] = q[2] => r = q
  BY <1>1, <1>2
<1>4. ASSUME NEW a \in Nat, Holds(r, a), Holds(q, a) PROVE r = q
  BY <1>1, <1>2, <1>4 DEF Holds
<1> QED
  BY <1>3, <1>4

\* record_instruction keeps what the rows it is given make.
LEMMA RefsOfRows ==
  ASSUME NEW table, NEW patched, NEW insns \in Seq(Rows), NEW b \in Refs
  PROVE  b \in RefsOf(table, patched, insns) <=>
           \E i \in Range(insns) :
             i.at = b[1] /\ i.len = table[b[1]] /\ i.at .. i.at + i.len - 1 \cap patched = {}
<1>1. Range(insns) = {insns[k] : k \in 1 .. Len(insns)}
  BY RangeEquality
<1>2. ASSUME NEW i \in Rows
      PROVE  i = Insn(b[1], table[b[1]]) <=> i.at = b[1] /\ i.len = table[b[1]]
  BY <1>2 DEF Rows, Insn
<1>3. \A i \in Rows : InsnBytes(i) = i.at .. i.at + i.len - 1
  BY DEF InsnBytes, EndOf, Rows
<1>4. \A k \in 1 .. Len(insns) : insns[k] \in Rows
  OBVIOUS
<1>5. b \in RefsOf(table, patched, insns) <=>
        \E k \in 1 .. Len(insns) :
          insns[k] = Insn(b[1], table[b[1]]) /\ InsnBytes(insns[k]) \cap patched = {}
  BY DEF RefsOf, Refs
<1> QED
  BY <1>1, <1>2, <1>3, <1>4, <1>5

\* References from a on are made between a and the end of the region.
LEMMA MadeInside ==
  ASSUME NEW table, Table(table), NEW patched, NEW r \in AllRegions, NEW a \in r[1] .. r[2],
         NEW b \in Refs, MadeFrom(table, patched, a, r[2], b)
  PROVE  b[1] \in a .. r[2] - 1
<1>1. PICK i \in Range(DecodeAll(table, a, r[2])) : i.at = b[1]
  BY DEF MadeFrom
<1>2. r[1] \in Nat /\ r[2] \in Nat /\ r[1] <= r[2] /\ Covered(table, r[1], r[2])
  BY RegionCovered
<1> QED
  BY <1>1, <1>2, RowsInside

\* A chunk makes the references from its start on that come before the next chunk.
LEMMA ChunkMakes ==
  ASSUME NEW table, Table(table), NEW patched, NEW r \in AllRegions,
         NEW p \in r[1] .. r[2], p < r[2],
         NEW got, got = DissectChunk(table, p, r[2]), NEW next, next = EndOf(Last(got))
  PROVE  /\ next \in p + 1 .. r[2]
         /\ \A b \in Refs :
              /\ MadeFrom(table, patched, p, r[2], b) <=>
                   b \in RefsOf(table, patched, got) \/ MadeFrom(table, patched, next, r[2], b)
              /\ b \in RefsOf(table, patched, got) => p <= b[1] /\ b[1] < next
<1>1. r[1] \in Nat /\ r[2] \in Nat /\ r[1] <= r[2] /\ Covered(table, r[1], r[2])
  BY RegionCovered
<1>2. PICK D \in [r[1] .. r[2] -> Seq(Rows)] :
        /\ UntilEq(D, table, r[1], r[2], r[2])
        /\ \A a \in r[1] .. r[2] : D[a] = DecodeAll(table, a, r[2])
  BY <1>1, PlainDecode
<1>3. got \in Seq(Rows) /\ next \in p + 1 .. r[2] /\ Before(got, next) /\ D[p] = got \o D[next]
  BY <1>1, <1>2, ChunkDecodesPlainly
<1>4. p \in Nat /\ next \in r[1] .. r[2] /\ p \in r[1] .. r[2]
  BY <1>1, <1>3
<1>5. Range(DecodeAll(table, p, r[2])) = Range(got) \cup Range(DecodeAll(table, next, r[2]))
  <2>1. D[next] \in Seq(Rows) /\ D[next] = DecodeAll(table, next, r[2])
    BY <1>2, <1>4
  <2>2. D[p] = DecodeAll(table, p, r[2])
    BY <1>2
  <2>3. Range(got \o D[next]) = Range(got) \cup Range(D[next])
    BY <1>3, <2>1, RangeConcatenation
  <2> QED
    BY <1>3, <2>1, <2>2, <2>3
<1>6. ASSUME NEW b \in Refs
      PROVE  /\ MadeFrom(table, patched, p, r[2], b) <=>
                  b \in RefsOf(table, patched, got) \/ MadeFrom(table, patched, next, r[2], b)
             /\ b \in RefsOf(table, patched, got) => p <= b[1] /\ b[1] < next
  <2>1. b \in RefsOf(table, patched, got) <=>
          \E i \in Range(got) :
            i.at = b[1] /\ i.len = table[b[1]] /\ i.at .. i.at + i.len - 1 \cap patched = {}
    BY <1>3, RefsOfRows
  <2>2. MadeFrom(table, patched, p, r[2], b) <=>
          b \in RefsOf(table, patched, got) \/ MadeFrom(table, patched, next, r[2], b)
    BY <1>5, <2>1 DEF MadeFrom
  <2>3. ASSUME b \in RefsOf(table, patched, got) PROVE p <= b[1] /\ b[1] < next
    <3>1. PICK i \in Range(got) : i.at = b[1]
      BY <2>1, <2>3
    <3>2. i.at < next
      BY <1>3, <3>1 DEF Before
    <3>3. i \in Range(DecodeAll(table, p, r[2]))
      BY <1>5, <3>1
    <3>4. i.at \in p .. r[2] - 1
      BY <1>1, <1>4, <3>3, RowsInside
    <3> QED
      BY <3>1, <3>2, <3>4
  <2> QED
    BY <2>2, <2>3
<1> QED
  BY <1>3, <1>6

\* Patches elsewhere leave what a region makes.
LEMMA PatchElsewhere ==
  ASSUME NEW t, Table(t), NEW u, NEW patched, NEW bytes, NEW r \in AllRegions,
         r[1] .. r[2] - 1 \cap bytes = {}, \A a \in r[1] .. r[2] - 1 : u[a] = t[a],
         NEW a \in r[1] .. r[2], NEW b \in Refs
  PROVE  MadeFrom(u, patched \cup bytes, a, r[2], b) <=> MadeFrom(t, patched, a, r[2], b)
<1>1. r[1] \in Nat /\ r[2] \in Nat /\ r[1] <= r[2] /\ Covered(t, r[1], r[2]) /\ a \in Nat
  BY RegionCovered
<1>2. DecodeAll(u, a, r[2]) = DecodeAll(t, a, r[2])
  <2> DEFINE lo == r[1]
             hi == r[2]
  <2>1. /\ lo \in Nat /\ hi \in Nat /\ lo <= hi /\ Covered(t, lo, hi) /\ a \in lo .. hi
        /\ \A b1 \in lo .. hi - 1 : u[b1] = t[b1]
    BY <1>1
  <2> HIDE DEF lo, hi
  <2>2. DecodeAll(u, a, hi) = DecodeAll(t, a, hi)
    BY <2>1, SameDecode
  <2> QED
    BY <2>2 DEF hi
<1>3. ASSUME NEW i \in Range(DecodeAll(t, a, r[2])), i.at = b[1]
      PROVE  /\ u[b[1]] = t[b[1]]
             /\ i.at .. i.at + i.len - 1 \cap (patched \cup bytes) = {} <=>
                  i.at .. i.at + i.len - 1 \cap patched = {}
  <2>1. i \in Rows /\ i.at \in a .. r[2] - 1 /\ i.at + i.len <= r[2]
    BY <1>1, <1>3, RowsInside
  <2>2. i.at \in Nat /\ i.len \in Nat
    BY <2>1 DEF Rows
  <2>3. i.at .. i.at + i.len - 1 \subseteq r[1] .. r[2] - 1 /\ b[1] \in r[1] .. r[2] - 1
    BY <1>1, <1>3, <2>1, <2>2
  <2> QED
    BY <2>3
<1> QED
  BY <1>2, <1>3 DEF MadeFrom

-----------------------------------------------------------------------------
(* The dissect job.                                                        *)

\* Region r was not patched while the job ran.
Unpatched(r, s) == r[1] .. r[2] - 1 \cap s.edited = {}

\* Interval i is the rest of region r: what is decoded from there on makes the references
\* the region makes from there on.
RestOf(i, r, s, table, patched) ==
  /\ i[1] \in Nat /\ r[1] <= i[1] /\ i[1] < r[2] /\ i[2] = r[2]
  /\ Unpatched(r, s) => \A b \in Refs :
       MadeFrom(table, patched, i[1], r[2], b) <=>
         MadeFrom(table, patched, r[1], r[2], b) /\ i[1] <= b[1]

Visited(j, s) == RegionsOf(j.of \cap s.been)

JobShape(j, s) ==
  /\ j = [stage |-> j.stage, of |-> j.of, todo |-> j.todo, left |-> j.left,
          index |-> j.index, refs |-> j.refs]
  /\ s = [been |-> s.been, stayed |-> s.stayed, edited |-> s.edited]
  /\ s.stayed \subseteq s.been /\ s.been \subseteq DOMAIN ModuleRegions
  /\ j.todo \subseteq j.of

\* What the worker has read agrees with what stayed and what has been.
JobStages(j, s, mods) ==
  /\ j.stage \in {"maps", "index", "chunks"} => s.stayed \subseteq mods /\ mods \subseteq s.been
  /\ j.stage = "chunks" => s.stayed \subseteq j.index /\ j.index \subseteq s.been
  /\ j.stage \in {"maps", "done"} => j.left = {}
  /\ j.stage = "done" => j.todo = {}

JobRests(j, s, table, patched) ==
  \A i \in j.left : \E r \in Visited(j, s) : RestOf(i, r, s, table, patched)

JobLocated(j, s) == \A b \in j.refs : b \in Refs /\ \E r \in Visited(j, s) : Holds(r, b[1])

JobSound(j, s, table, patched) ==
  \A r \in Visited(j, s), b \in j.refs :
    Holds(r, b[1]) /\ Unpatched(r, s) =>
      MadeFrom(table, patched, r[1], r[2], b) /\ Reaches(b, s.been)

\* What is not found yet of a module that stayed is still to come.
JobComplete(j, s, table, patched) ==
  \A m \in j.of \cap s.stayed : \A r \in ModuleRegions[m], b \in Refs :
    Unpatched(r, s) /\ MadeFrom(table, patched, r[1], r[2], b) /\ Reaches(b, s.stayed) =>
      \/ b \in j.refs \/ m \in j.todo
      \/ \E i \in j.left : i[2] = r[2] /\ i[1] <= b[1]

JobOk(j, s, table, patched, mods) ==
  /\ JobShape(j, s) /\ JobStages(j, s, mods) /\ JobRests(j, s, table, patched)
  /\ JobLocated(j, s) /\ JobSound(j, s, table, patched) /\ JobComplete(j, s, table, patched)

JobInv == JobOk(job, seen, code, nops, loaded)

LEMMA VisitedRegions ==
  ASSUME NEW j, NEW s, JobShape(j, s), NEW r \in Visited(j, s)
  PROVE  r \in AllRegions
  BY DEF JobShape, Visited, RegionsOf, AllRegions

\* What the worker goes on with.
LEMMA OnwardIs ==
  ASSUME NEW j, j = [stage |-> j.stage, of |-> j.of, todo |-> j.todo, left |-> j.left,
                     index |-> j.index, refs |-> j.refs]
  PROVE  /\ Onward(j) = [stage |-> Onward(j).stage, of |-> j.of, todo |-> j.todo, left |-> j.left,
                         index |-> j.index, refs |-> j.refs]
         /\ Onward(j).stage \in {"chunks", "maps", "done"}
         /\ Onward(j).stage = "chunks" <=> j.left # {}
         /\ Onward(j).stage = "done" => j.todo = {}
  BY DEF Onward

\* A job as it starts, and no job.
LEMMA StartOk ==
  ASSUME loaded \subseteq DOMAIN ModuleRegions, DoDissect
  PROVE  JobOk(job', seen', code, nops, loaded)
<1> DEFINE j == [stage |-> "maps", of |-> Selected, todo |-> Selected, left |-> {},
                 index |-> {}, refs |-> {}]
           s == [been |-> loaded, stayed |-> loaded, edited |-> {}]
<1>1. job' = j /\ seen' = s
  BY DEF DoDissect, NoDissectJob
<1> HIDE DEF j, s
<1>2. /\ JobShape(j, s) /\ JobStages(j, s, loaded) /\ j.left = {} /\ j.refs = {} /\ j.todo = j.of
  BY DEF j, s, JobShape, JobStages
<1>3. JobRests(j, s, code, nops) /\ JobLocated(j, s) /\ JobSound(j, s, code, nops)
  BY <1>2 DEF JobRests, JobLocated, JobSound
<1>4. JobComplete(j, s, code, nops)
  BY <1>2 DEF JobComplete
<1> QED
  BY <1>1, <1>2, <1>3, <1>4 DEF JobOk

LEMMA NoJobOk == \A table, patched, mods : JobOk(NoDissectJob, NothingSeen, table, patched, mods)
<1> DEFINE j == NoDissectJob
           s == NothingSeen
<1> SUFFICES ASSUME NEW table, NEW patched, NEW mods PROVE JobOk(j, s, table, patched, mods)
  OBVIOUS
<1>1. j.left = {} /\ j.refs = {} /\ j.of = {} /\ JobShape(j, s) /\ JobStages(j, s, mods)
  BY DEF NoDissectJob, NothingSeen, JobShape, JobStages
<1> HIDE DEF j, s
<1>2. JobRests(j, s, table, patched) /\ JobLocated(j, s) /\ JobSound(j, s, table, patched)
  BY <1>1 DEF JobRests, JobLocated, JobSound
<1>3. JobComplete(j, s, table, patched)
  BY <1>1 DEF JobComplete
<1> QED
  BY <1>1, <1>2, <1>3 DEF JobOk

\* The regions of the next module: all of them if it is loaded.
LEMMA NextModuleOk ==
  ASSUME JobInv, Table(code), NextModule
  PROVE  JobOk(job', seen, code, nops, loaded)
<1>1. PICK m \in job.todo : /\ job.stage = "maps"
                            /\ job' = [job EXCEPT !.stage = "index", !.todo = @ \ {m},
                                                  !.left = RegionsOf({m} \cap loaded)]
  BY DEF NextModule, WorkerStep
<1> DEFINE j == [stage |-> "index", of |-> job.of, todo |-> job.todo \ {m},
                 left |-> RegionsOf({m} \cap loaded), index |-> job.index, refs |-> job.refs]
<1>2. /\ JobShape(job, seen) /\ JobStages(job, seen, loaded) /\ JobLocated(job, seen)
      /\ JobSound(job, seen, code, nops) /\ JobComplete(job, seen, code, nops)
  BY DEF JobInv, JobOk
<1>3. job' = j
  BY <1>1, <1>2 DEF JobShape
<1>4. /\ j.stage = "index" /\ j.of = job.of /\ j.todo = job.todo \ {m} /\ j.refs = job.refs
      /\ j.left = RegionsOf({m} \cap loaded)
  OBVIOUS
<1>5. JobShape(j, seen)
  BY <1>2 DEF JobShape
<1> HIDE DEF j
<1>6. seen.stayed \subseteq loaded /\ loaded \subseteq seen.been /\ job.left = {} /\ m \in job.of
  BY <1>1, <1>2 DEF JobStages, JobShape
<1>7. JobStages(j, seen, loaded)
  BY <1>4, <1>6 DEF JobStages
<1>8. JobLocated(j, seen) /\ JobSound(j, seen, code, nops)
  BY <1>2, <1>4 DEF JobLocated, JobSound, Visited
<1>9. JobRests(j, seen, code, nops)
  <2>1. ASSUME NEW i \in j.left PROVE \E r \in Visited(j, seen) : RestOf(i, r, seen, code, nops)
    <3>1. i \in Visited(j, seen)
      BY <1>4, <1>6, <2>1 DEF Visited, RegionsOf
    <3>2. i \in AllRegions
      BY <1>5, <3>1, VisitedRegions
    <3>3. i[1] \in Nat /\ i[2] \in Nat /\ i[1] < i[2]
      BY <3>2, RegionBounds
    <3>4. \A b \in Refs : MadeFrom(code, nops, i[1], i[2], b) => i[1] <= b[1]
      <4>1. i[1] \in i[1] .. i[2]
        BY <3>3
      <4>2. ASSUME NEW b \in Refs, MadeFrom(code, nops, i[1], i[2], b) PROVE b[1] \in i[1] .. i[2] - 1
        BY <3>2, <4>1, <4>2, MadeInside
      <4> QED
        BY <3>3, <4>2
    <3>5. RestOf(i, i, seen, code, nops)
      BY <3>3, <3>4 DEF RestOf
    <3> QED
      BY <3>1, <3>5
  <2> QED
    BY <2>1 DEF JobRests
<1>10. JobComplete(j, seen, code, nops)
  <2>1. ASSUME NEW n \in j.of \cap seen.stayed, NEW r \in ModuleRegions[n], NEW b \in Refs,
               Unpatched(r, seen), MadeFrom(code, nops, r[1], r[2], b), Reaches(b, seen.stayed)
        PROVE  b \in j.refs \/ n \in j.todo \/ \E i \in j.left : i[2] = r[2] /\ i[1] <= b[1]
    <3>1. b \in job.refs \/ n \in job.todo
      BY <1>2, <1>4, <1>6, <2>1 DEF JobComplete
    <3>2. CASE n = m
      <4>1. r \in j.left
        BY <1>4, <1>6, <2>1, <3>2 DEF RegionsOf
      <4>2. r \in AllRegions
        BY <1>2, <2>1 DEF JobShape, AllRegions
      <4>3. r[1] \in r[1] .. r[2] /\ r[1] \in Nat /\ r[2] \in Nat
        BY <4>2, RegionBounds
      <4>4. b[1] \in r[1] .. r[2] - 1
        BY <2>1, <4>2, <4>3, MadeInside
      <4> QED
        BY <4>1, <4>3, <4>4
    <3>3. CASE n # m
      BY <1>4, <3>1, <3>3
    <3> QED
      BY <3>2, <3>3
  <2> QED
    BY <2>1 DEF JobComplete
<1> QED
  BY <1>3, <1>5, <1>7, <1>8, <1>9, <1>10 DEF JobOk

\* RegionIndex::from_pid.
LEMMA IndexOk ==
  ASSUME JobInv, IndexRegions
  PROVE  JobOk(job', seen, code, nops, loaded)
<1> DEFINE k == [stage |-> job.stage, of |-> job.of, todo |-> job.todo, left |-> job.left,
                 index |-> loaded, refs |-> job.refs]
           j == Onward(k)
<1>1. job.stage = "index" /\ JobShape(job, seen) /\ JobStages(job, seen, loaded)
  BY DEF JobInv, JobOk, IndexRegions
<1>2. job' = j
  <2>1. job' = Onward([job EXCEPT !.index = loaded])
    BY DEF IndexRegions, WorkerStep
  <2>2. [job EXCEPT !.index = loaded] = k
    BY <1>1 DEF JobShape
  <2> QED
    BY <2>1, <2>2
<1>3. /\ j = [stage |-> j.stage, of |-> job.of, todo |-> job.todo, left |-> job.left,
              index |-> loaded, refs |-> job.refs]
      /\ j.stage \in {"chunks", "maps", "done"} /\ j.stage = "chunks" <=> job.left # {}
      /\ j.stage = "done" => job.todo = {}
  <2>1. /\ k = [stage |-> k.stage, of |-> k.of, todo |-> k.todo, left |-> k.left,
                index |-> k.index, refs |-> k.refs]
        /\ k.of = job.of /\ k.todo = job.todo /\ k.left = job.left /\ k.index = loaded
        /\ k.refs = job.refs
    OBVIOUS
  <2> HIDE DEF k
  <2> QED
    BY <2>1, OnwardIs
<1> HIDE DEF j, k
<1>4. /\ j.of = job.of /\ j.todo = job.todo /\ j.left = job.left /\ j.index = loaded
      /\ j.refs = job.refs
  BY <1>3
<1>5. JobShape(j, seen)
  BY <1>1, <1>3, <1>4 DEF JobShape
<1>6. JobStages(j, seen, loaded)
  BY <1>1, <1>3, <1>4 DEF JobStages
<1>7. /\ JobRests(j, seen, code, nops) /\ JobLocated(j, seen) /\ JobSound(j, seen, code, nops)
      /\ JobComplete(j, seen, code, nops)
  BY <1>4 DEF JobInv, JobOk, JobRests, JobLocated, JobSound, JobComplete, Visited
<1> QED
  BY <1>2, <1>5, <1>6, <1>7 DEF JobOk

\* Strings and code that are there for the job are there.
LEMMA LandsReaches ==
  ASSUME NEW b \in Refs, NEW index \in SUBSET DOMAIN ModuleRegions,
         NEW readable \in SUBSET DOMAIN ModuleRegions, NEW mods, NEW few,
         index \subseteq mods, readable \subseteq mods, few \subseteq index, few \subseteq readable
  PROVE  /\ Lands(b, index, readable) => Reaches(b, mods)
         /\ Reaches(b, few) => Lands(b, index, readable)
<1>1. b[2] \in Nat /\ (b \in Branches => b \notin Loads) /\ (b \notin Branches => b \in Loads)
  BY RefFacts, RefsAssumption DEF Refs
<1>2. ASSUME NEW m \in DOMAIN ModuleRegions, NEW q \in ModuleRegions[m]
      PROVE  Holds(q, b[2]) <=> b[2] \in q[1] .. q[2] - 1
  <2>1. q \in AllRegions
    BY DEF AllRegions
  <2> QED
    BY <1>1, <2>1, RegionBounds DEF Holds
<1>3. ASSUME Lands(b, index, readable) PROVE Reaches(b, mods)
  <2>1. CASE b \in Branches
    <3>1. PICK q \in RegionsOf(index) : Holds(q, b[2])
      BY <1>3, <2>1 DEF Lands
    <3>2. PICK m \in index : q \in ModuleRegions[m]
      BY <3>1 DEF RegionsOf
    <3> QED
      BY <1>2, <2>1, <3>1, <3>2 DEF Reaches
  <2>2. CASE b \notin Branches
    BY <1>1, <1>3, <2>2 DEF Lands, Reaches
  <2> QED
    BY <2>1, <2>2
<1>4. ASSUME Reaches(b, few) PROVE Lands(b, index, readable)
  <2>1. CASE b \in Branches
    <3>1. PICK m \in few : \E q \in ModuleRegions[m] : b[2] \in q[1] .. q[2] - 1
      BY <1>1, <1>4, <2>1 DEF Reaches
    <3>2. PICK q \in ModuleRegions[m] : b[2] \in q[1] .. q[2] - 1
      BY <3>1
    <3>3. q \in RegionsOf(index) /\ Holds(q, b[2])
      BY <1>2, <3>1, <3>2 DEF RegionsOf
    <3> QED
      BY <2>1, <3>3 DEF Lands
  <2>2. CASE b \notin Branches
    BY <1>1, <1>4, <2>2 DEF Lands, Reaches
  <2> QED
    BY <2>1, <2>2
<1> QED
  BY <1>3, <1>4

\* A chunk that is read, or a region given up.
LEMMA ReadOk ==
  ASSUME JobInv, Table(code), ReadChunk
  PROVE  JobOk(job', seen, code, nops, loaded)
<1>1. PICK i \in job.left :
        /\ job.stage = "chunks"
        /\ LET got == DissectChunk(code, i[1], i[2])
               next == EndOf(Last(got))
               others == job.left \ {i}
           IN job' = Onward(
                IF \E r \in RegionsOf(loaded) : Holds(r, i[1])
                THEN [job EXCEPT
                       !.left = IF next < i[2] THEN others \cup {<<next, i[2]>>} ELSE others,
                       !.refs = @ \cup {b \in RefsOf(code, nops, got) : Lands(b, job.index, loaded)}]
                ELSE [job EXCEPT !.left = others])
  BY DEF ReadChunk, WorkerStep
<1> DEFINE got == DissectChunk(code, i[1], i[2])
           next == EndOf(Last(got))
           others == job.left \ {i}
           read == \E r \in RegionsOf(loaded) : Holds(r, i[1])
           left == IF read /\ next < i[2] THEN others \cup {<<next, i[2]>>} ELSE others
           refs == IF read THEN job.refs \cup {b \in RefsOf(code, nops, got) : Lands(b, job.index, loaded)}
                   ELSE job.refs
           k == [stage |-> job.stage, of |-> job.of, todo |-> job.todo, left |-> left,
                 index |-> job.index, refs |-> refs]
           j == Onward(k)
<1>2. /\ JobShape(job, seen) /\ JobStages(job, seen, loaded) /\ JobRests(job, seen, code, nops)
      /\ JobLocated(job, seen) /\ JobSound(job, seen, code, nops) /\ JobComplete(job, seen, code, nops)
  BY DEF JobInv, JobOk
<1>3. job' = j
  <2>1. CASE read
    <3>1. job' = Onward([job EXCEPT !.left = left, !.refs = refs])
      BY <1>1, <2>1
    <3>2. [job EXCEPT !.left = left, !.refs = refs] = k
      <4> DEFINE e == [job EXCEPT !.left = left, !.refs = refs]
                 fields == {"stage", "of", "todo", "left", "index", "refs"}
      <4> HIDE DEF left, refs
      <4>1. DOMAIN job = fields
        BY <1>2 DEF JobShape
      <4>2. /\ DOMAIN e = fields /\ e.left = left /\ e.refs = refs
            /\ e.stage = job.stage /\ e.of = job.of /\ e.todo = job.todo /\ e.index = job.index
        BY <4>1
      <4>3. e = [x \in DOMAIN job |-> e[x]]
        OBVIOUS
      <4> HIDE DEF e
      <4> QED
        BY <4>1, <4>2, <4>3
    <3> QED
      BY <3>1, <3>2
  <2>2. CASE ~read
    <3>1. job' = Onward([job EXCEPT !.left = left])
      BY <1>1, <2>2
    <3>2. [job EXCEPT !.left = left] = k
      <4>1. refs = job.refs
        BY <2>2
      <4> HIDE DEF left, refs
      <4> QED
        BY <1>2, <4>1 DEF JobShape
    <3> QED
      BY <3>1, <3>2
  <2> QED
    BY <2>1, <2>2
<1>4. /\ j = [stage |-> j.stage, of |-> job.of, todo |-> job.todo, left |-> left,
              index |-> job.index, refs |-> refs]
      /\ j.stage \in {"chunks", "maps", "done"} /\ j.stage = "chunks" <=> left # {}
      /\ j.stage = "done" => job.todo = {}
  <2>1. /\ k = [stage |-> k.stage, of |-> k.of, todo |-> k.todo, left |-> k.left,
                index |-> k.index, refs |-> k.refs]
        /\ k.of = job.of /\ k.todo = job.todo /\ k.left = left /\ k.index = job.index
        /\ k.refs = refs
    OBVIOUS
  <2> HIDE DEF k, left, refs
  <2> QED
    BY <2>1, OnwardIs
<1> HIDE DEF j, k
<1>5. /\ seen.stayed \subseteq loaded /\ loaded \subseteq seen.been /\ seen.stayed \subseteq job.index
      /\ job.index \subseteq seen.been /\ seen.been \subseteq DOMAIN ModuleRegions
      /\ seen.stayed \subseteq seen.been
  BY <1>1, <1>2 DEF JobStages, JobShape
<1>6. PICK r0 \in Visited(job, seen) : RestOf(i, r0, seen, code, nops)
  BY <1>2 DEF JobRests
<1>7. /\ r0 \in AllRegions /\ r0[1] \in Nat /\ r0[2] \in Nat /\ i[2] = r0[2] /\ i[1] \in r0[1] .. r0[2]
      /\ i[1] < r0[2] /\ i[1] \in Nat
  <2>1. r0 \in AllRegions
    BY <1>2, VisitedRegions
  <2>2. r0[1] \in Nat /\ r0[2] \in Nat
    BY <2>1, RegionBounds
  <2>3. r0[1] <= i[1] /\ i[1] < r0[2] /\ i[2] = r0[2]
    BY <1>6 DEF RestOf
  <2>4. i[1] \in Nat
    BY <1>6 DEF RestOf
  <2> QED
    BY <2>1, <2>2, <2>3, <2>4
<1>8. /\ next \in i[1] + 1 .. r0[2]
      /\ \A b \in Refs :
           /\ MadeFrom(code, nops, i[1], r0[2], b) <=>
                b \in RefsOf(code, nops, got) \/ MadeFrom(code, nops, next, r0[2], b)
           /\ b \in RefsOf(code, nops, got) => i[1] <= b[1] /\ b[1] < next
  <2>1. got = DissectChunk(code, i[1], r0[2]) /\ next = EndOf(Last(got))
    BY <1>7
  <2>2. r0 \in AllRegions /\ i[1] \in r0[1] .. r0[2] /\ i[1] < r0[2]
    BY <1>7
  <2> HIDE DEF got, next
  <2> QED
    BY ONLY Table(code), <2>1, <2>2, ChunkMakes
<1>9. ASSUME NEW b \in Refs, MadeFrom(code, nops, next, r0[2], b)
      PROVE  b[1] \in next .. r0[2] - 1
  <2>1. next \in r0[1] .. r0[2]
    BY <1>7, <1>8
  <2> HIDE DEF next
  <2> QED
    BY <1>7, <1>9, <2>1, MadeInside
<1>10. RefsOf(code, nops, got) \subseteq Refs
  BY DEF RefsOf, Refs
<1>11. ASSUME NEW b \in Refs
       PROVE  /\ Lands(b, job.index, loaded) => Reaches(b, seen.been)
              /\ Reaches(b, seen.stayed) => Lands(b, job.index, loaded)
  BY <1>5, LandsReaches
<1> HIDE DEF got, next
<1>12. /\ j.of = job.of /\ j.todo = job.todo /\ j.left = left /\ j.index = job.index
       /\ j.refs = refs
  BY <1>4
<1>13. JobShape(j, seen)
  BY <1>2, <1>4, <1>12 DEF JobShape
<1>14. JobStages(j, seen, loaded)
  BY <1>4, <1>5, <1>12 DEF JobStages
<1>15. Visited(j, seen) = Visited(job, seen)
  BY <1>12 DEF Visited
<1>16. JobRests(j, seen, code, nops)
  <2>1. ASSUME NEW n \in left PROVE \E r \in Visited(job, seen) : RestOf(n, r, seen, code, nops)
    <3>1. CASE n \in others
      BY <1>2, <3>1 DEF JobRests
    <3>2. CASE n = <<next, i[2]>> /\ next < i[2]
      <4>1. n[1] = next /\ n[2] = r0[2] /\ n[1] \in Nat /\ r0[1] <= n[1] /\ n[1] < r0[2]
        BY <1>7, <1>8, <3>2
      <4>2. ASSUME Unpatched(r0, seen), NEW b \in Refs
            PROVE  MadeFrom(code, nops, next, r0[2], b) <=>
                     MadeFrom(code, nops, r0[1], r0[2], b) /\ next <= b[1]
        <5>0. b[1] \in Nat /\ next \in Nat
          BY <1>7, <1>8, RefFacts
        <5>1. MadeFrom(code, nops, i[1], r0[2], b) <=>
                MadeFrom(code, nops, r0[1], r0[2], b) /\ i[1] <= b[1]
          BY <1>6, <4>2 DEF RestOf
        <5>2. ASSUME MadeFrom(code, nops, next, r0[2], b)
              PROVE  MadeFrom(code, nops, r0[1], r0[2], b) /\ next <= b[1]
          BY <1>8, <1>9, <5>0, <5>1, <5>2
        <5>3. ASSUME MadeFrom(code, nops, r0[1], r0[2], b), next <= b[1]
              PROVE  MadeFrom(code, nops, next, r0[2], b)
          <6>1. i[1] <= b[1] /\ ~(b[1] < next)
            BY <1>7, <1>8, <5>0, <5>3
          <6> QED
            BY <1>8, <5>1, <5>3, <6>1
        <5> QED
          BY <5>2, <5>3
      <4> QED
        BY <1>6, <4>1, <4>2 DEF RestOf
    <3> QED
      BY <2>1, <3>1, <3>2
  <2> QED
    BY <1>12, <1>15, <2>1 DEF JobRests
\* A reference of this chunk is made in r0 and nowhere else.
<1>17. ASSUME NEW b \in RefsOf(code, nops, got)
       PROVE  b \in Refs /\ Holds(r0, b[1]) /\ \A r \in AllRegions : Holds(r, b[1]) => r = r0
  <2>1. b \in Refs /\ b[1] \in Nat /\ i[1] <= b[1] /\ b[1] < next
    BY <1>8, <1>10, RefFacts
  <2>2. Holds(r0, b[1])
    BY <1>7, <1>8, <2>1 DEF Holds
  <2> QED
    BY <1>7, <2>1, <2>2, RegionsApart
<1>18. JobLocated(j, seen)
  <2>1. ASSUME NEW b \in refs PROVE b \in Refs /\ \E r \in Visited(job, seen) : Holds(r, b[1])
    BY <1>2, <1>17, <2>1 DEF JobLocated
  <2> QED
    BY <1>12, <1>15, <2>1 DEF JobLocated
<1>19. JobSound(j, seen, code, nops)
  <2>1. ASSUME NEW r \in Visited(job, seen), NEW b \in refs, Holds(r, b[1]), Unpatched(r, seen)
        PROVE  MadeFrom(code, nops, r[1], r[2], b) /\ Reaches(b, seen.been)
    <3>1. CASE b \in job.refs
      BY <1>2, <2>1, <3>1 DEF JobSound
    <3>2. CASE b \in RefsOf(code, nops, got) /\ Lands(b, job.index, loaded)
      <4>1. r = r0
        BY <1>2, <1>17, <2>1, <3>2, VisitedRegions
      <4>2. MadeFrom(code, nops, i[1], r0[2], b) /\ b \in Refs
        BY <1>8, <1>10, <3>2
      <4>3. MadeFrom(code, nops, r0[1], r0[2], b)
        BY <1>6, <2>1, <4>1, <4>2 DEF RestOf
      <4> QED
        BY <1>11, <3>2, <4>1, <4>2, <4>3
    <3> QED
      BY <2>1, <3>1, <3>2
  <2> QED
    BY <1>12, <1>15, <2>1 DEF JobSound
<1>20. JobComplete(j, seen, code, nops)
  <2>1. ASSUME NEW m \in job.of \cap seen.stayed, NEW r \in ModuleRegions[m], NEW b \in Refs,
               Unpatched(r, seen), MadeFrom(code, nops, r[1], r[2], b), Reaches(b, seen.stayed)
        PROVE  b \in refs \/ m \in job.todo \/ \E n \in left : n[2] = r[2] /\ n[1] <= b[1]
    <3>1. CASE b \in job.refs \/ m \in job.todo
      BY <3>1
    <3>2. CASE \E n \in job.left : n[2] = r[2] /\ n[1] <= b[1]
      <4>1. PICK n \in job.left : n[2] = r[2] /\ n[1] <= b[1]
        BY <3>2
      <4>2. CASE n # i
        BY <4>1, <4>2
      <4>3. CASE n = i
        <5>1. r \in AllRegions /\ r \in RegionsOf(loaded)
          BY <1>5, <2>1 DEF AllRegions, RegionsOf
        <5>2. r = r0
          BY <1>7, <4>1, <4>3, <5>1, RegionsApart
        <5>3. read
          BY <1>7, <5>1, <5>2 DEF Holds
        <5>4. MadeFrom(code, nops, i[1], r0[2], b)
          BY <1>6, <2>1, <4>1, <4>3, <5>2 DEF RestOf
        <5>5. CASE b \in RefsOf(code, nops, got)
          BY <1>11, <2>1, <5>3, <5>5
        <5>6. CASE MadeFrom(code, nops, next, r0[2], b)
          <6>1. b[1] \in next .. r0[2] - 1 /\ next \in Nat
            BY <1>7, <1>8, <1>9, <5>6
          <6>2. next < i[2] /\ next <= b[1]
            BY <1>7, <6>1
          <6>3. <<next, i[2]>> \in left
            BY <5>3, <6>2
          <6> QED
            BY <1>7, <5>2, <6>2, <6>3
        <5> QED
          BY <1>8, <5>4, <5>5, <5>6
      <4> QED
        BY <4>2, <4>3
    <3> QED
      BY <1>2, <2>1, <3>1, <3>2 DEF JobComplete
  <2> QED
    BY <1>12, <2>1 DEF JobComplete
<1> QED
  BY <1>3, <1>13, <1>14, <1>16, <1>18, <1>19, <1>20 DEF JobOk

\* The target loads or unloads a module.
LEMMA LoadsOk ==
  ASSUME JobInv, loaded \subseteq DOMAIN ModuleRegions, NEW m \in DOMAIN ModuleRegions, TargetLoads(m)
  PROVE  JobOk(job', seen', code', nops', loaded')
<1>1. /\ JobShape(job, seen) /\ JobStages(job, seen, loaded) /\ JobRests(job, seen, code, nops)
      /\ JobLocated(job, seen) /\ JobSound(job, seen, code, nops) /\ JobComplete(job, seen, code, nops)
  BY DEF JobInv, JobOk
<1>2. UNCHANGED <<job, code, nops>> /\ loaded' \subseteq DOMAIN ModuleRegions
  BY DEF TargetLoads
<1>3. CASE ~Reading
  <2>1. seen' = seen
    BY <1>3 DEF TargetLoads
  <2>2. JobStages(job, seen, loaded')
    BY <1>1, <1>3 DEF JobStages, Reading
  <2> QED
    BY <1>1, <1>2, <2>1, <2>2 DEF JobOk
<1>4. CASE Reading
  <2> DEFINE s == [been |-> seen.been \cup loaded', stayed |-> seen.stayed \cap loaded',
                   edited |-> seen.edited]
  <2>1. seen' = s
    <3>1. seen' = [seen EXCEPT !.been = @ \cup loaded', !.stayed = @ \cap loaded']
      BY <1>4 DEF TargetLoads
    <3> QED
      BY <1>1, <3>1 DEF JobShape
  <2>2. /\ s.been = seen.been \cup loaded' /\ s.stayed = seen.stayed \cap loaded'
        /\ s.edited = seen.edited
    OBVIOUS
  <2>3. JobShape(job, s)
    BY <1>1, <1>2 DEF JobShape
  <2> HIDE DEF s
  <2>4. JobStages(job, s, loaded')
    BY <1>1, <2>2 DEF JobStages
  <2>5. Visited(job, seen) \subseteq Visited(job, s)
    BY <2>2 DEF Visited, RegionsOf
  <2>6. \A r : Unpatched(r, s) <=> Unpatched(r, seen)
    BY <2>2 DEF Unpatched
  <2>7. \A b : Reaches(b, seen.been) => Reaches(b, s.been)
    BY <2>2 DEF Reaches
  <2>8. \A b : Reaches(b, s.stayed) => Reaches(b, seen.stayed)
    BY <2>2 DEF Reaches
  <2>9. JobRests(job, s, code, nops)
    BY <1>1, <2>5, <2>6 DEF JobRests, RestOf
  <2>10. JobLocated(job, s)
    BY <1>1, <2>5 DEF JobLocated
  <2>11. JobSound(job, s, code, nops)
    <3>1. ASSUME NEW r \in Visited(job, s), NEW b \in job.refs, Holds(r, b[1]), Unpatched(r, s)
          PROVE  MadeFrom(code, nops, r[1], r[2], b) /\ Reaches(b, s.been)
      <4>1. PICK q \in Visited(job, seen) : Holds(q, b[1])
        BY <1>1, <3>1 DEF JobLocated
      <4>2. b[1] \in Nat
        BY <1>1, <3>1, RefFacts DEF JobLocated
      <4>3. r = q
        <5>1. q \in AllRegions /\ r \in AllRegions
          BY <1>1, <2>3, <3>1, <4>1, VisitedRegions
        <5> QED
          BY <3>1, <4>1, <4>2, <5>1, RegionsApart
      <4> QED
        BY <1>1, <2>6, <2>7, <3>1, <4>1, <4>3 DEF JobSound
    <3> QED
      BY <3>1 DEF JobSound
  <2>12. JobComplete(job, s, code, nops)
    BY <1>1, <2>2, <2>6, <2>8 DEF JobComplete
  <2> QED
    BY <1>2, <2>1, <2>3, <2>4, <2>9, <2>10, <2>11, <2>12 DEF JobOk
<1> QED
  BY <1>3, <1>4

\* Some bytes are patched: the regions they are in are given up.
LEMMA PatchOk ==
  ASSUME JobInv, Table(code), NEW i, NEW n, WriteNops(i, n)
  PROVE  JobOk(job', seen', code', nops', loaded')
<1> DEFINE bytes == i.at .. i.at + n - 1
           s == [been |-> seen.been, stayed |-> seen.stayed, edited |-> seen.edited \cup bytes]
<1>1. /\ JobShape(job, seen) /\ JobStages(job, seen, loaded) /\ JobRests(job, seen, code, nops)
      /\ JobLocated(job, seen) /\ JobSound(job, seen, code, nops) /\ JobComplete(job, seen, code, nops)
  BY DEF JobInv, JobOk
<1>2. /\ UNCHANGED <<job, loaded>> /\ nops' = nops \cup bytes
      /\ code' = [a \in DOMAIN code |-> IF a \in bytes THEN 1 ELSE code[a]]
  BY DEF WriteNops, Nopped
<1>3. seen' = s
  BY <1>1 DEF WriteNops, JobShape
<1>4. s.been = seen.been /\ s.stayed = seen.stayed /\ s.edited = seen.edited \cup bytes
  OBVIOUS
<1>5. JobShape(job, s)
  BY <1>1 DEF JobShape
<1> HIDE DEF s, bytes
<1>6. JobStages(job, s, loaded)
  BY <1>1, <1>4 DEF JobStages
<1>7. Visited(job, s) = Visited(job, seen) /\ \A r : Unpatched(r, s) => Unpatched(r, seen)
  BY <1>4 DEF Visited, Unpatched
<1>8. ASSUME NEW r \in AllRegions, Unpatched(r, s), NEW a \in r[1] .. r[2], NEW b \in Refs
      PROVE  MadeFrom(code', nops', a, r[2], b) <=> MadeFrom(code, nops, a, r[2], b)
  <2>1. r[1] .. r[2] - 1 \cap bytes = {}
    BY <1>4, <1>8 DEF Unpatched
  <2>2. \A x \in r[1] .. r[2] - 1 : code'[x] = code[x]
    BY <1>2, <2>1 DEF Table
  <2> QED
    BY <1>2, <1>8, <2>1, <2>2, PatchElsewhere
<1>9. \A r \in Visited(job, seen) : r \in AllRegions /\ r[1] \in r[1] .. r[2]
  BY <1>1, VisitedRegions, RegionBounds
<1>10. JobRests(job, s, code', nops')
  <2>1. ASSUME NEW k \in job.left PROVE \E r \in Visited(job, s) : RestOf(k, r, s, code', nops')
    <3>1. PICK r \in Visited(job, seen) : RestOf(k, r, seen, code, nops)
      BY <1>1 DEF JobRests
    <3>2. r \in AllRegions /\ r[1] \in r[1] .. r[2] /\ k[1] \in r[1] .. r[2]
      BY <1>9, <3>1, RegionBounds DEF RestOf
    <3>3. ASSUME Unpatched(r, s), NEW b \in Refs
          PROVE  MadeFrom(code', nops', k[1], r[2], b) <=>
                   MadeFrom(code', nops', r[1], r[2], b) /\ k[1] <= b[1]
      <4>1. /\ MadeFrom(code', nops', k[1], r[2], b) <=> MadeFrom(code, nops, k[1], r[2], b)
            /\ MadeFrom(code', nops', r[1], r[2], b) <=> MadeFrom(code, nops, r[1], r[2], b)
        BY <1>8, <3>2, <3>3
      <4>2. MadeFrom(code, nops, k[1], r[2], b) <=>
              MadeFrom(code, nops, r[1], r[2], b) /\ k[1] <= b[1]
        BY <1>7, <3>1, <3>3 DEF RestOf
      <4> QED
        BY <4>1, <4>2
    <3>4. RestOf(k, r, s, code', nops')
      BY <3>1, <3>3 DEF RestOf
    <3> QED
      BY <1>7, <3>1, <3>4
  <2> QED
    BY <2>1 DEF JobRests
<1>11. JobLocated(job, s)
  BY <1>1, <1>7 DEF JobLocated
<1>12. JobSound(job, s, code', nops')
  <2>1. ASSUME NEW r \in Visited(job, seen), NEW b \in job.refs, Holds(r, b[1]), Unpatched(r, s)
        PROVE  MadeFrom(code', nops', r[1], r[2], b) /\ Reaches(b, s.been)
    <3>1. MadeFrom(code, nops, r[1], r[2], b) /\ Reaches(b, seen.been) /\ b \in Refs
      BY <1>1, <1>7, <2>1 DEF JobSound, JobLocated
    <3> QED
      BY <1>4, <1>8, <1>9, <2>1, <3>1
  <2> QED
    BY <1>7, <2>1 DEF JobSound
<1>13. JobComplete(job, s, code', nops')
  <2>1. ASSUME NEW m \in job.of \cap s.stayed, NEW r \in ModuleRegions[m], NEW b \in Refs,
               Unpatched(r, s), MadeFrom(code', nops', r[1], r[2], b), Reaches(b, s.stayed)
        PROVE  b \in job.refs \/ m \in job.todo \/ \E k \in job.left : k[2] = r[2] /\ k[1] <= b[1]
    <3>1. r \in Visited(job, seen)
      BY <1>1, <1>4, <2>1 DEF Visited, RegionsOf, JobShape
    <3>2. MadeFrom(code, nops, r[1], r[2], b)
      BY <1>8, <1>9, <2>1, <3>1
    <3> QED
      BY <1>1, <1>4, <1>7, <2>1, <3>2 DEF JobComplete
  <2> QED
    BY <2>1 DEF JobComplete
<1> QED
  BY <1>2, <1>3, <1>5, <1>6, <1>10, <1>11, <1>12, <1>13 DEF JobOk

-----------------------------------------------------------------------------
(* The invariant of the code browser holds.                                *)

\* Steps that leave the table, and what is torn, alone.
LEMMA CodeStep ==
  ASSUME CodeInv, loaded' \subseteq DOMAIN ModuleRegions, code' = code,
         DisasmInv(disasm', code, torn')
  PROVE  CodeInv'
<1>1. Table(code')
  BY DEF CodeInv
<1> QED
  BY <1>1 DEF CodeInv

LEMMA RegionsOfLoaded ==
  ASSUME CodeInv, NEW bases
  PROVE  RegionsOf(bases \cap loaded) \in SUBSET AllRegions
  BY DEF CodeInv, RegionsOf, AllRegions

LEMMA CodeSafe == CodeInv /\ HexInv /\ [BrNext]_brVars => CodeInv'
<1> SUFFICES ASSUME CodeInv, HexInv, [BrNext]_brVars PROVE CodeInv'
  OBVIOUS
<1>0. /\ loaded \subseteq DOMAIN ModuleRegions /\ Table(code) /\ DisasmInv(disasm, code, torn)
      /\ disasm \in Disasms /\ hex.at \in Nat
  BY DEF CodeInv, DisasmInv, HexInv, Viewers
<1>1. ASSUME UNCHANGED <<loaded, code, disasm, torn>> PROVE CodeInv'
  BY <1>0, <1>1, CodeStep
<1>2. ASSUME NEW d, DisasmInv(d, code, torn), Frame(d) PROVE CodeInv'
  BY <1>0, <1>2, CodeStep DEF Frame, codeVars
<1>3. DisasmInv(EnsureFunction(disasm), code, torn)
  BY <1>0, EnsureKeeps
<1>4. CASE Reattach
  <2>1. ResetState(disasm) \in Disasms /\ ResetState(disasm).mode = "Function"
    <3>1. NoCache \in [at : Nat, insns : Seq(Rows)]
      BY NoRows DEF NoCache, NoAddr
    <3> QED
      BY <1>0, <3>1, NoRows DEF ResetState, Disasms, NoAddr
  <2>2. DisasmInv(ResetState(disasm), code, torn')
    BY <2>1 DEF DisasmInv, ListingInv
  <2> QED
    BY <1>0, <1>4, <2>2, CodeStep DEF Reattach, codeVars
<1>5. CASE ShowDisassembly
  BY <1>0, <1>2, <1>3, <1>5, ScrolledKeeps DEF ShowDisassembly
<1>6. CASE BackPressed
  <2>1. EnsureFunction(disasm).back # <<>>
    BY <1>0, <1>6, EnsureKeeps DEF BackPressed
  <2> QED
    BY <1>0, <1>2, <1>3, <1>6, <2>1, BackKeeps, ScrolledKeeps DEF BackPressed, Jump
<1>7. CASE ForwardPressed
  <2>1. EnsureFunction(disasm).forward # <<>>
    BY <1>0, <1>7, EnsureKeeps DEF ForwardPressed
  <2> QED
    BY <1>0, <1>2, <1>3, <1>7, <2>1, ForwardKeeps, ScrolledKeeps DEF ForwardPressed, Jump
<1>8. CASE ExtendFails
  <2> DEFINE e == [disasm EXCEPT !.next = NoAddr]
  <2>1. /\ e \in Disasms /\ e.mode = disasm.mode /\ e.regions = disasm.regions
        /\ e.listing = disasm.listing /\ e.next = NoAddr
    BY <1>0 DEF Disasms, NoAddr
  <2>2. disasm' = e /\ UNCHANGED <<loaded, code, torn>>
    BY <1>8 DEF ExtendFails, Jump, Frame, codeVars
  <2> HIDE DEF e
  <2>3. \A row, a : GoesOn(disasm, code, torn, row, a) <=> GoesOn(e, code, torn, row, a)
    BY <2>1 DEF GoesOn, RegionOf
  <2>4. \A row : RowShown(disasm, code, torn, row) <=> RowShown(e, code, torn, row)
    BY <2>1 DEF RowShown
  <2>5. DisasmInv(e, code, torn)
    BY <1>0, <2>1, <2>3, <2>4 DEF DisasmInv, ListingInv
  <2> QED
    BY <1>0, <2>2, <2>5, CodeStep
<1>9. CASE DisassembleHere
  <2>1. DisasmInv(Goto(disasm, hex.at), code, torn)
    BY <1>0, GotoKeeps
  <2> QED
    BY <1>0, <1>9, <2>1, CodeStep DEF DisassembleHere, codeVars
<1>10. CASE \E m \in DOMAIN ModuleRegions : TargetLoads(m)
  BY <1>0, <1>10, CodeStep DEF TargetLoads
<1>11. CASE \E t \in [1 .. Cardinality(loaded) -> BOOLEAN] : ChangeTicks(t)
  <2>1. PICK t : ChangeTicks(t)
    BY <1>11
  <2> DEFINE rs == RegionsOf({known[i] : i \in picked' \cap DOMAIN known} \cap loaded)
  <2>2. rs \in SUBSET AllRegions
    BY RegionsOfLoaded
  <2>3. disasm' = Selecting(disasm, rs) /\ UNCHANGED <<loaded, code>>
    BY <2>1 DEF ChangeTicks, codeVars
  <2> HIDE DEF rs
  <2>4. DisasmInv(Selecting(disasm, rs), code, torn')
    BY <1>0, <2>2, SelectingKeeps
  <2> QED
    BY <1>0, <2>3, <2>4, CodeStep
<1>12. ASSUME NEW i \in Active(disasm), NopRow(i) PROVE CodeInv'
  <2>1. Table(code') /\ loaded' = loaded
    BY <1>0, <1>12, NoppedTable DEF NopRow, WriteNops
  <2>2. CASE disasm.mode = "Linear"
    <3>1. disasm.focus \in Nat
      BY <1>0 DEF Disasms
    <3>2. DisasmInv(LinearReset(disasm, disasm.focus), code', torn')
      BY <1>0, <3>1, ResetKeeps
    <3> QED
      BY <1>0, <1>12, <2>1, <2>2, <3>2 DEF NopRow, CodeInv
  <2>3. CASE disasm.mode = "Function"
    <3> DEFINE e == [disasm EXCEPT !.cache = NoCache]
    <3>1. NoCache \in [at : Nat, insns : Seq(Rows)]
      BY NoRows DEF NoCache, NoAddr
    <3>2. e \in Disasms /\ e.mode = "Function"
      BY <1>0, <2>3, <3>1 DEF Disasms
    <3>3. disasm' = e
      BY <1>12, <2>3 DEF NopRow
    <3>4. DisasmInv(e, code', torn')
      BY <3>2 DEF DisasmInv, ListingInv
    <3> HIDE DEF e
    <3> QED
      BY <1>0, <2>1, <3>3, <3>4 DEF CodeInv
  <2> QED
    BY <1>0, <2>2, <2>3 DEF Disasms
<1>13. ASSUME NEW i \in Active(disasm), NopFails(i) PROVE CodeInv'
  <2>1. loaded' = loaded /\ disasm' = disasm /\ code' = Nopped(i, i.len - 1) /\ torn' = torn \cup {i.at}
    BY <1>13 DEF NopFails, WriteNops
  <2>2. Table(code') /\ DisasmInv(disasm, code', torn')
    BY <1>0, <2>1, NoppedTable, TearKeeps
  <2> QED
    BY <1>0, <2>1, <2>2 DEF CodeInv
<1>14. ASSUME NEW a \in JumpTargets, GoPressed(a) \/ FollowRow(a) \/ NavigatorRow(a) PROVE CodeInv'
  <2>1. a \in Nat
    BY CodeBrowserAssumption
  <2>2. CASE GoPressed(a)
    BY <1>0, <1>2, <1>3, <2>1, <2>2, TryKeeps, ScrolledKeeps DEF GoPressed, Jump
  <2>3. CASE FollowRow(a)
    BY <1>0, <1>2, <1>3, <2>1, <2>3, NavigateKeeps, ScrolledKeeps DEF FollowRow, Jump
  <2>4. CASE NavigatorRow(a)
    <3>1. DisasmInv(Goto(disasm, a), code, torn)
      BY <1>0, <2>1, GotoKeeps
    <3> QED
      BY <1>0, <2>4, <3>1, CodeStep DEF NavigatorRow, codeVars
  <2> QED
    BY <1>14, <2>2, <2>3, <2>4
<1>15. CASE \/ DrawModules \/ DoDissect \/ NextModule \/ IndexRegions \/ ReadChunk \/ DissectDone
            \/ DissectFails \/ DrawNavigator \/ NavigatorString \/ ShowViewer \/ SnapshotExpires
            \/ ViewerBack \/ \E a \in JumpTargets : ViewerGo(a)
  <2>1. UNCHANGED <<loaded, code, disasm, torn>>
    BY <1>15 DEF DrawModules, DoDissect, NextModule, IndexRegions, ReadChunk, DissectDone,
                 DissectFails, DissectKeeps, WorkerStep, DrawNavigator, NavigatorString, ShowViewer,
                 SnapshotExpires, ViewerBack, ViewerGo, ViewerFrame, codeVars
  <2> QED
    BY <1>1, <2>1
<1>16. CASE UNCHANGED brVars
  BY <1>1, <1>16 DEF brVars, codeVars
<1> QED
  BY <1>4, <1>5, <1>6, <1>7, <1>8, <1>9, <1>10, <1>11, <1>12, <1>13, <1>14, <1>15, <1>16 DEF BrNext

LEMMA NavSafe == NavInv /\ [BrNext]_brVars => NavInv'
<1> SUFFICES ASSUME NavInv, [BrNext]_brVars PROVE NavInv'
  OBVIOUS
<1>1. ASSUME UNCHANGED <<dissect, epoch, nav>> PROVE NavInv'
  BY <1>1 DEF NavInv
<1>2. ASSUME dissect' = NoDissect, UNCHANGED <<epoch, nav>> PROVE NavInv'
  BY <1>2 DEF NavInv, NoDissect
<1>3. ASSUME nav' = Rebuilt, UNCHANGED <<dissect, epoch>> PROVE NavInv'
  <2> DEFINE now == IF dissect.done THEN epoch ELSE NoAddr
  <2>1. now \in 0 .. epoch
    BY DEF NavInv, NoAddr
  <2>2. CASE nav.built = now
    BY <1>3, <2>2 DEF NavInv, Rebuilt
  <2>3. CASE nav.built # now
    <3>1. nav' = [built |-> now, refs |-> dissect.refs]
      BY <1>3, <2>3 DEF Rebuilt
    <3>2. nav'.built = now /\ nav'.refs = dissect.refs
      BY <3>1
    <3> QED
      BY <1>3, <2>1, <3>2 DEF NavInv
  <2> QED
    BY <2>2, <2>3
<1>4. CASE DissectDone
  BY <1>4 DEF DissectDone, DissectKeeps, NextEpoch, NavInv
<1>5. CASE Reattach \/ DissectFails \/ \E t \in [1 .. Cardinality(loaded) -> BOOLEAN] : ChangeTicks(t)
  BY <1>2, <1>5 DEF Reattach, DissectFails, DissectKeeps, ChangeTicks
<1>6. CASE DrawNavigator \/ NavigatorString \/ \E a \in JumpTargets : NavigatorRow(a)
  BY <1>3, <1>6 DEF DrawNavigator, NavigatorString, NavigatorRow, xrefVars
<1>7. CASE \/ DrawModules \/ ShowDisassembly \/ BackPressed \/ ForwardPressed \/ ExtendFails \/ DoDissect
           \/ NextModule \/ IndexRegions \/ ReadChunk \/ ShowViewer \/ SnapshotExpires \/ ViewerBack \/ DisassembleHere
           \/ \E m \in DOMAIN ModuleRegions : TargetLoads(m)
           \/ \E i \in Active(disasm) : NopRow(i) \/ NopFails(i)
           \/ \E a \in JumpTargets : GoPressed(a) \/ FollowRow(a) \/ ViewerGo(a)
  BY <1>1, <1>7 DEF DrawModules, ShowDisassembly, BackPressed, ForwardPressed, ExtendFails, DoDissect,
       NextModule, IndexRegions, ReadChunk, WorkerStep, DissectKeeps,
       ShowViewer, SnapshotExpires, ViewerBack, DisassembleHere, TargetLoads, NopRow, NopFails,
       WriteNops, GoPressed, FollowRow, ViewerGo, ViewerFrame, Frame, Jump, xrefVars
<1>8. CASE UNCHANGED brVars
  BY <1>1, <1>8 DEF brVars, xrefVars
<1> QED
  BY <1>4, <1>5, <1>6, <1>7, <1>8 DEF BrNext

LEMMA HexSafe == HexInv /\ [BrNext]_brVars => HexInv'
<1> SUFFICES ASSUME HexInv, [BrNext]_brVars PROVE HexInv'
  OBVIOUS
<1>1. ASSUME hex' = hex PROVE HexInv'
  BY <1>1 DEF HexInv
<1>2. /\ hex \in Viewers /\ hex.at \in Nat /\ hex.history \in Seq(Nat)
      /\ hex.current \in BOOLEAN /\ hex.buf \in Nat
  BY DEF HexInv, Viewers
<1>3. /\ Snapshot(hex) \in Viewers /\ Snapshot(hex).buf = Snapshot(hex).at
      /\ Snapshot(hex).at = hex.at /\ Snapshot(hex).history = hex.history
  BY DEF HexInv, Viewers, Snapshot
<1>4. CASE Reattach
  <2>1. hex' \in Viewers /\ hex'.current = FALSE
    BY <1>2, <1>4, NoRows DEF Reattach, Viewers, NoAddr
  <2> QED
    BY <2>1 DEF HexInv
<1>5. CASE ShowViewer \/ DisassembleHere
  BY <1>3, <1>5 DEF ShowViewer, DisassembleHere, ViewerFrame, HexInv
<1>6. CASE SnapshotExpires
  BY <1>2, <1>6 DEF SnapshotExpires, ViewerFrame, HexInv, Viewers
<1>7. ASSUME NEW h \in Viewers, NEW a \in Nat, hex' = NavigateTo(h, a) PROVE HexInv'
  <2> DEFINE history == IF a = h.at THEN h.history ELSE Capped(h.history, h.at)
             e == [h EXCEPT !.history = history, !.at = a, !.current = FALSE]
  <2>1. h.at \in Nat /\ h.history \in Seq(Nat)
    BY DEF Viewers
  <2>2. history \in Seq(Nat)
    BY <2>1, CappedType
  <2>3. NavigateTo(h, a) = e
    BY DEF NavigateTo, Viewers
  <2> HIDE DEF history
  <2>4. e \in Viewers /\ e.current = FALSE
    BY <2>1, <2>2 DEF Viewers
  <2> HIDE DEF e
  <2> QED
    BY <1>7, <2>3, <2>4 DEF HexInv
<1>8. CASE \E a \in JumpTargets : ViewerGo(a)
  <2>1. PICK a \in JumpTargets : hex' = NavigateTo(Snapshot(hex), a)
    BY <1>8 DEF ViewerGo, ViewerFrame
  <2>2. a \in Nat
    BY CodeBrowserAssumption
  <2> QED
    BY <1>3, <1>7, <2>1, <2>2
<1>9. CASE NavigatorString
  <2>1. PICK b \in Loads : hex' = NavigateTo(hex, b[2])
    BY <1>9 DEF NavigatorString
  <2>2. b[2] \in Nat
    BY RefsAssumption
  <2> QED
    BY <1>2, <1>7, <2>1, <2>2
<1>10. CASE ViewerBack
  <2> DEFINE h == Snapshot(hex)
             e == [h EXCEPT !.at = Last(h.history), !.history = Front(h.history), !.current = FALSE]
  <2>1. Front(h.history) \in Seq(Nat) /\ Last(h.history) \in Nat
    BY <1>2, <1>3, <1>10, FrontAndLast DEF ViewerBack
  <2>2. hex' = NavigateBack(h)
    BY <1>10 DEF ViewerBack, ViewerFrame
  <2>3. NavigateBack(h) = e
    BY <1>3 DEF NavigateBack, Viewers
  <2> HIDE DEF h
  <2>4. e \in Viewers /\ e.current = FALSE
    BY <1>3, <2>1 DEF Viewers, h
  <2> HIDE DEF e
  <2> QED
    BY <2>2, <2>3, <2>4 DEF HexInv
<1>11. CASE \/ DrawModules \/ ShowDisassembly \/ BackPressed \/ ForwardPressed \/ ExtendFails \/ DoDissect
            \/ NextModule \/ IndexRegions \/ ReadChunk \/ DissectDone \/ DissectFails \/ DrawNavigator
            \/ \E m \in DOMAIN ModuleRegions : TargetLoads(m)
            \/ \E t \in [1 .. Cardinality(loaded) -> BOOLEAN] : ChangeTicks(t)
            \/ \E i \in Active(disasm) : NopRow(i) \/ NopFails(i)
            \/ \E a \in JumpTargets : GoPressed(a) \/ FollowRow(a) \/ NavigatorRow(a)
  BY <1>1, <1>11 DEF DrawModules, ShowDisassembly, BackPressed, ForwardPressed, ExtendFails, DoDissect,
       NextModule, IndexRegions, ReadChunk, DissectDone, DissectFails, WorkerStep, DissectKeeps,
       DrawNavigator, TargetLoads, ChangeTicks, NopRow, NopFails, WriteNops, GoPressed,
       FollowRow, NavigatorRow, Frame, Jump
<1>12. CASE UNCHANGED brVars
  BY <1>1, <1>12 DEF brVars
<1> QED
  BY <1>4, <1>5, <1>6, <1>8, <1>9, <1>10, <1>11, <1>12 DEF BrNext

LEMMA JobSafe == CodeInv /\ JobInv /\ [BrNext]_brVars => JobInv'
<1> SUFFICES ASSUME CodeInv, JobInv, [BrNext]_brVars PROVE JobOk(job', seen', code', nops', loaded')
  BY DEF JobInv
<1>0. loaded \subseteq DOMAIN ModuleRegions /\ Table(code)
  BY DEF CodeInv
<1>1. ASSUME UNCHANGED <<job, seen, code, nops, loaded>> PROVE JobOk(job', seen', code', nops', loaded')
  BY <1>1 DEF JobInv
<1>2. CASE DoDissect
  <2>1. UNCHANGED <<code, nops, loaded>>
    BY <1>2 DEF DoDissect, DissectKeeps, codeVars
  <2> QED
    BY <1>0, <1>2, <2>1, StartOk
<1>3. CASE NextModule
  <2>1. UNCHANGED <<seen, code, nops, loaded>>
    BY <1>3 DEF NextModule, WorkerStep, DissectKeeps, codeVars
  <2> QED
    BY <1>0, <1>3, <2>1, NextModuleOk
<1>4. CASE IndexRegions
  <2>1. UNCHANGED <<seen, code, nops, loaded>>
    BY <1>4 DEF IndexRegions, WorkerStep, DissectKeeps, codeVars
  <2> QED
    BY <1>4, <2>1, IndexOk
<1>5. CASE ReadChunk
  <2>1. UNCHANGED <<seen, code, nops, loaded>>
    BY <1>5 DEF ReadChunk, WorkerStep, DissectKeeps, codeVars
  <2> QED
    BY <1>0, <1>5, <2>1, ReadOk
<1>6. CASE Reattach \/ DissectDone \/ DissectFails
  <2>1. job' = NoDissectJob /\ seen' = NothingSeen
    BY <1>6 DEF Reattach, DissectDone, DissectFails
  <2> QED
    BY <2>1, NoJobOk
<1>7. CASE \E m \in DOMAIN ModuleRegions : TargetLoads(m)
  BY <1>0, <1>7, LoadsOk
<1>8. CASE \E i \in Active(disasm) : NopRow(i) \/ NopFails(i)
  <2>1. PICK i, n : WriteNops(i, n)
    BY <1>8 DEF NopRow, NopFails
  <2> QED
    BY <1>0, <2>1, PatchOk
<1>9. CASE \/ DrawModules \/ ShowDisassembly \/ BackPressed \/ ForwardPressed \/ ExtendFails
           \/ DrawNavigator \/ NavigatorString \/ ShowViewer \/ SnapshotExpires \/ ViewerBack
           \/ DisassembleHere
           \/ \E t \in [1 .. Cardinality(loaded) -> BOOLEAN] : ChangeTicks(t)
           \/ \E a \in JumpTargets : GoPressed(a) \/ FollowRow(a) \/ NavigatorRow(a) \/ ViewerGo(a)
  <2>1. UNCHANGED <<job, seen, code, nops, loaded>>
    BY <1>9 DEF DrawModules, ShowDisassembly, BackPressed, ForwardPressed, ExtendFails, DrawNavigator,
         NavigatorString, ShowViewer, SnapshotExpires, ViewerBack, DisassembleHere, ChangeTicks,
         GoPressed, FollowRow, NavigatorRow, ViewerGo, ViewerFrame, Frame, Jump, codeVars, xrefVars
  <2> QED
    BY <1>1, <2>1
<1>10. CASE UNCHANGED brVars
  BY <1>1, <1>10 DEF brVars, codeVars, xrefVars
<1> QED
  BY <1>2, <1>3, <1>4, <1>5, <1>6, <1>7, <1>8, <1>9, <1>10 DEF BrNext

BrInv == CodeInv /\ NavInv /\ HexInv /\ JobInv

LEMMA BrInitInv == BrInit => BrInv
<1> SUFFICES ASSUME BrInit PROVE BrInv
  OBVIOUS
<1>1. Table(code) /\ loaded \subseteq DOMAIN ModuleRegions
  BY CodesAssumption, CodeBrowserAssumption DEF BrInit, Table
<1>2. NoCache \in [at : Nat, insns : Seq(Rows)]
  BY NoRows DEF NoCache, NoAddr
<1>3. disasm \in Disasms /\ disasm.mode = "Function"
  BY <1>2, NoRows DEF BrInit, Disasms, NoAddr
<1>4. CodeInv
  BY <1>1, <1>3 DEF CodeInv, DisasmInv, ListingInv
<1>5. NavInv
  BY DEF BrInit, NavInv, NoDissect, NoAddr
<1>6. hex \in Viewers /\ hex.current = FALSE
  BY NoRows DEF BrInit, Viewers, NoAddr
<1>7. JobInv
  BY NoJobOk DEF BrInit, JobInv
<1> QED
  BY <1>4, <1>5, <1>6, <1>7 DEF BrInv, HexInv

\* The invariant of the code browser: whatever the user, the target and the jobs do, the
\* listing is decoded code with a place to go on at, the navigator's lists are of an epoch
\* there was, the viewer's snapshot is of an address, and a dissect job holds the references
\* of what it has read of the modules that stayed, and no other.
THEOREM BrInvariance == BrSpec => []BrInv
<1>1. BrInv /\ [BrNext]_brVars => BrInv'
  BY CodeSafe, NavSafe, HexSafe, JobSafe DEF BrInv
<1> QED
  BY BrInitInv, <1>1, PTL DEF BrSpec

\* The linear listing is the code, for every layout of regions, every code and every chunk
\* size an instruction fits in (linear_extend, linear_reset, nop_instruction).
THEOREM ListingIsExact == BrSpec => []ListingExact
<1>1. CodeInv => ListingExact
  <2> SUFFICES ASSUME CodeInv, disasm.mode = "Linear", NEW i \in 1 .. Len(disasm.listing)
               PROVE  LET row == disasm.listing[i]
                          region == RegionOf(disasm, row.at)
                      IN /\ InRegion(disasm, row.at) /\ EndOf(row) <= region[2]
                         /\ row.at \in torn \/ code[row.at] = row.len
                         /\ i < Len(disasm.listing) =>
                              GoesOn(disasm, code, torn, row, disasm.listing[i + 1].at)
    BY DEF ListingExact, GoesOn
  <2> DEFINE row == disasm.listing[i]
  <2>1. disasm \in Disasms /\ ListingInv(disasm, code, torn)
    BY DEF CodeInv, DisasmInv
  <2>2. disasm.regions \subseteq AllRegions /\ disasm.listing \in Seq(Rows) /\ row \in Rows
    BY <2>1 DEF Disasms
  <2>3. RowShown(disasm, code, torn, row)
    BY <2>1 DEF ListingInv
  <2>4. PICK r \in disasm.regions : Holds(r, row.at) /\ EndOf(row) <= r[2]
    BY <2>3 DEF RowShown
  <2>5. row.at \in Nat
    BY <2>2 DEF Rows
  <2>6. RegionOf(disasm, row.at) = r
    BY <2>2, <2>4, <2>5, RegionOfIs
  <2>7. InRegion(disasm, row.at)
    BY <2>4 DEF InRegion
  <2>8. i < Len(disasm.listing) => GoesOn(disasm, code, torn, row, disasm.listing[i + 1].at)
    <3>1. ASSUME i < Len(disasm.listing) PROVE i \in 1 .. Len(disasm.listing) - 1
      BY <2>2, <3>1
    <3> QED
      BY <2>1, <3>1 DEF ListingInv
  <2> QED
    BY <2>3, <2>4, <2>6, <2>7, <2>8 DEF RowShown
<1>2. BrInv => ListingExact
  BY <1>1 DEF BrInv
<1> QED
  BY BrInvariance, <1>2, PTL

\* Navigator lists built for the present epoch are those of the present dissect, and the
\* viewer's snapshot that is not due is of the address in the bar
\* (NavigatorPanel::show, MemoryViewer::maybe_snapshot).
THEOREM CachesDoMatch == BrSpec => []CachesMatch
<1>1. BrInv => CachesMatch
  BY DEF BrInv, NavInv, HexInv, CachesMatch
<1> QED
  BY BrInvariance, <1>1, PTL

\* A dissect that lands, of any modules, regions and code and at any chunk size, whatever is
\* loaded, unloaded and patched while it reads: all its references are made in modules it was
\* started for, those of a region that was not patched are of a plain decode and refer to what
\* was there, and of a module that stayed loaded none whose target stayed is missing
\* (compute_dissect_many, dissect_regions, record_instruction, DisassemblyPanel::poll).
THEOREM DissectIsExact == BrSpec => DissectExact
<1> DEFINE visited == RegionsOf(job.of \cap seen.been)
           kept == RegionsOf(job.of \cap seen.stayed)
           Exact ==
             /\ \A b \in dissect'.refs : \E r \in visited : Holds(r, b[1])
             /\ \A r \in visited : \A b \in Branches \cup Loads :
                  Holds(r, b[1]) /\ r[1] .. r[2] - 1 \cap seen.edited = {} =>
                    /\ b \in dissect'.refs => Makes(r, b) /\ Reaches(b, seen.been)
                    /\ r \in kept /\ Makes(r, b) /\ Reaches(b, seen.stayed) => b \in dissect'.refs
<1>1. \A r, b : Makes(r, b) <=> MadeFrom(code, nops, r[1], r[2], b)
  BY DEF Makes, MadeFrom
<1>2. \A r : Unpatched(r, seen) <=> r[1] .. r[2] - 1 \cap seen.edited = {}
  BY DEF Unpatched
<1>3. ASSUME JobInv, DissectDone PROVE Exact
  <2>1. /\ JobStages(job, seen, loaded) /\ JobLocated(job, seen) /\ JobSound(job, seen, code, nops)
        /\ JobComplete(job, seen, code, nops)
    BY <1>3 DEF JobInv, JobOk
  <2>2. dissect'.refs = job.refs /\ job.stage = "done"
    BY <1>3 DEF DissectDone
  <2>3. job.left = {} /\ job.todo = {}
    BY <2>1, <2>2 DEF JobStages
  <2>4. visited = Visited(job, seen)
    BY DEF Visited
  <2> HIDE DEF visited
  <2>5. \A b \in dissect'.refs : \E r \in visited : Holds(r, b[1])
    BY <2>1, <2>2, <2>4 DEF JobLocated
  <2>6. ASSUME NEW r \in visited, NEW b \in Branches \cup Loads, Holds(r, b[1]), Unpatched(r, seen),
               b \in dissect'.refs
        PROVE  Makes(r, b) /\ Reaches(b, seen.been)
    BY <1>1, <2>1, <2>2, <2>4, <2>6 DEF JobSound
  <2>7. ASSUME NEW r \in kept, NEW b \in Branches \cup Loads, Unpatched(r, seen),
               Makes(r, b), Reaches(b, seen.stayed)
        PROVE  b \in dissect'.refs
    <3>1. PICK m \in job.of \cap seen.stayed : r \in ModuleRegions[m]
      BY <2>7 DEF RegionsOf
    <3> QED
      BY <1>1, <2>1, <2>2, <2>3, <2>7, <3>1 DEF JobComplete, Refs
  <2> QED
    BY <1>2, <2>5, <2>6, <2>7
<1>4. ASSUME [BrNext]_brVars, epoch' # epoch PROVE DissectDone
  <2>1. CASE \/ Reattach \/ DrawModules \/ ShowDisassembly \/ BackPressed \/ ForwardPressed
             \/ ExtendFails \/ DoDissect \/ NextModule \/ IndexRegions \/ ReadChunk \/ DissectFails
             \/ DrawNavigator \/ NavigatorString \/ ShowViewer \/ SnapshotExpires \/ ViewerBack
             \/ DisassembleHere
             \/ \E m \in DOMAIN ModuleRegions : TargetLoads(m)
             \/ \E t \in [1 .. Cardinality(loaded) -> BOOLEAN] : ChangeTicks(t)
             \/ \E i \in Active(disasm) : NopRow(i) \/ NopFails(i)
             \/ \E a \in JumpTargets : GoPressed(a) \/ FollowRow(a) \/ NavigatorRow(a) \/ ViewerGo(a)
    <3>1. epoch' = epoch
      BY <2>1 DEF Reattach, DrawModules, ShowDisassembly, BackPressed, ForwardPressed, ExtendFails,
           DoDissect, NextModule, IndexRegions, ReadChunk, WorkerStep, DissectKeeps, DissectFails,
           DrawNavigator, NavigatorString, ShowViewer, SnapshotExpires, ViewerBack, DisassembleHere,
           TargetLoads, ChangeTicks, NopRow, NopFails, WriteNops, GoPressed, FollowRow, NavigatorRow,
           ViewerGo, ViewerFrame, Frame, Jump, xrefVars
    <3> QED
      BY <1>4, <3>1
  <2>2. CASE UNCHANGED brVars
    BY <1>4, <2>2 DEF brVars, xrefVars
  <2> QED
    BY <1>4, <2>1, <2>2 DEF BrNext
<1> DEFINE Lawful == dissect'.done /\ epoch' # epoch => Exact
<1>5. BrInv /\ [BrNext]_brVars => [Lawful]_brVars
  <2> SUFFICES ASSUME BrInv, [BrNext]_brVars, epoch' # epoch PROVE Exact
    OBVIOUS
  <2> HIDE DEF Exact
  <2> QED
    BY <1>3, <1>4 DEF BrInv
<1> QED
  BY BrInvariance, <1>5, PTL DEF BrSpec, DissectExact
=============================================================================
