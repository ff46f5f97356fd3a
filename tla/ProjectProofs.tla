--------------------------- MODULE ProjectProofs ----------------------------
(***************************************************************************)
(* Proofs about what a project holds: its address list (CheatTable) and    *)
(* its classes (Workspace).                                                *)
(***************************************************************************)
EXTENDS CheatTable, Workspace, SequenceTheorems, WellFoundedInduction, TLAPS

-----------------------------------------------------------------------------
(* Recursion over the prefixes of a sequence.                              *)

\* A set of naturals has a least element.
LEMMA Least ==
  ASSUME NEW T \in SUBSET Nat, T # {}
  PROVE  \E x \in T : \A y \in T : x <= y
<1>1. PICK x \in T : \A y \in T : ~(<<y, x>> \in OpToRel(<, Nat))
  BY WFMin, NatLessThanWellFounded
<1>2. \A y \in T : ~ (y < x)
  BY <1>1 DEF OpToRel
<1> QED
  BY <1>2

LEMMA MinFacts ==
  ASSUME NEW T \in SUBSET Nat, T # {}
  PROVE  Min(T) \in T /\ \A x \in T : Min(T) <= x
  BY Least DEF Min

LEMMA UpInduction ==
  ASSUME NEW n \in Nat, NEW S, 0 \in S, \A k \in 1 .. n : k - 1 \in S => k \in S
  PROVE  0 .. n \subseteq S
<1> SUFFICES ASSUME 0 .. n \ S # {} PROVE FALSE
  OBVIOUS
<1> DEFINE T == 0 .. n \ S
<1>1. T \in SUBSET Nat
  OBVIOUS
<1>2. PICK x \in T : \A y \in T : x <= y
  BY <1>1, Least
<1>3. x \in 1 .. n /\ x - 1 \in 0 .. n /\ x - 1 < x
  BY <1>2
<1>4. x - 1 \in S
  BY <1>2, <1>3
<1> QED
  BY <1>2, <1>3, <1>4

\* The equation of a loop over n elements that starts from base.
LoopEq(f, n, base, step) ==
  f = [k \in 0 .. n |-> IF k = 0 THEN base ELSE step[<<k, f[k - 1]>>]]

\* It has a solution.
LEMMA LoopUnfolds ==
  ASSUME NEW n \in Nat, NEW V, NEW base \in V, NEW step \in [(1 .. n) \X V -> V]
  PROVE  \E f \in [0 .. n -> V] : LoopEq(f, n, base, step)
<1> DEFINE S == {l \in 0 .. n : \E f \in [0 .. l -> V] : LoopEq(f, l, base, step)}
<1>1. 0 \in S
  <2> DEFINE f == [k \in 0 .. 0 |-> base]
  <2>1. f \in [0 .. 0 -> V] /\ LoopEq(f, 0, base, step)
    BY DEF LoopEq
  <2> QED
    BY <2>1
<1>2. ASSUME NEW l \in 1 .. n, l - 1 \in S PROVE l \in S
  <2>1. PICK f \in [0 .. l - 1 -> V] : LoopEq(f, l - 1, base, step)
    BY <1>2
  <2> DEFINE g == [k \in 0 .. l |-> IF k = l THEN step[<<l, f[l - 1]>>] ELSE f[k]]
  <2>2. l - 1 \in 0 .. l - 1 /\ f[l - 1] \in V /\ <<l, f[l - 1]>> \in (1 .. n) \X V
    BY <2>1
  <2>3. g \in [0 .. l -> V] /\ DOMAIN g = 0 .. l
    BY <2>1, <2>2
  <2>4. ASSUME NEW k \in 0 .. l PROVE g[k] = IF k = 0 THEN base ELSE step[<<k, g[k - 1]>>]
    <3>1. CASE k = l
      <4>1. g[k - 1] = f[l - 1] /\ k # 0 /\ g[k] = step[<<l, f[l - 1]>>]
        BY <2>2, <3>1
      <4> QED
        BY <3>1, <4>1
    <3>2. CASE k # l
      <4>1. k \in 0 .. l - 1 /\ g[k] = f[k] /\ (k # 0 => g[k - 1] = f[k - 1])
        BY <3>2
      <4>2. f[k] = IF k = 0 THEN base ELSE step[<<k, f[k - 1]>>]
        BY <2>1, <4>1 DEF LoopEq
      <4> QED
        BY <4>1, <4>2
    <3> QED
      BY <3>1, <3>2
  <2>5. LoopEq(g, l, base, step)
    <3> HIDE DEF g
    <3> QED
      BY <2>3, <2>4 DEF LoopEq
  <2> QED
    BY <2>3, <2>5
<1>3. 0 .. n \subseteq S
  <2> HIDE DEF S
  <2> QED
    BY <1>1, <1>2, UpInduction
<1>4. n \in S
  BY <1>3
<1> QED
  BY <1>4

-----------------------------------------------------------------------------
(* The cheat table: what the loops compute.                                *)

AllTypes == {"u8", "u32", "i32", "f32", "bytes"}
Entries == [addr : Cells \cup {Formula}, type : AllTypes, frozen : BOOLEAN, text : Int]
Memory == [Cells -> 0 .. 3]

\* What value_text_to_bytes makes, and the freezes that come of it.
Bytes == {b \in [wide : BOOLEAN, bits : 0 .. 3] : ~b.wide => b.bits \in 0 .. 1}
Freezes == [addr : Cells, bytes : Bytes]
ScriptFreezes == {f \in [addr : Cells, type : AllTypes, text : Int] : BytesOf(f) # NoBytes}

\* The rows of the table and of its file are typed, so that every tick writes bytes of a
\* cell to a cell.
CtInv ==
  /\ entries \in Seq(Entries) /\ tableFile.rows \in Seq(Entries)
  /\ scriptFreezes \in Seq(ScriptFreezes)
  /\ cells \in Memory /\ mapped \subseteq Cells /\ pointer \in Cells /\ online \in BOOLEAN

LEMMA BytesType ==
  ASSUME NEW type \in AllTypes, NEW text \in Int, ToBytes(type, text) # NoBytes
  PROVE  ToBytes(type, text) \in Bytes /\ type # "bytes"
<1>1. text % 4 \in 0 .. 3 /\ text % 2 \in 0 .. 1
  OBVIOUS
<1>2. type # "bytes"
  BY DEF ToBytes
<1> DEFINE bits == IF type = "u8" THEN text % 2 ELSE text % 4
<1>3. ToBytes(type, text) = [wide |-> type # "u8", bits |-> bits]
  BY DEF ToBytes
<1>4. bits \in 0 .. 3 /\ (type = "u8" => bits \in 0 .. 1)
  BY <1>1
<1> HIDE DEF bits
<1>5. CASE type = "u8"
  BY <1>2, <1>3, <1>4, <1>5 DEF Bytes
<1>6. CASE type # "u8"
  <2>1. (type # "u8") = TRUE
    BY <1>6
  <2>2. ToBytes(type, text) = [wide |-> TRUE, bits |-> bits]
    BY <1>3, <2>1
  <2> QED
    BY <1>2, <1>4, <2>2 DEF Bytes
<1> QED
  BY <1>5, <1>6

LEMMA PokeType ==
  ASSUME NEW v \in 0 .. 3, NEW b \in Bytes
  PROVE  Poke(v, b) \in 0 .. 3
<1>1. v = 0 \/ v = 1 \/ v = 2 \/ v = 3
  OBVIOUS
<1>2. b.wide \in BOOLEAN /\ b.bits \in 0 .. 3 /\ (~b.wide => b.bits \in 0 .. 1)
  BY DEF Bytes
<1>3. 0 \div 2 = 0 /\ 1 \div 2 = 0 /\ 2 \div 2 = 1 /\ 3 \div 2 = 1
  OBVIOUS
<1> QED
  BY <1>1, <1>2, <1>3 DEF Poke

\* FreezeSet::set adds or replaces the one freeze.
LEMMA SetFreezeType ==
  ASSUME NEW F, NEW set \in Seq(F), NEW f \in F
  PROVE  SetFreeze(set, f) \in Seq(F)
<1> DEFINE new == [i \in 1 .. Len(set) |-> IF set[i].addr = f.addr THEN f ELSE set[i]]
<1>1. new \in [1 .. Len(set) -> F]
  OBVIOUS
<1>2. new \in Seq(F)
  BY <1>1, SeqDef
<1> QED
  BY <1>2 DEF SetFreeze

\* What tick_freeze collects are freezes of its due rows: every F that has those has all.
LEMMA FreezesOfType ==
  ASSUME NEW F, NEW list \in Seq(Entries),
         \A n \in 1 .. Len(list) : Due(list[n]) /\ BytesOf(list[n]) # NoBytes =>
           Freeze(ResolveAddr(list[n].addr), BytesOf(list[n])) \in F
  PROVE  FreezesOf(list) \in Seq(F)
<1> DEFINE N == Len(list)
           V == Seq(F)
           skip(n) == ~Due(list[n]) \/ BytesOf(list[n]) = NoBytes
           new(n) == Freeze(ResolveAddr(list[n].addr), BytesOf(list[n]))
           Eq(f) == f = [n \in 0 .. N |->
                      IF n = 0 THEN <<>>
                      ELSE IF skip(n) THEN f[n - 1] ELSE SetFreeze(f[n - 1], new(n))]
           step == [p \in (1 .. N) \X V |-> IF skip(p[1]) THEN p[2] ELSE SetFreeze(p[2], new(p[1]))]
           G == CHOOSE f : Eq(f)
<1>1. N \in Nat /\ <<>> \in V
  OBVIOUS
<1>2. \A n \in 1 .. N : ~skip(n) => new(n) \in F
  OBVIOUS
<1>3. FreezesOf(list) = G[N]
  BY DEF FreezesOf
<1> HIDE DEF skip, new
<1>4. ASSUME NEW n \in 1 .. N, NEW s \in V
      PROVE  (IF skip(n) THEN s ELSE SetFreeze(s, new(n))) \in V
  BY <1>2, <1>4, SetFreezeType
<1>5. step \in [(1 .. N) \X V -> V]
  BY <1>4
<1>6. \A n \in 1 .. N, s \in V : step[<<n, s>>] = IF skip(n) THEN s ELSE SetFreeze(s, new(n))
  OBVIOUS
<1> HIDE DEF N, V, step
<1>7. PICK f \in [0 .. N -> V] : LoopEq(f, N, <<>>, step)
  BY <1>1, <1>5, LoopUnfolds
<1>8. Eq(f)
  <2>1. ASSUME NEW n \in 0 .. N
        PROVE  f[n] = IF n = 0 THEN <<>> ELSE IF skip(n) THEN f[n - 1] ELSE SetFreeze(f[n - 1], new(n))
    <3>1. f[n] = IF n = 0 THEN <<>> ELSE step[<<n, f[n - 1]>>]
      BY <1>7 DEF LoopEq
    <3>2. CASE n = 0
      BY <3>1, <3>2
    <3>3. CASE n # 0
      <4>1. n \in 1 .. N /\ f[n - 1] \in V
        BY <1>1, <1>7, <3>3
      <4> QED
        BY <1>6, <3>1, <3>3, <4>1
    <3> QED
      BY <3>2, <3>3
  <2>2. DOMAIN f = 0 .. N
    BY <1>7
  <2> QED
    BY <2>1, <2>2, <1>7
<1>9. Eq(G)
  BY <1>8
<1> HIDE DEF G
<1> DEFINE S == {n \in 0 .. N : G[n] \in V}
<1>10. 0 .. N \subseteq S
  <2>1. 0 \in S
    BY <1>1, <1>9
  <2>2. ASSUME NEW n \in 1 .. N, n - 1 \in S PROVE n \in S
    <3>1. G[n] = IF skip(n) THEN G[n - 1] ELSE SetFreeze(G[n - 1], new(n))
      BY <1>1, <1>9
    <3>2. G[n - 1] \in V
      BY <2>2
    <3> QED
      BY <1>1, <1>4, <3>1, <3>2
  <2> HIDE DEF S
  <2> QED
    BY <1>1, <2>1, <2>2, UpInduction
<1>11. N \in S
  BY <1>1, <1>10
<1> QED
  BY <1>3, <1>11 DEF V

\* FreezeSet::apply writes cells of the memory, and the bytes it is given: it keeps every
\* set of memories that each of its writes keeps.
LEMMA ApplyKeeps ==
  ASSUME NEW F, NEW V, NEW set \in Seq(F), NEW mem \in V,
         \A f \in F, m \in V : f.addr \in mapped => [m EXCEPT ![f.addr] = Poke(@, f.bytes)] \in V
  PROVE  Apply(set, mem) \in V
<1> DEFINE N == Len(set)
           put(n, m) == [m EXCEPT ![set[n].addr] = Poke(@, set[n].bytes)]
           next(n, m) == IF set[n].addr \in mapped THEN put(n, m) ELSE m
           Eq(f) == f = [n \in 0 .. N |->
                      IF n = 0 THEN mem
                      ELSE IF set[n].addr \in mapped THEN put(n, f[n - 1]) ELSE f[n - 1]]
           step == [p \in (1 .. N) \X V |-> next(p[1], p[2])]
           G == CHOOSE f : Eq(f)
<1>1. N \in Nat /\ \A n \in 1 .. N : set[n] \in F
  OBVIOUS
<1>2. Apply(set, mem) = G[N]
  BY DEF Apply
<1>3. ASSUME NEW n \in 1 .. N, NEW m \in V PROVE next(n, m) \in V
  BY <1>1, <1>3
<1> HIDE DEF put
<1>4. step \in [(1 .. N) \X V -> V]
  <2> HIDE DEF next
  <2> QED
    BY <1>3
<1>5. \A n \in 1 .. N, m \in V : step[<<n, m>>] = next(n, m)
  <2> HIDE DEF next
  <2> QED
    OBVIOUS
<1> HIDE DEF N, step
<1>6. PICK f \in [0 .. N -> V] : LoopEq(f, N, mem, step)
  BY <1>1, <1>4, LoopUnfolds
<1>7. Eq(f)
  <2>1. ASSUME NEW n \in 0 .. N
        PROVE  f[n] = IF n = 0 THEN mem
                      ELSE IF set[n].addr \in mapped THEN put(n, f[n - 1]) ELSE f[n - 1]
    <3>1. f[n] = IF n = 0 THEN mem ELSE step[<<n, f[n - 1]>>]
      BY <1>6 DEF LoopEq
    <3>2. CASE n = 0
      BY <3>1, <3>2
    <3>3. CASE n # 0
      <4>1. n \in 1 .. N /\ f[n - 1] \in V
        BY <1>1, <1>6, <3>3
      <4> QED
        BY <1>5, <3>1, <3>3, <4>1
    <3> QED
      BY <3>2, <3>3
  <2>2. DOMAIN f = 0 .. N
    BY <1>6
  <2> QED
    BY <2>1, <2>2, <1>6
<1>8. Eq(G)
  BY <1>7
<1> HIDE DEF G
<1> DEFINE S == {n \in 0 .. N : G[n] \in V}
<1>9. 0 .. N \subseteq S
  <2>1. 0 \in S
    BY <1>1, <1>8
  <2>2. ASSUME NEW n \in 1 .. N, n - 1 \in S PROVE n \in S
    <3>1. G[n] = next(n, G[n - 1])
      BY <1>1, <1>8
    <3>2. G[n - 1] \in V
      BY <2>2
    <3> HIDE DEF next
    <3> QED
      BY <1>1, <1>3, <3>1, <3>2
  <2> HIDE DEF S
  <2> QED
    BY <1>1, <2>1, <2>2, UpInduction
<1>10. N \in S
  BY <1>1, <1>9
<1> QED
  BY <1>2, <1>10

\* Cells stay two bits wide.
LEMMA ApplyType ==
  ASSUME NEW set \in Seq(Freezes), NEW mem \in Memory
  PROVE  Apply(set, mem) \in Memory
<1>1. ASSUME NEW f \in Freezes, NEW m \in Memory, f.addr \in mapped
      PROVE  [m EXCEPT ![f.addr] = Poke(@, f.bytes)] \in Memory
  <2>1. f.addr \in Cells /\ f.bytes \in Bytes
    BY DEF Freezes
  <2>2. Poke(m[f.addr], f.bytes) \in 0 .. 3
    BY <2>1, PokeType DEF Memory
  <2> QED
    BY <2>1, <2>2 DEF Memory
<1> QED
  BY <1>1, ApplyKeeps

\* Freezes that are on do not change the memory.
LEMMA ApplyStable ==
  ASSUME NEW mem \in Memory,
         NEW set \in Seq({f \in Freezes : f.addr \in mapped => Poke(mem[f.addr], f.bytes) = mem[f.addr]})
  PROVE  Apply(set, mem) = mem
<1> DEFINE F == {f \in Freezes : f.addr \in mapped => Poke(mem[f.addr], f.bytes) = mem[f.addr]}
<1>1. ASSUME NEW f \in F, NEW m \in {mem}, f.addr \in mapped
      PROVE  [m EXCEPT ![f.addr] = Poke(@, f.bytes)] \in {mem}
  <2>1. Poke(mem[f.addr], f.bytes) = mem[f.addr]
    BY <1>1
  <2> QED
    BY <2>1 DEF Memory
<1> HIDE DEF F
<1>2. set \in Seq(F) /\ mem \in {mem}
  BY DEF F
<1> QED
  BY <1>1, <1>2, ApplyKeeps

\* Removing freezes leaves freezes.
LEMMA WithoutType ==
  ASSUME NEW F, NEW set \in Seq(F), NEW addr
  PROVE  Without(set, addr) \in Seq(F)
<1> DEFINE N == Len(set)
           V == Seq(F)
           next(n, s) == IF set[n].addr = addr THEN s ELSE Append(s, set[n])
           Eq(f) == f = [n \in 0 .. N |->
                      IF n = 0 THEN <<>>
                      ELSE IF set[n].addr = addr THEN f[n - 1] ELSE Append(f[n - 1], set[n])]
           step == [p \in (1 .. N) \X V |-> next(p[1], p[2])]
           G == CHOOSE f : Eq(f)
<1>1. N \in Nat /\ <<>> \in V /\ \A n \in 1 .. N : set[n] \in F
  OBVIOUS
<1>2. Without(set, addr) = G[N]
  BY DEF Without
<1>3. ASSUME NEW n \in 1 .. N, NEW s \in V PROVE next(n, s) \in V
  BY <1>1, <1>3
<1>4. step \in [(1 .. N) \X V -> V]
  <2> HIDE DEF next
  <2> QED
    BY <1>3
<1>5. \A n \in 1 .. N, s \in V : step[<<n, s>>] = next(n, s)
  <2> HIDE DEF next
  <2> QED
    OBVIOUS
<1> HIDE DEF N, V, step
<1>6. PICK f \in [0 .. N -> V] : LoopEq(f, N, <<>>, step)
  BY <1>1, <1>4, LoopUnfolds
<1>7. Eq(f)
  <2>1. ASSUME NEW n \in 0 .. N
        PROVE  f[n] = IF n = 0 THEN <<>>
                      ELSE IF set[n].addr = addr THEN f[n - 1] ELSE Append(f[n - 1], set[n])
    <3>1. f[n] = IF n = 0 THEN <<>> ELSE step[<<n, f[n - 1]>>]
      BY <1>6 DEF LoopEq
    <3>2. CASE n = 0
      BY <3>1, <3>2
    <3>3. CASE n # 0
      <4>1. n \in 1 .. N /\ f[n - 1] \in V
        BY <1>1, <1>6, <3>3
      <4> QED
        BY <1>5, <3>1, <3>3, <4>1
    <3> QED
      BY <3>2, <3>3
  <2>2. DOMAIN f = 0 .. N
    BY <1>6
  <2> QED
    BY <2>1, <2>2, <1>6
<1>8. Eq(G)
  BY <1>7
<1> HIDE DEF G
<1> DEFINE S == {n \in 0 .. N : G[n] \in V}
<1>9. 0 .. N \subseteq S
  <2>1. 0 \in S
    BY <1>1, <1>8
  <2>2. ASSUME NEW n \in 1 .. N, n - 1 \in S PROVE n \in S
    <3>1. G[n] = next(n, G[n - 1])
      <4>1. n \in 0 .. N /\ n # 0
        BY <1>1
      <4>2. G[n] = IF n = 0 THEN <<>>
                   ELSE IF set[n].addr = addr THEN G[n - 1] ELSE Append(G[n - 1], set[n])
        BY <1>8, <4>1, Zenon
      <4> QED
        BY <4>1, <4>2
    <3>2. G[n - 1] \in V
      BY <2>2
    <3> HIDE DEF next
    <3> QED
      BY <1>1, <1>3, <3>1, <3>2
  <2> HIDE DEF S
  <2> QED
    BY <1>1, <2>1, <2>2, UpInduction
<1>10. N \in S
  BY <1>1, <1>9
<1> QED
  BY <1>2, <1>10 DEF V

-----------------------------------------------------------------------------
(* The table stays typed.                                                  *)

LEMMA ResolveType ==
  ASSUME CtInv, NEW addr \in Cells \cup {Formula}
  PROVE  ResolveAddr(addr) \in Cells
  BY DEF CtInv, ResolveAddr

LEMMA FormatType ==
  ASSUME NEW type \in AllTypes, type # "bytes", NEW v \in 0 .. 3
  PROVE  Format(type, v) \in Int
<1>1. v % 2 \in Int /\ v \in Int /\ v - 4 \in Int /\ (v \div 2) * 2 \in Int
  OBVIOUS
<1>2. type \in {"u8", "u32", "i32", "f32"}
  BY DEF AllTypes
<1> QED
  BY <1>1, <1>2 DEF Format

LEMMA LiveTextType ==
  ASSUME CtInv, NEW e, e.addr \in Cells \cup {Formula}, e.type \in AllTypes, e.text \in Int
  PROVE  LiveText(e) \in Int
<1>1. ResolveAddr(e.addr) \in Cells /\ cells \in Memory
  BY ResolveType DEF CtInv
<1>2. cells[ResolveAddr(e.addr)] \in 0 .. 3
  BY <1>1 DEF Memory
<1>3. e.type # "bytes" => Format(e.type, cells[ResolveAddr(e.addr)]) \in Int
  BY <1>2, FormatType
<1> QED
  BY <1>3 DEF LiveText, Dash

\* A row for a due row is a freeze.
LEMMA RowFreeze ==
  ASSUME CtInv, NEW e \in Entries, BytesOf(e) # NoBytes
  PROVE  Freeze(ResolveAddr(e.addr), BytesOf(e)) \in Freezes
<1>1. e.addr \in Cells \cup {Formula} /\ e.type \in AllTypes /\ e.text \in Int
  BY DEF Entries
<1>2. ResolveAddr(e.addr) \in Cells /\ BytesOf(e) \in Bytes
  BY <1>1, ResolveType, BytesType DEF BytesOf
<1> QED
  BY <1>2 DEF Freeze, Freezes

LEMMA FreezesOfEntries == CtInv => FreezesOf(entries) \in Seq(Freezes)
<1> SUFFICES ASSUME CtInv PROVE FreezesOf(entries) \in Seq(Freezes)
  OBVIOUS
<1>1. entries \in Seq(Entries) /\ \A n \in 1 .. Len(entries) : entries[n] \in Entries
  BY DEF CtInv
<1>2. \A n \in 1 .. Len(entries) : Due(entries[n]) /\ BytesOf(entries[n]) # NoBytes =>
        Freeze(ResolveAddr(entries[n].addr), BytesOf(entries[n])) \in Freezes
  BY <1>1, RowFreeze
<1> QED
  BY <1>1, <1>2, FreezesOfType

LEMMA CtInitInv == CtInit => CtInv
<1> SUFFICES ASSUME CtInit PROVE CtInv
  OBVIOUS
<1>1. <<>> \in Seq(Entries) /\ <<>> \in Seq(ScriptFreezes)
  OBVIOUS
<1>2. entries \in Seq(Entries) /\ tableFile.rows \in Seq(Entries) /\ scriptFreezes \in Seq(ScriptFreezes)
  BY <1>1 DEF CtInit, NoEntries, NoFile
<1>3. cells \in Memory /\ mapped \subseteq Cells /\ pointer \in Cells /\ online \in BOOLEAN
  BY CheatTableAssumption DEF CtInit, Memory
<1> QED
  BY <1>2, <1>3 DEF CtInv

\* Operations on the table.
LEMMA TableStep ==
  ASSUME CtInv, NEW list \in Seq(Entries), SetTable(list)
  PROVE  CtInv'
  BY DEF CtInv, SetTable, targetState, ScriptFreezes, BytesOf

LEMMA PushStep ==
  ASSUME CtInv, NEW e \in Entries, Push(e)
  PROVE  CtInv'
<1>1. Append(entries, e) \in Seq(Entries)
  BY DEF CtInv
<1> QED
  BY <1>1, TableStep DEF Push

LEMMA RowStep ==
  ASSUME CtInv, NEW i \in 1 .. Len(entries), NEW e \in Entries, SetRow(i, e)
  PROVE  CtInv'
<1>1. [entries EXCEPT ![i] = e] \in Seq(Entries)
  BY DEF CtInv
<1> QED
  BY <1>1, TableStep DEF SetRow

LEMMA ToggledType ==
  ASSUME NEW e \in Entries, NEW text \in Int
  PROVE  Toggled(e, text) \in Entries
<1>1. EmptyText \in Int
  BY DEF EmptyText
<1> DEFINE t == IF e.frozen THEN EmptyText ELSE text
<1>2. t \in Int
  BY <1>1
<1>3. Toggled(e, text) = [e EXCEPT !.frozen = ~e.frozen, !.text = t]
  BY DEF Toggled, Entries
<1> HIDE DEF t
<1> QED
  BY <1>2, <1>3 DEF Entries

LEMMA CtSafe == CtInv /\ [CtNext]_ctVars => CtInv'
<1> SUFFICES ASSUME CtInv, [CtNext]_ctVars PROVE CtInv'
  OBVIOUS
<1>0. /\ entries \in Seq(Entries) /\ tableFile.rows \in Seq(Entries) /\ scriptFreezes \in Seq(ScriptFreezes)
      /\ cells \in Memory /\ mapped \subseteq Cells /\ pointer \in Cells /\ online \in BOOLEAN
      /\ EmptyText \in Int /\ ValueTypes \subseteq AllTypes /\ Cells # {}
  BY CheatTableAssumption DEF CtInv, EmptyText, AllTypes
<1>1. \A i \in 1 .. Len(entries) : /\ entries[i] \in Entries /\ entries[i].addr \in Cells \cup {Formula}
                                   /\ entries[i].type \in AllTypes /\ entries[i].text \in Int
  <2>1. \A i \in 1 .. Len(entries) : entries[i] \in Entries
    BY <1>0
  <2> QED
    BY <2>1 DEF Entries
<1>2. ASSUME cells' \in Memory,
             UNCHANGED <<entries, scriptFreezes, mapped, pointer, online, tableFile>>
      PROVE  CtInv'
  BY <1>0, <1>2 DEF CtInv, ScriptFreezes, BytesOf
<1>3. CASE TickFreeze
  <2>1. Apply(FreezesOf(entries), cells) \in Memory
    BY <1>0, FreezesOfEntries, ApplyType
  <2> QED
    BY <1>2, <1>3, <2>1 DEF TickFreeze
<1>4. CASE TickScriptFreezes
  <2> DEFINE set == [i \in 1 .. Len(scriptFreezes) |->
                       Freeze(scriptFreezes[i].addr, BytesOf(scriptFreezes[i]))]
  <2>1. ASSUME NEW i \in 1 .. Len(scriptFreezes)
        PROVE  Freeze(scriptFreezes[i].addr, BytesOf(scriptFreezes[i])) \in Freezes
    <3>1. scriptFreezes[i] \in ScriptFreezes
      BY <1>0
    <3>2. /\ scriptFreezes[i].addr \in Cells /\ scriptFreezes[i].type \in AllTypes
          /\ scriptFreezes[i].text \in Int /\ BytesOf(scriptFreezes[i]) # NoBytes
      BY <3>1 DEF ScriptFreezes
    <3>3. BytesOf(scriptFreezes[i]) \in Bytes
      BY <3>2, BytesType DEF BytesOf
    <3> QED
      BY <3>2, <3>3 DEF Freeze, Freezes
  <2>2. set \in [1 .. Len(scriptFreezes) -> Freezes] /\ Len(scriptFreezes) \in Nat
    BY <1>0, <2>1
  <2>3. cells' = Apply(set, cells)
    BY <1>4 DEF TickScriptFreezes
  <2> HIDE DEF set
  <2>4. set \in Seq(Freezes)
    BY <2>2, SeqDef
  <2>5. cells' \in Memory
    BY <1>0, <2>3, <2>4, ApplyType
  <2> QED
    BY <1>2, <1>4, <2>5 DEF TickScriptFreezes
<1>5. CASE NewTable
  BY <1>0, <1>5, TableStep, EmptySeq DEF NewTable, NoEntries
<1>6. CASE ToggleFreezeAll
  <2> DEFINE all == entries # NoEntries /\ \A i \in 1 .. Len(entries) : entries[i].frozen
             row(i) == [entries[i] EXCEPT !.frozen = ~all,
                                          !.text = IF all THEN EmptyText ELSE LiveText(entries[i])]
             list == [i \in 1 .. Len(entries) |-> row(i)]
  <2>1. SetTable(list)
    BY <1>6 DEF ToggleFreezeAll
  <2>2. all \in BOOLEAN
    OBVIOUS
  <2> HIDE DEF all
  <2>3. ASSUME NEW i \in 1 .. Len(entries) PROVE row(i) \in Entries
    <3> DEFINE t == IF all THEN EmptyText ELSE LiveText(entries[i])
    <3>1. t \in Int
      BY <1>0, <1>1, LiveTextType
    <3> HIDE DEF t
    <3>2. [entries[i] EXCEPT !.frozen = ~all, !.text = t] \in Entries
      BY <1>1, <2>2, <3>1 DEF Entries
    <3> QED
      BY <3>2 DEF t
  <2> HIDE DEF row
  <2>4. list \in [1 .. Len(entries) -> Entries] /\ Len(entries) \in Nat
    BY <1>0, <2>3
  <2> HIDE DEF list
  <2>5. list \in Seq(Entries)
    BY <2>4, SeqDef
  <2> QED
    BY <2>1, <2>5, TableStep
<1>7. CASE SaveTable
  <2>1. tableFile'.rows = entries
    BY <1>7 DEF SaveTable
  <2> QED
    BY <1>0, <1>7, <2>1 DEF SaveTable, CtInv, targetState, ScriptFreezes, BytesOf
<1>8. CASE LoadTable
  BY <1>0, <1>8, TableStep DEF LoadTable
<1>9. ASSUME NEW f \in Seq(ScriptFreezes), SetScriptFreezes(f) PROVE CtInv'
  BY <1>0, <1>9 DEF SetScriptFreezes, CtInv, targetState, ScriptFreezes, BytesOf
<1>10. CASE ProjectReplaced
  BY <1>9, <1>10, EmptySeq DEF ProjectReplaced
<1>11. CASE CtAttachOrDetach
  BY <1>0, <1>11 DEF CtAttachOrDetach, CtInv, targetState, ScriptFreezes, BytesOf
<1>12. ASSUME NEW addr \in Cells \cup {Formula}, NEW type \in ValueTypes,
              AddRow(addr, type) \/ (type # "bytes" /\ FreezeRoute(addr, type)) \/ TableAdd(addr, type, 3)
       PROVE  CtInv'
  <2>1. \A frozen \in BOOLEAN, text \in Int : Entry(addr, type, frozen, text) \in Entries
    BY <1>0 DEF Entry, Entries
  <2>2. CASE AddRow(addr, type)
    BY <1>0, <2>1, <2>2, PushStep DEF AddRow
  <2>3. CASE TableAdd(addr, type, 3)
    <3>1. Entry(addr, type, TRUE, 3) \in Entries
      BY <1>0 DEF Entry, Entries
    <3> QED
      BY <2>3, <3>1, PushStep DEF TableAdd
  <2>4. CASE FreezeRoute(addr, type)
    <3> DEFINE e == Entry(addr, type, FALSE, EmptyText)
               shown == LiveText(e)
               I == {j \in 1 .. Len(entries) : entries[j].addr = addr}
               i == SelectInSeq(entries, LAMBDA r : r.addr = addr)
    <3>1. e \in Entries
      BY <1>0, <2>1
    <3>2. shown \in Int
      <4> HIDE DEF e
      <4> QED
        BY <3>1, LiveTextType DEF Entries
    <3>3. i = IF I # {} THEN Min(I) ELSE 0
      BY DEF SelectInSeq
    <3>4. I \in SUBSET Nat
      OBVIOUS
    <3>5. i > 0 => i \in 1 .. Len(entries)
      <4>1. CASE I = {}
        BY <3>3, <4>1
      <4>2. CASE I # {}
        <5>1. Min(I) \in I
          <6> HIDE DEF I
          <6> QED
            BY <3>4, <4>2, MinFacts
        <5> QED
          BY <3>3, <4>2, <5>1
      <4> QED
        BY <4>1, <4>2
    <3>6. IF i > 0 THEN SetRow(i, Toggled(entries[i], shown)) ELSE Push(Entry(addr, type, TRUE, shown))
      BY <2>4 DEF FreezeRoute
    <3> HIDE DEF i, shown
    <3>7. CASE i > 0
      <4>1. Toggled(entries[i], shown) \in Entries
        BY <1>1, <3>2, <3>5, <3>7, ToggledType
      <4> QED
        BY <3>5, <3>6, <3>7, <4>1, RowStep
    <3>8. CASE ~(i > 0)
      BY <2>1, <3>2, <3>6, <3>8, PushStep
    <3> QED
      BY <3>7, <3>8
  <2> QED
    BY <1>12, <2>2, <2>3, <2>4
<1>13. ASSUME NEW i \in 1 .. Len(entries),
              \/ ToggleFreeze(i) \/ RemoveRow(i) \/ TableRefreeze(i) \/ TableUnfreeze(i)
              \/ EditAddress(i, Formula) \/ \E type \in ValueTypes : EditType(i, type)
              \/ \E text \in {-2, 3} : TableFreeze(i, text)
       PROVE  CtInv'
  <2>1. entries[i] \in Entries /\ LiveText(entries[i]) \in Int
    BY <1>1, LiveTextType
  <2>2. CASE ToggleFreeze(i)
    <3>1. Toggled(entries[i], LiveText(entries[i])) \in Entries
      BY <2>1, ToggledType
    <3> QED
      BY <2>2, <3>1, RowStep DEF ToggleFreeze
  <2>3. CASE RemoveRow(i)
    <3>1. /\ SubSeq(entries, 1, i - 1) \in Seq(Entries)
          /\ SubSeq(entries, i + 1, Len(entries)) \in Seq(Entries)
      BY <1>0, SubSeqProperties
    <3>2. RemoveAt(entries, i) \in Seq(Entries)
      BY <3>1, ConcatProperties DEF RemoveAt
    <3> QED
      BY <2>3, <3>2, TableStep DEF RemoveRow
  <2>4. ASSUME NEW e \in Entries, SetRow(i, e) PROVE CtInv'
    BY <2>4, RowStep
  <2>5. /\ \A frozen \in BOOLEAN : [entries[i] EXCEPT !.frozen = frozen] \in Entries
        /\ \A text \in {-2, 3} : [entries[i] EXCEPT !.frozen = TRUE, !.text = text] \in Entries
        /\ \A type \in ValueTypes : [entries[i] EXCEPT !.type = type] \in Entries
        /\ [entries[i] EXCEPT !.addr = Formula] \in Entries
    <3>1. \A frozen \in BOOLEAN : [entries[i] EXCEPT !.frozen = frozen] \in Entries
      BY <2>1 DEF Entries
    <3>2. ASSUME NEW text \in {-2, 3}
          PROVE  [entries[i] EXCEPT !.frozen = TRUE, !.text = text] \in Entries
      <4>1. text \in Int
        OBVIOUS
      <4> QED
        BY <2>1, <4>1 DEF Entries
    <3>3. \A type \in ValueTypes : [entries[i] EXCEPT !.type = type] \in Entries
      BY <1>0, <2>1 DEF Entries
    <3>4. [entries[i] EXCEPT !.addr = Formula] \in Entries
      BY <2>1 DEF Entries
    <3> QED
      BY <3>1, <3>2, <3>3, <3>4
  <2>6. CASE TableRefreeze(i) \/ TableUnfreeze(i)
    BY <2>4, <2>5, <2>6 DEF TableRefreeze, TableUnfreeze
  <2>7. CASE EditAddress(i, Formula)
    BY <2>4, <2>5, <2>7 DEF EditAddress
  <2>8. CASE \E type \in ValueTypes : EditType(i, type)
    BY <2>4, <2>5, <2>8 DEF EditType
  <2>9. CASE \E text \in {-2, 3} : TableFreeze(i, text)
    BY <2>4, <2>5, <2>9 DEF TableFreeze
  <2> QED
    BY <1>13, <2>2, <2>3, <2>6, <2>7, <2>8, <2>9
<1>14. ASSUME NEW i \in 1 .. Len(entries), NEW text \in {-2, 3}, WriteValue(i, text) PROVE CtInv'
  <2> DEFINE e == entries[i]
             at == ResolveAddr(e.addr)
             bytes == ToBytes(e.type, text)
             ok == e.type = "bytes" \/ (at \in mapped /\ bytes # NoBytes)
  <2>1. /\ entries' = IF ok /\ e.frozen THEN [entries EXCEPT ![i].text = text] ELSE entries
        /\ cells' = IF ok /\ e.type # "bytes" THEN [cells EXCEPT ![at] = Poke(@, bytes)] ELSE cells
        /\ UNCHANGED <<scriptFreezes, mapped, pointer, online, tableFile>>
    BY <1>14 DEF WriteValue
  <2>2. e \in Entries /\ e.type \in AllTypes /\ text \in Int /\ at \in Cells
    BY <1>1, ResolveType
  <2> HIDE DEF at, bytes
  <2>3. cells' \in Memory
    <3>1. ASSUME ok, e.type # "bytes" PROVE [cells EXCEPT ![at] = Poke(@, bytes)] \in Memory
      <4>1. bytes \in Bytes
        BY <2>2, <3>1, BytesType DEF bytes
      <4>2. Poke(cells[at], bytes) \in 0 .. 3
        BY <1>0, <2>2, <4>1, PokeType DEF Memory
      <4> QED
        BY <1>0, <2>2, <4>2 DEF Memory
    <3> QED
      BY <1>0, <2>1, <3>1
  <2>4. entries' \in Seq(Entries)
    <3>1. [e EXCEPT !.text = text] \in Entries
      BY <2>2 DEF Entries
    <3>2. [entries EXCEPT ![i] = [e EXCEPT !.text = text]] \in Seq(Entries)
      BY <1>0, <3>1
    <3>3. [entries EXCEPT ![i].text = text] = [entries EXCEPT ![i] = [e EXCEPT !.text = text]]
      BY <1>0
    <3> QED
      BY <1>0, <2>1, <3>2, <3>3
  <2> QED
    BY <1>0, <2>1, <2>3, <2>4 DEF CtInv, ScriptFreezes, BytesOf
<1>15. ASSUME NEW c \in Cells, MemFreeze(c, "u8", 3) PROVE CtInv'
  <2> DEFINE f == [addr |-> c, type |-> "u8", text |-> 3]
  <2>1. f \in ScriptFreezes
    BY <1>15 DEF MemFreeze, ScriptFreezes, BytesOf, AllTypes
  <2>2. SetFreeze(scriptFreezes, f) \in Seq(ScriptFreezes)
    <3> HIDE DEF f
    <3> QED
      BY <1>0, <2>1, SetFreezeType
  <2> QED
    BY <1>9, <1>15, <2>2 DEF MemFreeze
<1>16. ASSUME NEW c \in Cells, MemUnfreeze(c) PROVE CtInv'
  BY <1>0, <1>9, <1>16, WithoutType DEF MemUnfreeze
<1>17. ASSUME NEW c \in Cells, TargetWrites(c, 1) PROVE CtInv'
  BY <1>0, <1>2, <1>17 DEF TargetWrites, Memory
<1>18. ASSUME NEW c \in Cells, TargetRemaps(c) \/ TargetMovesPointer(c) PROVE CtInv'
  BY <1>0, <1>18 DEF TargetRemaps, TargetMovesPointer, CtInv, ScriptFreezes, BytesOf
<1>19. CASE UNCHANGED ctVars
  BY <1>0, <1>2, <1>19 DEF ctVars, targetState
<1> QED
  BY <1>3, <1>4, <1>5, <1>6, <1>7, <1>8, <1>10, <1>11, <1>12, <1>13, <1>14, <1>15, <1>16, <1>17, <1>18,
     <1>19 DEF CtNext

\* The invariant of the cheat table: whatever the user, scripts, a loaded file and the
\* target do, rows name a cell or the formula and cells hold what fits in them.
THEOREM CtInvariance == CtSpec => []CtInv
  BY CtInitInv, CtSafe, PTL DEF CtSpec

\* A frozen row that shows what it is frozen to writes what is there: the text of an
\* integer cell parses to the bytes it was formatted from.
LEMMA ShownIsStable ==
  ASSUME CtInv, online, NEW e \in Entries, e.type # "f32", e.text = LiveText(e), BytesOf(e) # NoBytes,
         ResolveAddr(e.addr) \in mapped
  PROVE  Poke(cells[ResolveAddr(e.addr)], BytesOf(e)) = cells[ResolveAddr(e.addr)]
<1> DEFINE v == cells[ResolveAddr(e.addr)]
<1>1. e.type \in AllTypes /\ e.text \in Int /\ ResolveAddr(e.addr) \in Cells
  BY ResolveType DEF Entries
<1>2. e.type \in {"u8", "u32", "i32"}
  BY <1>1, BytesType DEF AllTypes, BytesOf
<1>3. e.text = Format(e.type, v)
  BY <1>2 DEF LiveText
<1>4. v \in 0 .. 3
  BY <1>1 DEF CtInv, Memory
<1>5. BytesOf(e) = [wide |-> e.type # "u8", bits |-> IF e.type = "u8" THEN e.text % 2 ELSE e.text % 4]
  BY DEF BytesOf, ToBytes
<1> SUFFICES Poke(v, BytesOf(e)) = v
  OBVIOUS
<1> HIDE DEF v
<1>6. v = 0 \/ v = 1 \/ v = 2 \/ v = 3
  BY <1>4
<1>7. CASE e.type = "u8"
  <2>1. e.text = v % 2
    BY <1>3, <1>7 DEF Format
  <2>2. (e.type # "u8") = FALSE
    BY <1>7
  <2>3. BytesOf(e) = [wide |-> FALSE, bits |-> e.text % 2]
    BY <1>5, <1>7, <2>2
  <2>4. BytesOf(e).wide = FALSE /\ BytesOf(e).bits = e.text % 2
    BY <2>3
  <2>5. Poke(v, BytesOf(e)) = (v \div 2) * 2 + (e.text % 2)
    BY <2>4, Zenon DEF Poke
  <2>6. CASE v = 0
    <3>1. v \div 2 = 0 /\ v % 2 = 0 /\ 0 % 2 = 0
      BY <2>6
    <3>2. e.text % 2 = 0
      BY <2>1, <3>1
    <3> QED
      BY <2>5, <2>6, <3>1, <3>2
  <2>7. CASE v = 1
    <3>1. v \div 2 = 0 /\ v % 2 = 1 /\ 1 % 2 = 1
      BY <2>7
    <3>2. e.text % 2 = 1
      BY <2>1, <3>1
    <3> QED
      BY <2>5, <2>7, <3>1, <3>2
  <2>8. CASE v = 2
    <3>1. v \div 2 = 1 /\ v % 2 = 0 /\ 0 % 2 = 0
      BY <2>8
    <3>2. e.text % 2 = 0
      BY <2>1, <3>1
    <3> QED
      BY <2>5, <2>8, <3>1, <3>2
  <2>9. CASE v = 3
    <3>1. v \div 2 = 1 /\ v % 2 = 1 /\ 1 % 2 = 1
      BY <2>9
    <3>2. e.text % 2 = 1
      BY <2>1, <3>1
    <3> QED
      BY <2>5, <2>9, <3>1, <3>2
  <2> QED
    BY <1>6, <2>6, <2>7, <2>8, <2>9
<1>8. CASE e.type \in {"u32", "i32"}
  <2>1. e.text = v \/ e.text = v - 4
    BY <1>3, <1>8 DEF Format
  <2>2. e.text % 4 = v
    BY <1>6, <2>1
  <2>3. (e.type # "u8") = TRUE /\ e.type # "u8"
    BY <1>8
  <2>4. BytesOf(e) = [wide |-> TRUE, bits |-> e.text % 4]
    BY <1>5, <2>3
  <2> QED
    BY <2>2, <2>4 DEF Poke
<1> QED
  BY <1>2, <1>7, <1>8

\* Freezing at the value on screen does not disturb the target, for any number of rows,
\* cells and overlapping freezes (tick_freeze, format_value_bytes, value_text_to_bytes).
THEOREM FreezingIsStable == CtSpec => FreezeIsStable
<1> DEFINE Stable ==
      cells' # cells /\ TickFreeze =>
        \E i \in Frozen : entries[i].type = "f32" \/ entries[i].text # LiveText(entries[i])
<1>1. ASSUME CtInv PROVE Stable
  <2> SUFFICES ASSUME TickFreeze,
                      \A i \in Frozen : entries[i].type # "f32" /\ entries[i].text = LiveText(entries[i])
               PROVE  cells' = cells
    OBVIOUS
  <2> DEFINE F == {f \in Freezes : f.addr \in mapped => Poke(cells[f.addr], f.bytes) = cells[f.addr]}
  <2>1. /\ entries \in Seq(Entries) /\ cells \in Memory /\ online
        /\ \A n \in 1 .. Len(entries) : entries[n] \in Entries
    BY <1>1 DEF CtInv, TickFreeze
  <2>2. ASSUME NEW n \in 1 .. Len(entries), Due(entries[n]), BytesOf(entries[n]) # NoBytes
        PROVE  Freeze(ResolveAddr(entries[n].addr), BytesOf(entries[n])) \in F
    <3> DEFINE f == Freeze(ResolveAddr(entries[n].addr), BytesOf(entries[n]))
    <3>1. f \in Freezes /\ f.addr = ResolveAddr(entries[n].addr) /\ f.bytes = BytesOf(entries[n])
      BY <1>1, <2>1, <2>2, RowFreeze DEF Freeze
    <3>2. n \in Frozen
      BY <2>2 DEF Frozen, Due
    <3>3. f.addr \in mapped => Poke(cells[f.addr], f.bytes) = cells[f.addr]
      BY <1>1, <2>1, <2>2, <3>1, <3>2, ShownIsStable
    <3> QED
      BY <3>1, <3>3
  <2> HIDE DEF F
  <2>3. FreezesOf(entries) \in Seq(F)
    BY <2>1, <2>2, FreezesOfType
  <2>4. Apply(FreezesOf(entries), cells) = cells
    BY <2>1, <2>3, ApplyStable DEF F
  <2> QED
    BY <2>4 DEF TickFreeze
<1>2. CtInv /\ [CtNext]_ctVars => [Stable]_ctVars
  BY <1>1
<1> QED
  BY CtInvariance, <1>2, PTL DEF CtSpec, FreezeIsStable

-----------------------------------------------------------------------------
(* The project: what the loops over its classes compute.                   *)

\* The nodes that refer to classes of T only, and the projects with the same classes
\* in the same order.
Within(T) == {n \in Nodes : n.target \in T \cup {Nil}}
Defs == [uuid : ClassIds, nodes : Seq(Nodes)]
Variants(U, ord, N) == {Project(cs, ord) : cs \in [U -> Seq(N)]}

\* ord lists the classes of U, each once.
Lists(ord, U) ==
  /\ ord \in Seq(U) /\ \A c \in U : \E i \in 1 .. Len(ord) : ord[i] = c
  /\ \A i, j \in 1 .. Len(ord) : ord[i] = ord[j] => i = j

\* What every queued edit keeps, draining the queue keeps.
LEMMA DrainedKeeps ==
  ASSUME NEW F, NEW V, NEW queue \in Seq(F), NEW p \in V, \A q \in V, o \in F : Edited(q, o) \in V
  PROVE  Drained(p, queue) \in V
<1> DEFINE N == Len(queue)
           next(k, q) == Edited(q, queue[k])
           Eq(f) == f = [k \in 0 .. N |-> IF k = 0 THEN p ELSE next(k, f[k - 1])]
           step == [x \in (1 .. N) \X V |-> next(x[1], x[2])]
           G == CHOOSE f : Eq(f)
<1>1. N \in Nat /\ \A k \in 1 .. N, q \in V : next(k, q) \in V
  OBVIOUS
<1>2. Drained(p, queue) = G[N]
  BY DEF Drained
<1> HIDE DEF N, next
<1>3. step \in [(1 .. N) \X V -> V] /\ \A k \in 1 .. N, q \in V : step[<<k, q>>] = next(k, q)
  BY <1>1
<1> HIDE DEF step
<1>4. PICK f \in [0 .. N -> V] : LoopEq(f, N, p, step)
  BY <1>1, <1>3, LoopUnfolds
<1>5. ASSUME NEW k \in 0 .. N PROVE f[k] = IF k = 0 THEN p ELSE next(k, f[k - 1])
  <2>1. f[k] = IF k = 0 THEN p ELSE step[<<k, f[k - 1]>>]
    BY <1>4 DEF LoopEq
  <2>2. k # 0 => k \in 1 .. N /\ f[k - 1] \in V
    BY <1>1, <1>4
  <2> QED
    BY <1>3, <2>1, <2>2
<1>6. Eq(f)
  BY <1>4, <1>5
<1>7. Eq(G)
  BY <1>6
<1> HIDE DEF G
<1>8. G[0] = p /\ \A k \in 1 .. N : G[k] = next(k, G[k - 1])
  BY <1>1, <1>7
<1> DEFINE S == {k \in 0 .. N : G[k] \in V}
<1>9. 0 \in S /\ \A k \in 1 .. N : k - 1 \in S => k \in S
  BY <1>1, <1>8
<1> HIDE DEF S
<1>10. 0 .. N \subseteq S
  BY <1>1, <1>9, UpInduction
<1> QED
  BY <1>1, <1>2, <1>10 DEF S

LEMMA SumOverUnfolds ==
  ASSUME NEW sizes \in Seq(Nat)
  PROVE  \E f : /\ SumOver(sizes) = f[Len(sizes)] /\ f[0] = 0
                /\ \A k \in 1 .. Len(sizes) : f[k] = f[k - 1] + sizes[k]
<1> DEFINE N == Len(sizes)
           V == Nat
           next(k, s) == s + sizes[k]
           Eq(f) == f = [k \in 0 .. N |-> IF k = 0 THEN 0 ELSE next(k, f[k - 1])]
           step == [x \in (1 .. N) \X V |-> next(x[1], x[2])]
           G == CHOOSE f : Eq(f)
<1>1. N \in Nat /\ 0 \in V /\ \A k \in 1 .. N, s \in V : next(k, s) \in V
  OBVIOUS
<1>2. SumOver(sizes) = G[N]
  BY DEF SumOver
<1> HIDE DEF N, V, next
<1>3. step \in [(1 .. N) \X V -> V] /\ \A k \in 1 .. N, s \in V : step[<<k, s>>] = next(k, s)
  BY <1>1
<1> HIDE DEF step
<1>4. PICK f \in [0 .. N -> V] : LoopEq(f, N, 0, step)
  BY <1>1, <1>3, LoopUnfolds
<1>5. ASSUME NEW k \in 0 .. N PROVE f[k] = IF k = 0 THEN 0 ELSE next(k, f[k - 1])
  <2>1. f[k] = IF k = 0 THEN 0 ELSE step[<<k, f[k - 1]>>]
    BY <1>4 DEF LoopEq
  <2>2. k # 0 => k \in 1 .. N /\ f[k - 1] \in V
    BY <1>1, <1>4
  <2> QED
    BY <1>3, <2>1, <2>2
<1>6. Eq(f)
  BY <1>4, <1>5
<1>7. Eq(G)
  BY <1>6
<1> HIDE DEF G
<1>8. G[0] = 0 /\ \A k \in 1 .. N : G[k] = next(k, G[k - 1])
  BY <1>1, <1>7
<1> QED
  BY <1>2, <1>8 DEF N, next

LEMMA WithoutClassUnfolds ==
  ASSUME NEW S, NEW order \in Seq(S), NEW c
  PROVE  \E f : /\ WithoutClass(order, c) = f[Len(order)] /\ f[0] = <<>>
                /\ \A k \in 1 .. Len(order) : f[k] = IF order[k] = c THEN f[k - 1] ELSE Append(f[k - 1], order[k])
<1> DEFINE N == Len(order)
           V == Seq(S)
           next(k, s) == IF order[k] = c THEN s ELSE Append(s, order[k])
           Eq(f) == f = [k \in 0 .. N |-> IF k = 0 THEN <<>> ELSE next(k, f[k - 1])]
           step == [x \in (1 .. N) \X V |-> next(x[1], x[2])]
           G == CHOOSE f : Eq(f)
<1>1. N \in Nat /\ <<>> \in V /\ \A k \in 1 .. N, s \in V : next(k, s) \in V
  OBVIOUS
<1>2. WithoutClass(order, c) = G[N]
  BY DEF WithoutClass
<1> HIDE DEF N, V, next
<1>3. step \in [(1 .. N) \X V -> V] /\ \A k \in 1 .. N, s \in V : step[<<k, s>>] = next(k, s)
  BY <1>1
<1> HIDE DEF step
<1>4. PICK f \in [0 .. N -> V] : LoopEq(f, N, <<>>, step)
  BY <1>1, <1>3, LoopUnfolds
<1>5. ASSUME NEW k \in 0 .. N PROVE f[k] = IF k = 0 THEN <<>> ELSE next(k, f[k - 1])
  <2>1. f[k] = IF k = 0 THEN <<>> ELSE step[<<k, f[k - 1]>>]
    BY <1>4 DEF LoopEq
  <2>2. k # 0 => k \in 1 .. N /\ f[k - 1] \in V
    BY <1>1, <1>4
  <2> QED
    BY <1>3, <2>1, <2>2
<1>6. Eq(f)
  BY <1>4, <1>5
<1>7. Eq(G)
  BY <1>6
<1> HIDE DEF G
<1>8. G[0] = <<>> /\ \A k \in 1 .. N : G[k] = next(k, G[k - 1])
  BY <1>1, <1>7
<1> QED
  BY <1>2, <1>8 DEF N, next

LEMMA ToTomlUnfolds ==
  ASSUME NEW p, p.order \in Seq(Uuids(p))
  PROVE  \E f : /\ ToToml(p) = f[Len(p.order)] /\ f[0] = <<>>
                /\ \A k \in 1 .. Len(p.order) : f[k] = Append(f[k - 1], ClassDef(p, p.order[k]))
<1> DEFINE N == Len(p.order)
           V == Seq({ClassDef(p, c) : c \in Uuids(p)})
           next(k, s) == IF p.order[k] \in Uuids(p) THEN Append(s, ClassDef(p, p.order[k])) ELSE s
           Eq(f) == f = [k \in 0 .. N |-> IF k = 0 THEN <<>> ELSE next(k, f[k - 1])]
           step == [x \in (1 .. N) \X V |-> next(x[1], x[2])]
           G == CHOOSE f : Eq(f)
<1>1. N \in Nat /\ <<>> \in V /\ \A k \in 1 .. N, s \in V : next(k, s) \in V
  OBVIOUS
<1>0. \A k \in 1 .. N : p.order[k] \in Uuids(p)
  OBVIOUS
<1>2. ToToml(p) = G[N]
  BY DEF ToToml
<1> HIDE DEF N, V, next
<1>3. step \in [(1 .. N) \X V -> V] /\ \A k \in 1 .. N, s \in V : step[<<k, s>>] = next(k, s)
  BY <1>1
<1> HIDE DEF step
<1>4. PICK f \in [0 .. N -> V] : LoopEq(f, N, <<>>, step)
  BY <1>1, <1>3, LoopUnfolds
<1>5. ASSUME NEW k \in 0 .. N PROVE f[k] = IF k = 0 THEN <<>> ELSE next(k, f[k - 1])
  <2>1. f[k] = IF k = 0 THEN <<>> ELSE step[<<k, f[k - 1]>>]
    BY <1>4 DEF LoopEq
  <2>2. k # 0 => k \in 1 .. N /\ f[k - 1] \in V
    BY <1>1, <1>4
  <2> QED
    BY <1>3, <2>1, <2>2
<1>6. Eq(f)
  BY <1>4, <1>5
<1>7. Eq(G)
  BY <1>6
<1> HIDE DEF G
<1>8. G[0] = <<>> /\ \A k \in 1 .. N : G[k] = next(k, G[k - 1])
  BY <1>1, <1>7
<1> QED
  BY <1>2, <1>8, <1>0 DEF N, next

\* Projects by their parts.
Bodies == UNION {[U -> Seq(Nodes)] : U \in SUBSET ClassIds}
Shapes == {Project(cs, ord) : cs \in Bodies, ord \in Seq(ClassIds)}

LEMMA ShapesGrow ==
  /\ NoClasses \in Shapes
  /\ \A s \in Shapes, d \in Defs : AddClass(s, d.uuid, d.nodes) \in Shapes
<1>1. NoClasses \in Shapes
  <2>1. [x \in {} |-> <<>>] \in [{} -> Seq(Nodes)] /\ <<>> \in Seq(ClassIds)
    OBVIOUS
  <2>2. [x \in {} |-> <<>>] \in Bodies
    BY <2>1 DEF Bodies
  <2> DEFINE none == [x \in {} |-> <<>>]
             nil == <<>>
  <2>3. none \in Bodies /\ nil \in Seq(ClassIds) /\ NoClasses = Project(none, nil)
    BY <2>1, <2>2 DEF NoClasses
  <2> HIDE DEF none, nil
  <2> QED
    BY <2>3 DEF Shapes
<1>2. ASSUME NEW s \in Shapes, NEW d \in Defs PROVE AddClass(s, d.uuid, d.nodes) \in Shapes
  <2>1. PICK cs \in Bodies, ord \in Seq(ClassIds) : s = Project(cs, ord)
    BY DEF Shapes
  <2>2. PICK U \in SUBSET ClassIds : cs \in [U -> Seq(Nodes)]
    BY DEF Bodies
  <2>3. s.classes = cs /\ s.order = ord /\ Uuids(s) = U
    BY <2>1, <2>2 DEF Project, Uuids
  <2>4. d.uuid \in ClassIds /\ d.nodes \in Seq(Nodes)
    BY DEF Defs
  <2> DEFINE W == U \cup {d.uuid}
             grown == [x \in W |-> IF x = d.uuid THEN d.nodes ELSE cs[x]]
             longer == IF d.uuid \in U THEN ord ELSE Append(ord, d.uuid)
  <2>5. AddClass(s, d.uuid, d.nodes) = Project(grown, longer)
    BY <2>3 DEF AddClass
  <2>6. W \in SUBSET ClassIds /\ grown \in [W -> Seq(Nodes)] /\ longer \in Seq(ClassIds)
    BY <2>2, <2>4
  <2> HIDE DEF W, grown, longer
  <2>7. grown \in Bodies
    BY <2>6 DEF Bodies
  <2> QED
    BY <2>5, <2>6, <2>7 DEF Shapes
<1> QED
  BY <1>1, <1>2

LEMMA FromTomlUnfolds ==
  ASSUME NEW file \in Seq(Defs)
  PROVE  \E f : /\ FromToml(file) = f[Len(file)] /\ f[0] = NoClasses
                /\ \A k \in 1 .. Len(file) : f[k] = AddClass(f[k - 1], file[k].uuid, file[k].nodes)
<1> DEFINE N == Len(file)
           V == Shapes
           next(k, s) == AddClass(s, file[k].uuid, file[k].nodes)
           Eq(f) == f = [k \in 0 .. N |-> IF k = 0 THEN NoClasses ELSE next(k, f[k - 1])]
           step == [x \in (1 .. N) \X V |-> next(x[1], x[2])]
           G == CHOOSE f : Eq(f)
<1>1. N \in Nat /\ NoClasses \in V /\ \A k \in 1 .. N, s \in V : next(k, s) \in V
  BY ShapesGrow
<1>2. FromToml(file) = G[N]
  BY DEF FromToml
<1> HIDE DEF N, V, next
<1>3. step \in [(1 .. N) \X V -> V] /\ \A k \in 1 .. N, s \in V : step[<<k, s>>] = next(k, s)
  BY <1>1
<1> HIDE DEF step
<1>4. PICK f \in [0 .. N -> V] : LoopEq(f, N, NoClasses, step)
  BY <1>1, <1>3, LoopUnfolds
<1>5. ASSUME NEW k \in 0 .. N PROVE f[k] = IF k = 0 THEN NoClasses ELSE next(k, f[k - 1])
  <2>1. f[k] = IF k = 0 THEN NoClasses ELSE step[<<k, f[k - 1]>>]
    BY <1>4 DEF LoopEq
  <2>2. k # 0 => k \in 1 .. N /\ f[k - 1] \in V
    BY <1>1, <1>4
  <2> QED
    BY <1>3, <2>1, <2>2
<1>6. Eq(f)
  BY <1>4, <1>5
<1>7. Eq(G)
  BY <1>6
<1> HIDE DEF G
<1>8. G[0] = NoClasses /\ \A k \in 1 .. N : G[k] = next(k, G[k - 1])
  BY <1>1, <1>7
<1> QED
  BY <1>2, <1>8 DEF N, next

LEMMA DrainedNothing == \A p : Drained(p, <<>>) = p
<1> TAKE p
<1> DEFINE F == {}
           V == {p}
<1>1. <<>> \in Seq(F) /\ p \in V /\ \A q \in V, o \in F : Edited(q, o) \in V
  OBVIOUS
<1>2. Drained(p, <<>>) \in V
  <2> HIDE DEF F, V
  <2> QED
    BY <1>1, DrainedKeeps
<1> QED
  BY <1>2

LEMMA SumOverType ==
  ASSUME NEW sizes \in Seq(Nat)
  PROVE  SumOver(sizes) \in Nat
<1>1. PICK f : /\ SumOver(sizes) = f[Len(sizes)] /\ f[0] = 0
               /\ \A k \in 1 .. Len(sizes) : f[k] = f[k - 1] + sizes[k]
  BY SumOverUnfolds
<1> DEFINE S == {k \in 0 .. Len(sizes) : f[k] \in Nat}
<1>2. Len(sizes) \in Nat /\ 0 \in S /\ \A k \in 1 .. Len(sizes) : k - 1 \in S => k \in S
  <2>1. Len(sizes) \in Nat /\ 0 \in S
    BY <1>1
  <2>2. ASSUME NEW k \in 1 .. Len(sizes), k - 1 \in S PROVE k \in S
    <3>1. f[k - 1] \in Nat /\ sizes[k] \in Nat
      BY <2>2
    <3>2. f[k] \in Nat
      BY <1>1, <3>1
    <3> QED
      BY <3>2
  <2> QED
    BY <2>1, <2>2
<1> HIDE DEF S
<1>3. 0 .. Len(sizes) \subseteq S
  BY <1>2, UpInduction
<1>4. Len(sizes) \in S
  BY <1>2, <1>3
<1> QED
  BY <1>1, <1>4 DEF S

\* A class is added at the end of the order.
LEMMA ListsAppend ==
  ASSUME NEW U, NEW ord, Lists(ord, U), NEW c, c \notin U
  PROVE  Lists(Append(ord, c), U \cup {c})
<1> DEFINE new == Append(ord, c)
           N == Len(ord)
<1>1. ord \in Seq(U) /\ N \in Nat
  BY DEF Lists
<1>2. /\ new \in Seq(U \cup {c}) /\ Len(new) = N + 1 /\ new[N + 1] = c
      /\ \A i \in 1 .. N : new[i] = ord[i] /\ ord[i] \in U
  BY <1>1
<1> HIDE DEF new
<1>3. ASSUME NEW d \in U \cup {c} PROVE \E i \in 1 .. Len(new) : new[i] = d
  <2>1. CASE d = c
    <3>1. N + 1 \in 1 .. Len(new)
      BY <1>1, <1>2
    <3> QED
      BY <1>2, <2>1, <3>1
  <2>2. CASE d \in U
    <3>1. PICK i \in 1 .. N : ord[i] = d
      BY <2>2 DEF Lists
    <3>2. i \in 1 .. Len(new) /\ new[i] = d
      BY <1>1, <1>2, <3>1
    <3> QED
      BY <3>2
  <2> QED
    BY <2>1, <2>2
<1>4. ASSUME NEW i \in 1 .. Len(new), NEW j \in 1 .. Len(new), new[i] = new[j] PROVE i = j
  <2>1. \A m, n \in 1 .. N : ord[m] = ord[n] => m = n
    BY DEF Lists
  <2>2. (i \in 1 .. N \/ i = N + 1) /\ (j \in 1 .. N \/ j = N + 1)
    BY <1>1, <1>2
  <2> QED
    BY <1>2, <1>4, <2>1, <2>2
<1> QED
  BY <1>2, <1>3, <1>4 DEF Lists, new

\* Removing a class from the order leaves the others, each once.
LEMMA ListsWithout ==
  ASSUME NEW U, NEW ord, Lists(ord, U), NEW c \in U
  PROVE  Lists(WithoutClass(ord, c), U \ {c})
<1>1. ord \in Seq(U) /\ Len(ord) \in Nat /\ \A i \in 1 .. Len(ord) : ord[i] \in U
  BY DEF Lists
<1>2. PICK f : /\ WithoutClass(ord, c) = f[Len(ord)] /\ f[0] = <<>>
               /\ \A k \in 1 .. Len(ord) :
                    f[k] = IF ord[k] = c THEN f[k - 1] ELSE Append(f[k - 1], ord[k])
  BY <1>1, WithoutClassUnfolds
<1> DEFINE Seen(k) == {ord[i] : i \in 1 .. k}
           S == {k \in 0 .. Len(ord) : Lists(f[k], Seen(k) \ {c})}
<1>3. 0 \in S
  <2>1. Seen(0) \ {c} = {}
    OBVIOUS
  <2>2. Lists(<<>>, {})
    BY DEF Lists
  <2> HIDE DEF Seen
  <2>3. Lists(f[0], Seen(0) \ {c})
    BY <1>2, <2>1, <2>2
  <2> QED
    BY <1>1, <2>3
<1>4. ASSUME NEW k \in 1 .. Len(ord), k - 1 \in S PROVE k \in S
  <2>1. Lists(f[k - 1], Seen(k - 1) \ {c})
    BY <1>4
  <2>2. Seen(k) = Seen(k - 1) \cup {ord[k]} /\ ord[k] \notin Seen(k - 1)
    <3>1. \A m, n \in 1 .. Len(ord) : ord[m] = ord[n] => m = n
      BY DEF Lists
    <3>2. 1 .. k = (1 .. k - 1) \cup {k}
      BY <1>1
    <3>3. \A i \in 1 .. k - 1 : i \in 1 .. Len(ord) /\ i # k
      BY <1>1
    <3> QED
      BY <3>1, <3>2, <3>3
  <2>3. f[k] = IF ord[k] = c THEN f[k - 1] ELSE Append(f[k - 1], ord[k])
    BY <1>2
  <2> HIDE DEF Seen
  <2> SUFFICES Lists(f[k], Seen(k) \ {c})
    BY <1>1
  <2>4. CASE ord[k] = c
    <3>1. Seen(k) \ {c} = Seen(k - 1) \ {c}
      BY <2>2, <2>4
    <3> QED
      BY <2>1, <2>3, <2>4, <3>1
  <2>5. CASE ord[k] # c
    <3>1. Seen(k) \ {c} = (Seen(k - 1) \ {c}) \cup {ord[k]} /\ ord[k] \notin Seen(k - 1) \ {c}
      BY <2>2, <2>5
    <3>2. Lists(Append(f[k - 1], ord[k]), (Seen(k - 1) \ {c}) \cup {ord[k]})
      BY <2>1, <3>1, ListsAppend
    <3> QED
      BY <2>3, <2>5, <3>1, <3>2
  <2> QED
    BY <2>4, <2>5
<1>5. 0 .. Len(ord) \subseteq S
  <2> HIDE DEF S
  <2> QED
    BY <1>1, <1>3, <1>4, UpInduction
<1>6. Lists(f[Len(ord)], Seen(Len(ord)) \ {c})
  <2> HIDE DEF Seen
  <2>1. Len(ord) \in S
    <3> HIDE DEF S
    <3> QED
      BY <1>1, <1>5
  <2> QED
    BY <2>1
<1>7. Seen(Len(ord)) = U
  <2>1. \A d \in U : \E i \in 1 .. Len(ord) : ord[i] = d
    BY DEF Lists
  <2> QED
    BY <1>1, <2>1
<1> QED
  BY <1>2, <1>6, <1>7

LEMMA ProjectFacts ==
  ASSUME NEW p
  PROVE  /\ \A cs, ord : /\ Project(cs, ord).classes = cs /\ Project(cs, ord).order = ord
                         /\ Uuids(Project(cs, ord)) = DOMAIN cs
         /\ IsProject(p) <=> /\ p = Project(p.classes, p.order) /\ Uuids(p) \subseteq ClassIds
                             /\ p.classes \in [Uuids(p) -> Seq(Nodes)] /\ Lists(p.order, Uuids(p))
<1>1. \A cs, ord : /\ Project(cs, ord).classes = cs /\ Project(cs, ord).order = ord
                   /\ Uuids(Project(cs, ord)) = DOMAIN cs
  BY DEF Project, Uuids
<1>2. IsProject(p) <=> /\ p = Project(p.classes, p.order) /\ Uuids(p) \subseteq ClassIds
                       /\ p.classes \in [Uuids(p) -> Seq(Nodes)] /\ Lists(p.order, Uuids(p))
  BY DEF IsProject, Lists
<1> QED
  BY <1>1, <1>2

\* A project from its parts.
LEMMA MakesProject ==
  ASSUME NEW U \in SUBSET ClassIds, NEW cs \in [U -> Seq(Nodes)], NEW ord, Lists(ord, U)
  PROVE  IsProject(Project(cs, ord)) /\ Uuids(Project(cs, ord)) = U
<1> DEFINE p == Project(cs, ord)
<1>1. p.classes = cs /\ p.order = ord /\ Uuids(p) = U
  BY DEF Project, Uuids
<1>2. p = Project(p.classes, p.order)
  BY <1>1
<1> HIDE DEF p
<1>3. IsProject(p)
  BY <1>1, <1>2 DEF IsProject, Lists
<1> QED
  BY <1>1, <1>3 DEF p

\* add_class and remove_class make projects of projects.
LEMMA AddClassProject ==
  ASSUME NEW p, IsProject(p), NEW c \in ClassIds, NEW T \in SUBSET Nodes, NEW nodes \in Seq(T),
         p.classes \in [Uuids(p) -> Seq(T)]
  PROVE  /\ IsProject(AddClass(p, c, nodes)) /\ Uuids(AddClass(p, c, nodes)) = Uuids(p) \cup {c}
         /\ AddClass(p, c, nodes).classes \in [Uuids(p) \cup {c} -> Seq(T)]
<1> DEFINE U == Uuids(p) \cup {c}
           cs == [x \in U |-> IF x = c THEN nodes ELSE p.classes[x]]
           ord == IF c \in Uuids(p) THEN p.order ELSE Append(p.order, c)
<1>1. Uuids(p) \subseteq ClassIds /\ Lists(p.order, Uuids(p))
  BY ProjectFacts
<1>2. U \in SUBSET ClassIds /\ cs \in [U -> Seq(T)]
  BY <1>1
<1>3. Lists(ord, U)
  <2>1. CASE c \in Uuids(p)
    <3>1. U = Uuids(p) /\ ord = p.order
      BY <2>1
    <3> QED
      BY <1>1, <3>1
  <2>2. CASE c \notin Uuids(p)
    BY <1>1, <2>2, ListsAppend
  <2> QED
    BY <2>1, <2>2
<1>4. AddClass(p, c, nodes) = Project(cs, ord)
  BY DEF AddClass
<1> HIDE DEF U, cs, ord
<1>5. Seq(T) \subseteq Seq(Nodes)
  OBVIOUS
<1>6. cs \in [U -> Seq(Nodes)]
  BY <1>2, <1>5
<1>7. IsProject(Project(cs, ord)) /\ Uuids(Project(cs, ord)) = U
  BY <1>2, <1>3, <1>6, MakesProject
<1>8. Project(cs, ord).classes = cs
  BY DEF Project
<1> QED
  BY <1>2, <1>4, <1>7, <1>8 DEF U

LEMMA RemoveClassProject ==
  ASSUME NEW p, IsProject(p), NEW c \in Uuids(p)
  PROVE  /\ IsProject(RemoveClass(p, c)) /\ Uuids(RemoveClass(p, c)) = Uuids(p) \ {c}
         /\ RemoveClass(p, c).classes = [x \in Uuids(p) \ {c} |-> p.classes[x]]
<1> DEFINE U == Uuids(p) \ {c}
           cs == [x \in U |-> p.classes[x]]
           ord == WithoutClass(p.order, c)
<1>1. Uuids(p) \subseteq ClassIds /\ Lists(p.order, Uuids(p)) /\ p.classes \in [Uuids(p) -> Seq(Nodes)]
  BY ProjectFacts
<1>2. U \in SUBSET ClassIds /\ cs \in [U -> Seq(Nodes)]
  BY <1>1
<1>3. Lists(ord, U)
  BY <1>1, ListsWithout
<1>4. RemoveClass(p, c) = Project(cs, ord)
  BY DEF RemoveClass
<1> HIDE DEF U, cs, ord
<1>5. IsProject(Project(cs, ord)) /\ Uuids(Project(cs, ord)) = U
  BY <1>2, <1>3, MakesProject
<1>6. Project(cs, ord).classes = cs
  BY DEF Project
<1> QED
  BY <1>4, <1>5, <1>6 DEF U, cs

\* from_toml makes a project of any file, also of one that names a class twice.
LEMMA FromTomlProject ==
  ASSUME NEW file \in Seq(Defs)
  PROVE  IsProject(FromToml(file))
<1>1. PICK f : /\ FromToml(file) = f[Len(file)] /\ f[0] = NoClasses
               /\ \A k \in 1 .. Len(file) : f[k] = AddClass(f[k - 1], file[k].uuid, file[k].nodes)
  BY FromTomlUnfolds
<1>2. Len(file) \in Nat
  OBVIOUS
<1> DEFINE S == {k \in 0 .. Len(file) : IsProject(f[k])}
<1>3. 0 \in S
  <2> DEFINE cs == [x \in {} |-> <<>>]
             U == {}
             ord == <<>>
  <2>1. cs \in [U -> Seq(Nodes)] /\ U \in SUBSET ClassIds
    OBVIOUS
  <2>2. Lists(ord, U)
    BY DEF Lists
  <2>3. NoClasses = Project(cs, ord)
    BY DEF NoClasses
  <2> HIDE DEF cs, U, ord
  <2>4. IsProject(NoClasses)
    BY <2>1, <2>2, <2>3, MakesProject
  <2> QED
    BY <1>1, <1>2, <2>4
<1>4. ASSUME NEW k \in 1 .. Len(file), k - 1 \in S PROVE k \in S
  <2>1. IsProject(f[k - 1]) /\ f[k - 1].classes \in [Uuids(f[k - 1]) -> Seq(Nodes)]
    BY <1>4, ProjectFacts
  <2>2. file[k] \in Defs
    BY <1>2
  <2>3. file[k].uuid \in ClassIds /\ file[k].nodes \in Seq(Nodes) /\ Nodes \in SUBSET Nodes
    BY <2>2 DEF Defs
  <2>4. IsProject(AddClass(f[k - 1], file[k].uuid, file[k].nodes))
    BY <2>1, <2>3, AddClassProject
  <2> QED
    BY <1>1, <1>2, <2>4
<1>5. 0 .. Len(file) \subseteq S
  <2> HIDE DEF S
  <2> QED
    BY <1>2, <1>3, <1>4, UpInduction
<1> QED
  BY <1>1, <1>2, <1>5

\* to_toml writes every class, in the order of the project.
LEMMA ToTomlIs ==
  ASSUME NEW p, IsProject(p)
  PROVE  ToToml(p) = [i \in 1 .. Len(p.order) |-> ClassDef(p, p.order[i])]
<1>1. p.order \in Seq(Uuids(p)) /\ Len(p.order) \in Nat
  BY DEF IsProject
<1>2. PICK f : /\ ToToml(p) = f[Len(p.order)] /\ f[0] = <<>>
               /\ \A k \in 1 .. Len(p.order) : f[k] = Append(f[k - 1], ClassDef(p, p.order[k]))
  BY <1>1, ToTomlUnfolds
<1> DEFINE def(i) == ClassDef(p, p.order[i])
           Upto(k) == [i \in 1 .. k |-> def(i)]
           S == {k \in 0 .. Len(p.order) : f[k] = Upto(k)}
<1>3. 0 \in S
  BY <1>1, <1>2
<1>4. ASSUME NEW k \in 1 .. Len(p.order), k - 1 \in S PROVE k \in S
  <2>1. f[k] = Append(Upto(k - 1), def(k))
    BY <1>2, <1>4
  <2> HIDE DEF def
  <2>2. Append(Upto(k - 1), def(k)) = Upto(k)
    BY <1>1
  <2> HIDE DEF Upto
  <2>3. f[k] = Upto(k) /\ k \in 0 .. Len(p.order)
    BY <1>1, <2>1, <2>2
  <2> QED
    BY <2>3
<1>5. 0 .. Len(p.order) \subseteq S
  <2> HIDE DEF S
  <2> QED
    BY <1>1, <1>3, <1>4, UpInduction
<1>6. f[Len(p.order)] = Upto(Len(p.order))
  <2> HIDE DEF Upto
  <2> QED
    BY <1>1, <1>5
<1> QED
  BY <1>2, <1>6

LEMMA SavedType ==
  ASSUME NEW p, IsProject(p)
  PROVE  ToToml(p) \in Seq(Defs) /\ Len(ToToml(p)) = Len(p.order)
<1> DEFINE N == Len(p.order)
           file == ToToml(p)
<1>1. /\ N \in Nat /\ p.classes \in [Uuids(p) -> Seq(Nodes)] /\ Uuids(p) \subseteq ClassIds
      /\ \A i \in 1 .. N : p.order[i] \in Uuids(p)
  BY DEF IsProject
<1>2. file = [i \in 1 .. N |-> ClassDef(p, p.order[i])]
  BY ToTomlIs
<1>3. \A i \in 1 .. N : ClassDef(p, p.order[i]) \in Defs
  BY <1>1 DEF ClassDef, Defs
<1> HIDE DEF file
<1>4. file \in [1 .. N -> Defs]
  BY <1>2, <1>3
<1>5. file \in Seq(Defs) /\ Len(file) = N
  <2> HIDE DEF N
  <2>1. file \in Seq(Defs)
    BY <1>1, <1>4, SeqDef
  <2>2. DOMAIN file = 1 .. N /\ Len(file) \in Nat /\ DOMAIN file = 1 .. Len(file)
    BY <1>4, <2>1, LenProperties
  <2> QED
    BY <1>1, <2>1, <2>2
<1> QED
  BY <1>5 DEF file

\* from_toml of what to_toml wrote is the project: after k classes it has the first k.
LEMMA RoundTrips ==
  ASSUME NEW p, IsProject(p)
  PROVE  FromToml(ToToml(p)) = p
<1> DEFINE N == Len(p.order)
           file == ToToml(p)
<1>1. /\ p.order \in Seq(Uuids(p)) /\ N \in Nat /\ p.classes \in [Uuids(p) -> Seq(Nodes)]
      /\ p = Project(p.classes, p.order) /\ Uuids(p) \subseteq ClassIds
      /\ \A i \in 1 .. N : p.order[i] \in Uuids(p)
      /\ \A i, j \in 1 .. N : p.order[i] = p.order[j] => i = j
      /\ \A c \in Uuids(p) : \E i \in 1 .. N : p.order[i] = c
  <2>1. /\ p.order \in Seq(Uuids(p)) /\ p.classes \in [Uuids(p) -> Seq(Nodes)]
        /\ p = Project(p.classes, p.order) /\ Uuids(p) \subseteq ClassIds
    BY DEF IsProject
  <2>2. /\ \A i, j \in 1 .. N : p.order[i] = p.order[j] => i = j
        /\ \A c \in Uuids(p) : \E i \in 1 .. N : p.order[i] = c
    BY Zenon DEF IsProject
  <2>3. N \in Nat /\ \A i \in 1 .. N : p.order[i] \in Uuids(p)
    BY <2>1
  <2> QED
    BY <2>1, <2>2, <2>3
<1>2. file = [i \in 1 .. N |-> ClassDef(p, p.order[i])]
  BY ToTomlIs
<1>3. file \in Seq(Defs) /\ Len(file) = N
  BY SavedType
<1> HIDE DEF file
<1>4. \A k \in 1 .. N : file[k].uuid = p.order[k] /\ file[k].nodes = p.classes[p.order[k]]
  BY <1>2 DEF ClassDef
<1>5. PICK f : /\ FromToml(file) = f[N] /\ f[0] = NoClasses
               /\ \A k \in 1 .. N : f[k] = AddClass(f[k - 1], file[k].uuid, file[k].nodes)
  BY <1>3, FromTomlUnfolds
<1> DEFINE Seen(k) == {p.order[i] : i \in 1 .. k}
           cs(k) == [x \in Seen(k) |-> p.classes[x]]
           ord(k) == [i \in 1 .. k |-> p.order[i]]
           S == {k \in 0 .. N : f[k] = Project(cs(k), ord(k))}
<1>6. 0 \in S
  <2>1. cs(0) = [x \in {} |-> <<>>] /\ ord(0) = <<>>
    OBVIOUS
  <2>2. f[0] = Project(cs(0), ord(0))
    BY <1>5, <2>1 DEF NoClasses
  <2> QED
    BY <1>1, <2>2
<1>7. ASSUME NEW k \in 1 .. N, k - 1 \in S PROVE k \in S
  <2> DEFINE q == f[k - 1]
             c == p.order[k]
  <2>1. q.classes = cs(k - 1) /\ q.order = ord(k - 1) /\ Uuids(q) = Seen(k - 1)
    BY <1>7 DEF Project, Uuids
  <2>2. Seen(k) = Seen(k - 1) \cup {c} /\ c \notin Seen(k - 1)
    <3>1. 1 .. k = (1 .. k - 1) \cup {k} /\ \A i \in 1 .. k - 1 : i \in 1 .. N /\ i # k
      BY <1>1
    <3> QED
      BY <1>1, <3>1
  <2>3. f[k] = Project([x \in Uuids(q) \cup {c} |-> IF x = c THEN p.classes[c] ELSE q.classes[x]],
                       IF c \in Uuids(q) THEN q.order ELSE Append(q.order, c))
    <3>1. f[k] = AddClass(q, file[k].uuid, file[k].nodes)
      BY <1>5
    <3>2. file[k].uuid = c /\ file[k].nodes = p.classes[c]
      BY <1>4
    <3>3. f[k] = AddClass(q, c, p.classes[c])
      BY <3>1, <3>2
    <3> HIDE DEF q, c
    <3> QED
      BY <3>3 DEF AddClass
  <2>4. Append(ord(k - 1), c) = ord(k)
    BY <1>1
  <2>5. [x \in Seen(k - 1) \cup {c} |-> IF x = c THEN p.classes[c] ELSE cs(k - 1)[x]] = cs(k)
    <3> HIDE DEF Seen
    <3> QED
      BY <2>2
  <2> HIDE DEF q, c, Seen, ord, cs
  <2>6. f[k] = Project([x \in Seen(k - 1) \cup {c} |-> IF x = c THEN p.classes[c] ELSE cs(k - 1)[x]],
                       Append(ord(k - 1), c))
    BY <2>1, <2>2, <2>3
  <2>7. f[k] = Project(cs(k), ord(k))
    BY <2>4, <2>5, <2>6
  <2> QED
    BY <1>1, <2>7
<1>8. 0 .. N \subseteq S
  <2> HIDE DEF S
  <2> QED
    BY <1>1, <1>6, <1>7, UpInduction
<1>9. f[N] = Project(cs(N), ord(N))
  <2> HIDE DEF cs, ord
  <2> QED
    BY <1>1, <1>8
<1>10. Seen(N) = Uuids(p)
  <2>1. \A c \in Uuids(p) : \E i \in 1 .. N : p.order[i] = c
    BY <1>1
  <2>2. \A i \in 1 .. N : p.order[i] \in Uuids(p)
    BY <1>1
  <2> QED
    BY <2>1, <2>2
<1>11. cs(N) = p.classes /\ ord(N) = p.order
  <2>1. cs(N) = p.classes
    <3> HIDE DEF Seen
    <3> QED
      BY <1>1, <1>10
  <2> QED
    BY <1>1, <2>1
<1> HIDE DEF cs, ord
<1> QED
  BY <1>1, <1>5, <1>9, <1>11 DEF file

-----------------------------------------------------------------------------
(* Edits keep nodes that refer to the classes of T only.                   *)

\* What an edit carries: a type, a number of bytes or nodes, a class of T.
Filling == {"AddBytes", "InsertBytes", "AppendBytes", "DeleteRange"}
Targeting == {"SetPtrTarget", "SetInstance"}
IsEdit(o, T) ==
  \/ o.kind = "ChangeType" /\ o.arg \in Tags
  \/ o.kind \in Filling /\ o.arg \in Nat
  \/ o.kind \in Targeting /\ o.arg \in T
IsQueue(q, T) == q \in Seq({q[i] : i \in 1 .. Len(q)}) /\ \A i \in 1 .. Len(q) : IsEdit(q[i], T)

LEMMA ConstructType ==
  ASSUME NEW tag \in Tags
  PROVE  Construct(tag) \in Within({})
<1>1. DefaultLen(tag) \in Nat
  BY DEF DefaultLen
<1> QED
  BY <1>1 DEF Construct, Within, Nodes

LEMMA TargetType ==
  ASSUME NEW T \in SUBSET ClassIds, NEW c \in T
  PROVE  PointerTo(c) \in Within(T) /\ InstanceOf(c) \in Within(T)
<1>1. DefaultLen("Pointer") \in Nat /\ DefaultLen("ClassInstance") \in Nat
  BY DEF DefaultLen
<1>2. "Pointer" \in Tags /\ "ClassInstance" \in Tags
  BY DEF Tags, AddressTags
<1>3. /\ PointerTo(c) = [tag |-> "Pointer", target |-> c, len |-> DefaultLen("Pointer")]
      /\ InstanceOf(c) = [tag |-> "ClassInstance", target |-> c, len |-> DefaultLen("ClassInstance")]
  BY DEF PointerTo, InstanceOf, Construct
<1> QED
  BY <1>1, <1>2, <1>3 DEF Within, Nodes

LEMMA WithinFacts ==
  ASSUME NEW T \in SUBSET ClassIds
  PROVE  Within({}) \subseteq Within(T) /\ Within(T) \subseteq Nodes /\ Within(ClassIds) = Nodes
  BY DEF Within, Nodes

LEMMA RepeatType ==
  ASSUME NEW n \in Nat, NEW tag \in Tags
  PROVE  Repeat(n, tag) \in Seq(Within({}))
<1>1. Repeat(n, tag) \in [1 .. n -> Within({})]
  BY ConstructType DEF Repeat
<1> QED
  BY <1>1, SeqDef

LEMMA HexFillType ==
  ASSUME NEW n \in Nat
  PROVE  HexFill(n) \in Seq(Within({}))
<1> DEFINE S == Seq(Within({}))
<1>1. n \div 8 \in Nat /\ (n % 8) \div 4 \in Nat /\ (n % 4) \div 2 \in Nat /\ n % 2 \in Nat
  OBVIOUS
<1>2. "Hex64" \in Tags /\ "Hex32" \in Tags /\ "Hex16" \in Tags /\ "Hex8" \in Tags
  BY DEF Tags, HexSize
<1>3. /\ Repeat(n \div 8, "Hex64") \in S /\ Repeat((n % 8) \div 4, "Hex32") \in S
      /\ Repeat((n % 4) \div 2, "Hex16") \in S /\ Repeat(n % 2, "Hex8") \in S
  BY <1>1, <1>2, RepeatType
<1>4. \A a, b \in S : a \o b \in S
  BY ConcatProperties
<1> HIDE DEF S
<1> QED
  BY <1>3, <1>4 DEF HexFill, S

LEMMA PartType ==
  ASSUME NEW N, NEW nodes \in Seq(N), NEW i \in Nat \ {0}, NEW j \in Int, j <= Len(nodes)
  PROVE  SubSeq(nodes, i, j) \in Seq(N)
<1>1. \A k \in i .. j : nodes[k] \in N
  BY LenProperties
<1> QED
  BY <1>1, SubSeqProperties

LEMMA InsertAllType ==
  ASSUME NEW N, NEW nodes \in Seq(N), NEW new \in Seq(N), NEW i \in 1 .. Len(nodes) + 1
  PROVE  InsertAll(nodes, i, new) \in Seq(N)
<1>1. SubSeq(nodes, 1, i - 1) \in Seq(N) /\ SubSeq(nodes, i, Len(nodes)) \in Seq(N)
  BY PartType
<1>2. \A a, b \in Seq(N) : a \o b \in Seq(N)
  BY ConcatProperties
<1> QED
  BY <1>1, <1>2 DEF InsertAll

LEMMA MemorySizeType ==
  ASSUME NEW n \in Nodes
  PROVE  MemorySize(n) \in Nat
<1> DEFINE Sized == {"Array", "Utf8Text", "Utf16Text"}
           Families == <<DOMAIN ScalarSize, DOMAIN HexSize, AddressTags, DOMAIN VectorShapes,
                         DOMAIN MatrixShapes, Sized, {"ClassInstance"}>>
           In(k) == /\ n.tag \in Families[k]
                    /\ \A j \in 1 .. 7 : j # k => n.tag \notin Families[j]
<1>1. n.tag \in Tags /\ n.len \in Nat
  BY DEF Nodes
<1>2. \A j, k \in 1 .. 7 : j # k => Families[j] \cap Families[k] = {}
  BY DEF ScalarSize, HexSize, AddressTags, VectorShapes, MatrixShapes
<1>3. \E k \in 1 .. 7 : n.tag \in Families[k]
  BY <1>1 DEF Tags
<1>4. /\ \A t \in DOMAIN ScalarSize : ScalarSize[t] \in Nat
      /\ \A t \in DOMAIN HexSize : HexSize[t] \in Nat
  BY DEF ScalarSize, HexSize
<1>5. /\ \A t \in DOMAIN VectorShapes : VectorShapes[t][1] * VectorShapes[t][2] \in Nat
      /\ \A t \in DOMAIN MatrixShapes : MatrixShapes[t][1] * MatrixShapes[t][2] \in Nat
  BY DEF VectorShapes, MatrixShapes
<1>6. \E k \in 1 .. 7 : In(k)
  <2> HIDE DEF Families
  <2> QED
    BY <1>2, <1>3
<1> QED
  BY <1>1, <1>4, <1>5, <1>6 DEF MemorySize

LEMMA CursorType ==
  ASSUME NEW nodes \in Seq(Nodes), NEW i \in 1 .. Len(nodes) + 1
  PROVE  CursorAt(nodes, i) \in Nat
<1> DEFINE sizes == [k \in 1 .. i - 1 |-> MemorySize(nodes[k])]
<1>1. \A k \in 1 .. i - 1 : nodes[k] \in Nodes
  BY LenProperties
<1>2. sizes \in [1 .. i - 1 -> Nat] /\ i - 1 \in Nat
  BY <1>1, MemorySizeType
<1> HIDE DEF sizes
<1>3. sizes \in Seq(Nat)
  BY <1>2, SeqDef
<1> QED
  BY <1>3, SumOverType DEF CursorAt, sizes

\* addNodeAt pads and inserts: where an offset can be placed, the padding is not negative.
LEMMA NodesWithType ==
  ASSUME NEW T \in SUBSET ClassIds, NEW nodes \in Seq(Within(T)), NEW offset \in Nat, NEW n \in Within(T),
         Placeable(nodes, offset)
  PROVE  NodesWith(nodes, offset, n) \in Seq(Within(T))
<1> DEFINE L == Len(nodes)
           At == {i \in 1 .. L : CursorAt(nodes, i) = offset}
           i == PlaceIndex(nodes, offset)
           gap == IF i > L THEN offset - CursorAt(nodes, i) ELSE 0
<1>1. L \in Nat /\ nodes \in Seq(Nodes) /\ Within({}) \subseteq Within(T)
  BY WithinFacts
<1>2. i \in 1 .. L + 1 /\ gap \in Nat
  <2>1. CASE At # {}
    <3>1. PICK x \in At : \A y \in At : x <= y
      <4>1. At \in SUBSET Nat
        OBVIOUS
      <4> HIDE DEF At
      <4> QED
        BY <2>1, <4>1, Least
    <3>2. x \in 1 .. L /\ CursorAt(nodes, x) = offset /\ \A j \in 1 .. x - 1 : CursorAt(nodes, j) # offset
      <4>1. \A j \in 1 .. x - 1 : j \in 1 .. L /\ ~(x <= j)
        BY <1>1
      <4> QED
        BY <3>1, <4>1
    <3>3. i \in 1 .. L
      BY <3>2 DEF PlaceIndex
    <3> HIDE DEF i
    <3> QED
      BY <1>1, <3>3
  <2>2. CASE At = {}
    <3>1. i = L + 1
      BY <2>2 DEF PlaceIndex
    <3>2. offset >= CursorAt(nodes, L + 1) /\ CursorAt(nodes, L + 1) \in Nat
      BY <1>1, <2>2, CursorType DEF Placeable
    <3> HIDE DEF i
    <3> QED
      BY <1>1, <3>1, <3>2
  <2> QED
    BY <2>1, <2>2
<1>3. NodesWith(nodes, offset, n) = InsertAll(nodes, i, Append(HexFill(gap), n))
  BY DEF NodesWith
<1> HIDE DEF i, gap
<1>4. HexFill(gap) \in Seq(Within(T))
  BY <1>1, <1>2, HexFillType
<1>5. Append(HexFill(gap), n) \in Seq(Within(T))
  BY <1>4
<1> QED
  BY <1>2, <1>3, <1>5, InsertAllType

LEMMA EditNodesType ==
  ASSUME NEW T \in SUBSET ClassIds, NEW nodes \in Seq(Within(T)), NEW o, IsEdit(o, T),
         o.kind = "AppendBytes" \/ o.path \in 1 .. Len(nodes)
  PROVE  EditNodes(nodes, o) \in Seq(Within(T))
<1>1. Len(nodes) \in Nat /\ Within({}) \subseteq Within(T) /\ Seq(Within({})) \subseteq Seq(Within(T))
  BY WithinFacts
<1>2. \A a, b \in Seq(Within(T)) : a \o b \in Seq(Within(T))
  BY ConcatProperties
<1>3. CASE o.kind = "ChangeType"
  <2>1. Construct(o.arg) \in Within(T)
    BY <1>1, <1>3, ConstructType DEF IsEdit, Filling, Targeting
  <2>2. o.path \in 1 .. Len(nodes) /\ EditNodes(nodes, o) = [nodes EXCEPT ![o.path] = Construct(o.arg)]
    BY <1>3 DEF EditNodes
  <2> QED
    BY <2>1, <2>2
<1>4. CASE o.kind \in Filling
  <2>1. o.arg \in Nat
    BY <1>4 DEF IsEdit, Filling, Targeting
  <2>2. HexFill(o.arg) \in Seq(Within(T))
    BY <1>1, <2>1, HexFillType
  <2>3. CASE o.kind = "AppendBytes"
    BY <1>2, <2>2, <2>3 DEF EditNodes
  <2>4. CASE o.kind = "DeleteRange"
    <3>1. SubSeq(nodes, 1, o.path - 1) \in Seq(Within(T))
      BY <1>1, <2>4, PartType
    <3>2. SubSeq(nodes, o.path + o.arg, Len(nodes)) \in Seq(Within(T))
      <4>1. o.path + o.arg \in Nat \ {0} /\ Len(nodes) \in Int /\ Len(nodes) <= Len(nodes)
        BY <1>1, <2>1, <2>4
      <4> QED
        BY <4>1, PartType
    <3> QED
      BY <1>2, <2>4, <3>1, <3>2 DEF EditNodes
  <2>5. CASE o.kind = "AddBytes"
    <3>1. o.path + 1 \in 1 .. Len(nodes) + 1
      BY <1>1, <2>5
    <3>2. EditNodes(nodes, o) = InsertAll(nodes, o.path + 1, HexFill(o.arg))
      BY <2>5 DEF EditNodes
    <3> QED
      BY <2>2, <3>1, <3>2, InsertAllType
  <2>6. CASE o.kind = "InsertBytes"
    <3>1. o.path \in 1 .. Len(nodes) + 1
      BY <1>1, <2>6
    <3>2. EditNodes(nodes, o) = InsertAll(nodes, o.path, HexFill(o.arg))
      BY <2>6 DEF EditNodes
    <3> QED
      BY <2>2, <3>1, <3>2, InsertAllType
  <2> QED
    BY <1>4, <2>3, <2>4, <2>5, <2>6 DEF Filling
<1>5. CASE o.kind \in Targeting
  <2>1. o.arg \in T /\ o.path \in 1 .. Len(nodes)
    BY <1>5 DEF IsEdit, Filling, Targeting
  <2>2. PointerTo(o.arg) \in Within(T) /\ InstanceOf(o.arg) \in Within(T)
    BY <2>1, TargetType
  <2>3. \A n \in Within(T) : [nodes EXCEPT ![o.path] = n] \in Seq(Within(T))
    BY <2>1
  <2>4. \/ EditNodes(nodes, o) = [nodes EXCEPT ![o.path] = PointerTo(o.arg)]
        \/ EditNodes(nodes, o) = [nodes EXCEPT ![o.path] = InstanceOf(o.arg)]
    BY <1>5 DEF EditNodes, Targeting
  <2> QED
    BY <2>2, <2>3, <2>4
<1> QED
  BY <1>3, <1>4, <1>5 DEF IsEdit

LEMMA SetNodes ==
  ASSUME NEW N, NEW U, NEW ord, NEW p \in Variants(U, ord, N), NEW c \in U, NEW nodes \in Seq(N)
  PROVE  [p EXCEPT !.classes[c] = nodes] \in Variants(U, ord, N)
<1>1. PICK cs \in [U -> Seq(N)] : p = Project(cs, ord)
  BY DEF Variants
<1>2. [p EXCEPT !.classes[c] = nodes] = Project([cs EXCEPT ![c] = nodes], ord)
  <2>1. p = [classes |-> cs, order |-> ord]
    BY <1>1 DEF Project
  <2> DEFINE new == [p.classes EXCEPT ![c] = nodes]
  <2>2. [p EXCEPT !.classes[c] = nodes] = [p EXCEPT !.classes = new]
    OBVIOUS
  <2>3. new = [cs EXCEPT ![c] = nodes]
    BY <2>1
  <2> HIDE DEF new
  <2>4. [p EXCEPT !.classes = new] = [classes |-> new, order |-> ord]
    BY <2>1
  <2> QED
    BY <2>2, <2>3, <2>4 DEF Project
<1>3. [cs EXCEPT ![c] = nodes] \in [U -> Seq(N)]
  OBVIOUS
<1> QED
  BY <1>2, <1>3 DEF Variants

LEMMA VariantFacts ==
  ASSUME NEW N, NEW U, NEW ord, NEW p \in Variants(U, ord, N)
  PROVE  p = Project(p.classes, p.order) /\ p.classes \in [U -> Seq(N)] /\ p.order = ord /\ Uuids(p) = U
<1>1. PICK cs \in [U -> Seq(N)] : p = Project(cs, ord)
  BY DEF Variants
<1> QED
  BY <1>1 DEF Project, Uuids

LEMMA EditedVariant ==
  ASSUME NEW T \in SUBSET ClassIds, NEW U, NEW ord, NEW p \in Variants(U, ord, Within(T)),
         NEW o, IsEdit(o, T)
  PROVE  Edited(p, o) \in Variants(U, ord, Within(T))
<1>1. CASE ~Resolves(p, o)
  BY <1>1 DEF Edited
<1>2. CASE Resolves(p, o)
  <2> DEFINE new == EditNodes(p.classes[o.owner], o)
  <2>1. p.classes \in [U -> Seq(Within(T))] /\ Uuids(p) = U
    BY VariantFacts
  <2>2. /\ o.owner \in U /\ p.classes[o.owner] \in Seq(Within(T))
        /\ o.kind = "AppendBytes" \/ o.path \in 1 .. Len(p.classes[o.owner])
    BY <1>2, <2>1 DEF Resolves
  <2>3. new \in Seq(Within(T))
    BY <2>2, EditNodesType
  <2> DEFINE c == o.owner
  <2>4. Edited(p, o) = [p EXCEPT !.classes[c] = new]
    BY <1>2 DEF Edited
  <2> HIDE DEF new, c
  <2>5. [p EXCEPT !.classes[c] = new] \in Variants(U, ord, Within(T))
    <3>1. c \in U
      BY <2>2 DEF c
    <3> QED
      BY <2>3, <3>1, SetNodes
  <2> QED
    BY <2>4, <2>5
<1> QED
  BY <1>1, <1>2

LEMMA DrainedVariant ==
  ASSUME NEW T \in SUBSET ClassIds, NEW U, NEW ord, NEW p \in Variants(U, ord, Within(T)),
         NEW queue, IsQueue(queue, T)
  PROVE  Drained(p, queue) \in Variants(U, ord, Within(T))
<1> DEFINE F == {queue[i] : i \in 1 .. Len(queue)}
           V == Variants(U, ord, Within(T))
<1>1. queue \in Seq(F) /\ \A o \in F : IsEdit(o, T)
  BY DEF IsQueue
<1>2. \A q \in V, o \in F : Edited(q, o) \in V
  BY <1>1, EditedVariant
<1> HIDE DEF F, V
<1>3. p \in V
  BY DEF V
<1> QED
  BY <1>1, <1>2, <1>3, DrainedKeeps DEF V

LEMMA VariantProject ==
  ASSUME NEW T \in SUBSET ClassIds, NEW p, IsProject(p), NEW q \in Variants(Uuids(p), p.order, Within(T))
  PROVE  IsProject(q) /\ Uuids(q) = Uuids(p) /\ q.classes \in [Uuids(p) -> Seq(Within(T))]
<1>1. /\ q = Project(q.classes, q.order) /\ q.classes \in [Uuids(p) -> Seq(Within(T))]
      /\ q.order = p.order /\ Uuids(q) = Uuids(p)
  BY VariantFacts
<1>2. Seq(Within(T)) \subseteq Seq(Nodes)
  BY WithinFacts
<1>3. q.classes \in [Uuids(p) -> Seq(Nodes)]
  BY <1>1, <1>2
<1>4. Uuids(p) \subseteq ClassIds /\ Lists(p.order, Uuids(p))
  BY ProjectFacts
<1>5. IsProject(q)
  BY <1>1, <1>3, <1>4, ProjectFacts
<1> QED
  BY <1>1, <1>5

LEMMA OwnVariant ==
  ASSUME NEW N, NEW p, IsProject(p), p.classes \in [Uuids(p) -> Seq(N)]
  PROVE  p \in Variants(Uuids(p), p.order, N)
  BY DEF IsProject, Variants

\* Queues of edits.
LEMMA QueueOf ==
  ASSUME NEW T, NEW F, NEW q \in Seq(F), \A i \in 1 .. Len(q) : IsEdit(q[i], T)
  PROVE  IsQueue(q, T)
<1>1. q \in [1 .. Len(q) -> {q[i] : i \in 1 .. Len(q)}] /\ Len(q) \in Nat
  OBVIOUS
<1>2. q \in Seq({q[i] : i \in 1 .. Len(q)})
  BY <1>1, SeqDef
<1> QED
  BY <1>2 DEF IsQueue

LEMMA QueueNone == \A T : IsQueue(<<>>, T)
<1> TAKE T
<1> DEFINE q == <<>>
<1>1. q \in Seq({}) /\ \A i \in 1 .. Len(q) : IsEdit(q[i], T)
  OBVIOUS
<1> HIDE DEF q
<1>2. IsQueue(q, T)
  BY <1>1, QueueOf
<1> QED
  BY <1>2 DEF q

LEMMA QueueAppend ==
  ASSUME NEW T, NEW q, IsQueue(q, T), NEW o, IsEdit(o, T)
  PROVE  IsQueue(Append(q, o), T) /\ IsQueue(q \o <<o>>, T) /\ IsQueue(q \o <<>>, T)
<1> DEFINE F == {q[i] : i \in 1 .. Len(q)} \cup {o}
           r == Append(q, o)
<1>1. q \in Seq(F) /\ \A i \in 1 .. Len(q) : IsEdit(q[i], T)
  BY DEF IsQueue
<1> HIDE DEF F
<1>2. o \in F
  BY DEF F
<1>3. r \in Seq(F) /\ Len(r) = Len(q) + 1 /\ r[Len(q) + 1] = o /\ \A i \in 1 .. Len(q) : r[i] = q[i]
  BY <1>1, <1>2
<1>4. q \o <<o>> = r /\ q \o <<>> = q
  BY <1>1, <1>2, ConcatEmptySeq, AppendIsConcat
<1> HIDE DEF r
<1>5. \A i \in 1 .. Len(r) : IsEdit(r[i], T)
  <2>1. \A i \in 1 .. Len(r) : i \in 1 .. Len(q) \/ i = Len(q) + 1
    BY <1>1, <1>3
  <2> QED
    BY <1>1, <1>3, <2>1
<1>6. IsQueue(r, T)
  BY <1>3, <1>5, QueueOf
<1> QED
  BY <1>4, <1>6 DEF r

-----------------------------------------------------------------------------
(* The steps of the workspace.                                             *)

\* The project and its file are well formed, what is queued or may be queued are edits
\* and what a dissect proposed names no class.
WsInv ==
  /\ IsProject(project) /\ IsQueue(pending, ClassIds)
  /\ disk # None => disk.file \in Seq(Defs)
  /\ preview # None => preview.defs \in DissectBodies
  /\ picker # None => picker.kind \in Targeting
  /\ dialog # None => dialog.kind \in {"AddBytes", "InsertBytes"}

LEMMA DissectType == DissectBodies \subseteq Seq(Within({}))
<1>1. {n \in Nodes : n.target = Nil} = Within({})
  BY DEF Within
<1> QED
  BY <1>1, ProjectsAssumption

\* What the toolbar and the context menu ask for.
LEMMA MenuEdits ==
  ASSUME NEW T
  PROVE  /\ \A o \in ToolbarOps : IsEdit(o, T)
         /\ \A owner, path : /\ \A tag \in NewTags : IsEdit(Op("ChangeType", owner, path, tag), T)
                             /\ IsEdit(Op("DeleteRange", owner, path, 1), T)
<1>1. NewTags \subseteq Tags /\ ByteCounts \subseteq Nat
  BY WorkspaceAssumption
<1>2. \A owner, path : \A tag \in NewTags : IsEdit(Op("ChangeType", owner, path, tag), T)
  BY <1>1 DEF IsEdit, Op
<1>3. ASSUME NEW owner, NEW path, NEW kind \in Filling, NEW n \in Nat
      PROVE  IsEdit(Op(kind, owner, path, n), T)
  BY DEF IsEdit, Op
<1>4. \A owner, path : IsEdit(Op("DeleteRange", owner, path, 1), T)
  BY <1>3 DEF Filling
<1>5. ASSUME NEW o \in ToolbarOps PROVE IsEdit(o, T)
  <2>1. \/ \E n \in ByteCounts : o = Op("AppendBytes", selected, 1, n)
        \/ \E k \in {"AddBytes", "InsertBytes"}, n \in ByteCounts : o = Op(k, chosen.owner, chosen.path, n)
        \/ \E n \in {1, 2} : o = Op("DeleteRange", chosen.owner, chosen.path, n)
        \/ \E tag \in NewTags : o = Op("ChangeType", chosen.owner, chosen.path, tag)
    BY DEF ToolbarOps
  <2>2. {1, 2} \subseteq Nat /\ {"AddBytes", "InsertBytes", "AppendBytes", "DeleteRange"} \subseteq Filling
    BY DEF Filling
  <2> QED
    BY <1>1, <1>2, <1>3, <2>1, <2>2
<1> QED
  BY <1>2, <1>4, <1>5

\* What a step makes of the project: its nodes change and go on referring to classes of
\* T, or a class without references is added, or one nothing refers to is removed, or
\* the project is replaced by the file on disk or an empty one.
ProjectStep(T) ==
  \/ project' \in Variants(Uuids(project), project.order, Within(T))
  \/ \E c \in ClassIds, nodes \in Seq(Within({})) : project' = AddClass(project, c, nodes)
  \/ \E c \in Uuids(project) : Removable(project, c) /\ project' = RemoveClass(project, c)
  \/ disk # None /\ project' = FromToml(disk.file)
  \/ project' = FromToml(<<>>)

LEMMA Steps ==
  ASSUME WsInv, [WsNext]_wsVars, NEW T \in SUBSET ClassIds, Uuids(project) \subseteq T,
         project.classes \in [Uuids(project) -> Seq(Within(T))], IsQueue(pending, T)
  PROVE  ProjectStep(T)
<1> DEFINE V == Variants(Uuids(project), project.order, Within(T))
           S == Seq(Within(T))
<1>1. /\ IsProject(project) /\ project \in V /\ \A c \in Uuids(project) : project.classes[c] \in S
      /\ Within({}) \subseteq Within(T) /\ Seq(Within({})) \subseteq S
      /\ NewTags \subseteq Tags /\ ScriptOffsets \subseteq Nat
  BY OwnVariant, WithinFacts, WorkspaceAssumption DEF WsInv
<1>2. \A p \in V : \A queue : IsQueue(queue, T) => Drained(p, queue) \in V
  BY DrainedVariant
<1>3. ASSUME NEW c \in Uuids(project), NEW nodes \in S
      PROVE  [project EXCEPT !.classes[c] = nodes] \in V
  BY <1>1, SetNodes
<1> SUFFICES ASSUME project' \notin V PROVE ProjectStep(T)
  BY DEF ProjectStep
<1> HIDE DEF V, S
<1>4. ASSUME UNCHANGED project PROVE FALSE
  BY <1>1, <1>4
<1>5. \A o : IsEdit(o, T) => IsQueue(pending \o <<o>>, T)
  BY QueueAppend
<1>6. IsQueue(pending \o <<>>, T)
  <2>1. IsEdit(Op("DeleteRange", 0, 0, 1), T)
    BY MenuEdits
  <2> QED
    BY <2>1, QueueAppend
<1>7. ASSUME NEW p \in V, NEW queue, NEW drawn, EndOfView(p, drawn, queue), IsQueue(queue, T) PROVE FALSE
  BY <1>2, <1>7 DEF EndOfView
<1>8. ASSUME Drains(<<>>) PROVE FALSE
  BY <1>1, <1>6, <1>7, <1>8 DEF Drains
<1>9. ASSUME NEW p \in V, NEW before, NEW after, DrainsIfDrawn(p, before, after) PROVE FALSE
  <2>1. CASE before = <<>>
    BY <1>9, <2>1 DEF DrainsIfDrawn
  <2>2. CASE before # <<>>
    BY <1>7, <1>9, <2>2 DEF DrainsIfDrawn
  <2> QED
    BY <2>1, <2>2
<1>10. ASSUME NEW c \in Uuids(project), NEW nodes \in S, ScriptEdits(c, nodes) PROVE FALSE
  BY <1>3, <1>10 DEF ScriptEdits
<1>11. CASE TakeSnapshot \/ AttachOrDetach \/ Save \/ CancelModals \/ UNCHANGED wsVars
  BY <1>4, <1>11 DEF TakeSnapshot, AttachOrDetach, Save, CancelModals, wsVars
<1>12. CASE ScriptNext
  <2>1. ASSUME NEW c \in ClassIds, ScriptCreate(c) PROVE ProjectStep(T)
    <3>1. project' = AddClass(project, c, <<>>) /\ <<>> \in Seq(Within({}))
      BY <2>1 DEF ScriptCreate
    <3> QED
      BY <3>1 DEF ProjectStep
  <2>2. ASSUME NEW c \in ClassIds, ScriptSelectClass(c) PROVE FALSE
    BY <1>4, <2>2 DEF ScriptSelectClass
  <2>3. ASSUME NEW c \in Uuids(project), NEW tag \in NewTags, ScriptAddNode(c, tag) PROVE FALSE
    <3>1. Construct(tag) \in Within(T)
      BY <1>1, ConstructType
    <3>2. Append(project.classes[c], Construct(tag)) \in S
      BY <1>1, <3>1 DEF S
    <3> QED
      BY <1>10, <2>3, <3>2 DEF ScriptAddNode
  <2>4. ASSUME NEW c \in Uuids(project), NEW tag \in NewTags, NEW o \in ScriptOffsets,
               ScriptAddNodeAt(c, o, tag)
        PROVE  FALSE
    <3>1. Construct(tag) \in Within(T) /\ o \in Nat /\ project.classes[c] \in Seq(Within(T))
      BY <1>1, ConstructType DEF S
    <3>2. Placeable(project.classes[c], o)
      BY <2>4 DEF ScriptAddNodeAt
    <3>3. NodesWith(project.classes[c], o, Construct(tag)) \in S
      BY <3>1, <3>2, NodesWithType DEF S
    <3> QED
      BY <1>10, <2>4, <3>3 DEF ScriptAddNodeAt
  <2>5. ASSUME NEW c \in Uuids(project), NEW i \in 1 .. Len(project.classes[c]), ScriptRemoveNode(c, i)
        PROVE  FALSE
    <3>1. project.classes[c] \in Seq(Within(T)) /\ Len(project.classes[c]) \in Nat
      BY <1>1 DEF S
    <3>2. /\ SubSeq(project.classes[c], 1, i - 1) \in Seq(Within(T))
          /\ SubSeq(project.classes[c], i + 1, Len(project.classes[c])) \in Seq(Within(T))
      BY <3>1, PartType
    <3>3. RemoveAt(project.classes[c], i) \in S
      BY <3>2, ConcatProperties DEF RemoveAt, S
    <3> QED
      BY <1>10, <2>5, <3>3 DEF ScriptRemoveNode
  <2>6. ASSUME NEW c \in Uuids(project), NEW i \in 1 .. Len(project.classes[c]), NEW t \in Uuids(project),
               ScriptSetPointerTarget(c, i, t)
        PROVE  FALSE
    <3>1. PointerTo(t) \in Within(T)
      BY TargetType
    <3>2. [project.classes[c] EXCEPT ![i] = PointerTo(t)] \in S
      BY <1>1, <3>1 DEF S
    <3> QED
      BY <1>10, <2>6, <3>2 DEF ScriptSetPointerTarget
  <2>7. ASSUME NEW c \in Uuids(project), NEW body \in DissectBodies, ScriptDissect(c, body) PROVE FALSE
    BY <1>1, <1>10, <2>7, DissectType DEF ScriptDissect
  <2> QED
    BY <1>12, <2>1, <2>2, <2>3, <2>4, <2>5, <2>6, <2>7 DEF ScriptNext
<1>13. CASE OpenProject \/ NewProject
  BY <1>13 DEF OpenProject, NewProject, Replace, ProjectStep
<1>14. ASSUME NEW c \in ClassIds, AddBlankClass(c) PROVE ProjectStep(T)
  <2>1. Construct("Hex64") \in Within({})
    BY ConstructType DEF Tags, HexSize
  <2>2. <<Construct("Hex64")>> \in Seq(Within({})) /\ project' = AddClass(project, c, <<Construct("Hex64")>>)
    BY <1>14, <2>1 DEF AddBlankClass
  <2> QED
    BY <2>2 DEF ProjectStep
<1>15. ASSUME NEW c \in ClassIds, DeleteClass(c) PROVE ProjectStep(T)
  <2>1. Removable(project, c) /\ project' = RemoveClass(project, c)
    BY <1>15 DEF DeleteClass
  <2>2. c \in Uuids(project)
    BY <2>1 DEF Removable
  <2> QED
    BY <2>1, <2>2 DEF ProjectStep
<1>16. ASSUME NEW c \in ClassIds, SelectClass(c) \/ PickClass(c) PROVE FALSE
  BY <1>4, <1>16 DEF SelectClass, PickClass
<1>17. ASSUME NEW n \in ByteCounts, ConfirmBytes(n) PROVE FALSE
  BY <1>4, <1>17 DEF ConfirmBytes
<1>18. CASE ClassViewNext
  <2>1. CASE ShowClassView
    BY <1>8, <2>1 DEF ShowClassView
  <2>2. CASE AcceptAutoDissect
    <3>1. preview # None /\ preview.defs \in S
      BY <1>1, <2>2, DissectType DEF AcceptAutoDissect, WsInv
    <3>2. IntoTarget(project, preview) \in V
      <4> DEFINE c == preview.target
      <4>1. CASE c \in Uuids(project)
        <5>1. IntoTarget(project, preview) = [project EXCEPT !.classes[c] = preview.defs]
          BY <4>1 DEF IntoTarget
        <5> HIDE DEF c
        <5> QED
          BY <1>3, <3>1, <4>1, <5>1
      <4>2. CASE c \notin Uuids(project)
        BY <1>1, <4>2 DEF IntoTarget
      <4> QED
        BY <4>1, <4>2
    <3>3. \E before, after : DrainsIfDrawn(IntoTarget(project, preview), before, after)
      BY <2>2 DEF AcceptAutoDissect
    <3> QED
      BY <1>9, <3>2, <3>3
  <2>3. CASE CancelAutoDissect
    BY <1>1, <1>9, <2>3 DEF CancelAutoDissect
  <2>4. ASSUME NEW body \in DissectBodies, RunAutoDissect(body) PROVE FALSE
    BY <1>1, <1>9, <2>4 DEF RunAutoDissect
  <2>5. ASSUME NEW o \in ToolbarOps, ToolbarEdit(o) PROVE FALSE
    <3>1. Edited(project, o) \in V
      BY <1>1, MenuEdits, EditedVariant DEF V
    <3>2. \E before, after : DrainsIfDrawn(Edited(project, o), before, after)
      BY <2>5 DEF ToolbarEdit
    <3> QED
      BY <1>9, <3>1, <3>2
  <2>6. ASSUME NEW r, ClickRow(r) \/ ToggleRow(r) \/ OpenPicker(r) \/ OpenAddBytes(r) PROVE FALSE
    BY <1>8, <2>6 DEF ClickRow, ToggleRow, OpenPicker, OpenAddBytes
  <2>7. ASSUME NEW r, FollowPointer(r) PROVE FALSE
    BY <1>1, <1>7, <2>7 DEF FollowPointer
  <2>8. ASSUME NEW r, NEW o, IsEdit(o, T), ContextEdit(r, o) PROVE FALSE
    <3>1. EndOfView(project, Shown, pending \o <<o>>)
      BY <2>8 DEF ContextEdit, Drains
    <3> QED
      BY <1>1, <1>5, <1>7, <2>8, <3>1
  <2> QED
    BY <1>18, <2>1, <2>2, <2>3, <2>4, <2>5, <2>6, <2>7, <2>8, MenuEdits DEF ClassViewNext
<1> QED
  BY <1>11, <1>12, <1>13, <1>14, <1>15, <1>16, <1>17, <1>18 DEF WsNext

\* What a step does to the rest of the state.
LEMMA OthersKept ==
  ASSUME WsInv, [WsNext]_wsVars
  PROVE  /\ IsQueue(pending', ClassIds)
         /\ disk' # None => disk'.file \in Seq(Defs)
         /\ preview' # None => preview'.defs \in DissectBodies
         /\ picker' # None => picker'.kind \in Targeting
         /\ dialog' # None => dialog'.kind \in {"AddBytes", "InsertBytes"}
<1> DEFINE Queue(q) == IsQueue(q, ClassIds)
           File(d) == d # None => d.file \in Seq(Defs)
           Body(b) == b # None => b.defs \in DissectBodies
           Picker(k) == k # None => k.kind \in Targeting
           Dialog(k) == k # None => k.kind \in {"AddBytes", "InsertBytes"}
           Rest == File(disk') /\ Body(preview') /\ Picker(picker') /\ Dialog(dialog')
<1>1. Queue(pending) /\ File(disk) /\ Body(preview) /\ Picker(picker) /\ Dialog(dialog)
  BY DEF WsInv
<1>2. Queue(<<>>) /\ File(None) /\ Body(None) /\ Picker(None) /\ Dialog(None)
  BY QueueNone
<1>3. \A kind \in Targeting : \A owner, path :
        Picker([kind |-> kind, owner |-> owner, path |-> path])
  OBVIOUS
<1>4. \A kind \in {"AddBytes", "InsertBytes"} : \A owner, path :
        Dialog([kind |-> kind, owner |-> owner, path |-> path])
  OBVIOUS
<1>5. \A body \in DissectBodies : \A c : Body([target |-> c, defs |-> body])
  OBVIOUS
<1>6. \A file \in Seq(Defs) : File([file |-> file])
  OBVIOUS
<1> SUFFICES Queue(pending') /\ Rest
  OBVIOUS
<1> HIDE DEF Queue, File, Body, Picker, Dialog
<1>7. ASSUME UNCHANGED <<disk, preview, modals>> PROVE Rest
  BY <1>1, <1>7 DEF modals
<1>8. ASSUME NEW p, NEW drawn, NEW queue, EndOfView(p, drawn, queue) PROVE Queue(pending')
  BY <1>2, <1>8 DEF EndOfView
<1>9. ASSUME NEW more, Drains(more) PROVE Queue(pending')
  BY <1>8, <1>9 DEF Drains
<1>10. ASSUME NEW p, NEW before, NEW after, DrainsIfDrawn(p, before, after) PROVE Queue(pending')
  BY <1>1, <1>8, <1>10 DEF DrainsIfDrawn
<1>11. ASSUME UNCHANGED <<pending, disk, preview, modals>> PROVE Queue(pending') /\ Rest
  BY <1>1, <1>7, <1>11
<1>12. CASE TakeSnapshot \/ AttachOrDetach \/ UNCHANGED wsVars
  BY <1>11, <1>12 DEF TakeSnapshot, AttachOrDetach, wsVars
<1>13. CASE ScriptNext
  <2>1. \A c, nodes : ScriptEdits(c, nodes) => UNCHANGED <<pending, disk, preview, modals>>
    BY DEF ScriptEdits
  <2>2. \A c : ScriptCreate(c) \/ ScriptSelectClass(c) => UNCHANGED <<pending, disk, preview, modals>>
    BY DEF ScriptCreate, ScriptSelectClass
  <2>3. \A c, o, tag, i, t, body :
          \/ ScriptAddNode(c, tag) \/ ScriptAddNodeAt(c, o, tag) \/ ScriptRemoveNode(c, i)
          \/ ScriptSetPointerTarget(c, i, t) \/ ScriptDissect(c, body)
          => UNCHANGED <<pending, disk, preview, modals>>
    BY <2>1 DEF ScriptAddNode, ScriptAddNodeAt, ScriptRemoveNode, ScriptSetPointerTarget, ScriptDissect
  <2>4. UNCHANGED <<pending, disk, preview, modals>>
    BY <1>13, <2>2, <2>3 DEF ScriptNext
  <2> QED
    BY <1>11, <2>4
<1>14. CASE Save
  <2>1. ToToml(project) \in Seq(Defs)
    BY SavedType DEF WsInv
  <2>2. disk' = [file |-> ToToml(project)] /\ UNCHANGED <<pending, preview, modals>>
    BY <1>14 DEF Save
  <2> QED
    BY <1>1, <1>6, <2>1, <2>2 DEF modals
<1>15. CASE OpenProject
  BY <1>11, <1>15 DEF OpenProject, Replace
<1>16. CASE NewProject
  <2>1. disk' = [file |-> <<>>] /\ UNCHANGED <<pending, preview, modals>> /\ <<>> \in Seq(Defs)
    BY <1>16 DEF NewProject, Replace
  <2> QED
    BY <1>1, <1>6, <2>1 DEF modals
<1>17. ASSUME NEW c \in ClassIds, AddBlankClass(c) \/ SelectClass(c) \/ DeleteClass(c)
       PROVE  Queue(pending') /\ Rest
  BY <1>11, <1>17 DEF AddBlankClass, SelectClass, DeleteClass
<1>18. CASE ClassViewNext
  <2>1. CASE ShowClassView
    BY <1>7, <1>9, <2>1 DEF ShowClassView
  <2>2. CASE AcceptAutoDissect \/ CancelAutoDissect
    <3>1. preview' = None /\ UNCHANGED <<disk, modals>> /\ \E p, before, after : DrainsIfDrawn(p, before, after)
      BY <2>2 DEF AcceptAutoDissect, CancelAutoDissect
    <3> QED
      BY <1>1, <1>2, <1>10, <3>1 DEF modals
  <2>3. ASSUME NEW body \in DissectBodies, RunAutoDissect(body) PROVE Queue(pending') /\ Rest
    <3>1. /\ preview' = [target |-> selected, defs |-> body] /\ UNCHANGED <<disk, modals>>
          /\ \E p, before, after : DrainsIfDrawn(p, before, after)
      BY <2>3 DEF RunAutoDissect
    <3> QED
      BY <1>1, <1>5, <1>10, <3>1 DEF modals
  <2>4. ASSUME NEW o \in ToolbarOps, ToolbarEdit(o) PROVE Queue(pending') /\ Rest
    <3>1. UNCHANGED <<disk, preview, modals>> /\ \E p, before, after : DrainsIfDrawn(p, before, after)
      BY <2>4 DEF ToolbarEdit
    <3> QED
      BY <1>7, <1>10, <3>1
  <2>5. ASSUME NEW r, ClickRow(r) \/ ToggleRow(r) \/ FollowPointer(r) \/ \E o : ContextEdit(r, o)
        PROVE  Queue(pending') /\ Rest
    BY <1>7, <1>8, <1>9, <2>5 DEF ClickRow, ToggleRow, FollowPointer, ContextEdit
  <2>6. ASSUME NEW r, OpenPicker(r) PROVE Queue(pending') /\ Rest
    <3>1. \E kind \in Targeting : picker' = [kind |-> kind, owner |-> r.owner, path |-> r.local]
      BY <2>6 DEF OpenPicker, Targeting
    <3>2. Drains(<<>>) /\ UNCHANGED <<disk, preview, dialog>>
      BY <2>6 DEF OpenPicker
    <3> QED
      BY <1>1, <1>3, <1>9, <3>1, <3>2
  <2>7. ASSUME NEW r, OpenAddBytes(r) PROVE Queue(pending') /\ Rest
    <3>1. \E kind \in {"AddBytes", "InsertBytes"} :
            dialog' = [kind |-> kind, owner |-> r.owner, path |-> r.local]
      BY <2>7 DEF OpenAddBytes
    <3>2. Drains(<<>>) /\ UNCHANGED <<disk, preview, picker>>
      BY <2>7 DEF OpenAddBytes
    <3> QED
      BY <1>1, <1>4, <1>9, <3>1, <3>2
  <2> QED
    BY <1>18, <2>1, <2>2, <2>3, <2>4, <2>5, <2>6, <2>7 DEF ClassViewNext
<1>19. ASSUME NEW c \in ClassIds, PickClass(c) PROVE Queue(pending') /\ Rest
  <2> DEFINE o == Op(picker.kind, picker.owner, picker.path, c)
  <2>1. picker.kind \in Targeting
    BY <1>19 DEF PickClass, WsInv
  <2>2. IsEdit(o, ClassIds)
    BY <2>1 DEF IsEdit, Op
  <2>3. pending' = pending \/ pending' = Append(pending, o)
    BY <1>19 DEF PickClass
  <2> HIDE DEF o
  <2>4. Queue(pending')
    BY <1>1, <2>2, <2>3, QueueAppend DEF Queue
  <2>5. picker' = None /\ UNCHANGED <<dialog, preview, disk>>
    BY <1>19 DEF PickClass
  <2> QED
    BY <1>1, <1>2, <2>4, <2>5
<1>20. ASSUME NEW n \in ByteCounts, ConfirmBytes(n) PROVE Queue(pending') /\ Rest
  <2> DEFINE o == Op(dialog.kind, dialog.owner, dialog.path, n)
  <2>1. dialog.kind \in Filling /\ n \in Nat
    BY <1>20, WorkspaceAssumption DEF ConfirmBytes, WsInv, Filling
  <2>2. IsEdit(o, ClassIds)
    BY <2>1 DEF IsEdit, Op
  <2>3. pending' = Append(pending, o)
    BY <1>20 DEF ConfirmBytes
  <2> HIDE DEF o
  <2>4. Queue(pending')
    BY <1>1, <2>2, <2>3, QueueAppend DEF Queue
  <2>5. dialog' = None /\ UNCHANGED <<picker, preview, disk>>
    BY <1>20 DEF ConfirmBytes
  <2> QED
    BY <1>1, <1>2, <2>4, <2>5
<1>21. CASE CancelModals
  BY <1>1, <1>2, <1>21 DEF CancelModals
<1> QED
  BY <1>12, <1>13, <1>14, <1>15, <1>16, <1>17, <1>18, <1>19, <1>20, <1>21 DEF WsNext

LEMMA WsInitInv == WsInit => WsInv
<1> SUFFICES ASSUME WsInit PROVE WsInv
  OBVIOUS
<1>1. IsProject(project) /\ IsQueue(pending, ClassIds)
  BY ProjectsAssumption, QueueNone DEF WsInit
<1> QED
  BY <1>1 DEF WsInit, WsInv

LEMMA WsSafe == WsInv /\ [WsNext]_wsVars => WsInv'
<1> SUFFICES ASSUME WsInv, [WsNext]_wsVars PROVE WsInv'
  OBVIOUS
<1> DEFINE T == ClassIds
<1>1. IsProject(project) /\ IsQueue(pending, T) /\ Uuids(project) \subseteq T
  BY ProjectFacts DEF WsInv
<1>2. T \in SUBSET ClassIds /\ Within(T) = Nodes /\ Within({}) \subseteq Nodes
  BY WithinFacts
<1>3. project.classes \in [Uuids(project) -> Seq(Within(T))]
  BY <1>1, <1>2, ProjectFacts
<1> HIDE DEF T
<1>4. ProjectStep(T)
  BY <1>1, <1>2, <1>3, Steps
<1>5. IsProject(project')
  <2>1. CASE project' \in Variants(Uuids(project), project.order, Within(T))
    BY <1>1, <1>2, <2>1, VariantProject
  <2>2. ASSUME NEW c \in ClassIds, NEW nodes \in Seq(Within({})), project' = AddClass(project, c, nodes)
        PROVE  IsProject(project')
    <3>1. nodes \in Seq(Nodes) /\ Nodes \in SUBSET Nodes
      BY <1>2
    <3>2. project.classes \in [Uuids(project) -> Seq(Nodes)]
      BY <1>2, <1>3
    <3> QED
      BY <1>1, <2>2, <3>1, <3>2, AddClassProject
  <2>3. ASSUME NEW c \in Uuids(project), project' = RemoveClass(project, c) PROVE IsProject(project')
    BY <1>1, <2>3, RemoveClassProject
  <2>4. CASE disk # None /\ project' = FromToml(disk.file)
    BY <2>4, FromTomlProject DEF WsInv
  <2>5. CASE project' = FromToml(<<>>)
    <3>1. <<>> \in Seq(Defs)
      OBVIOUS
    <3> QED
      BY <2>5, <3>1, FromTomlProject
  <2> QED
    BY <1>4, <2>1, <2>2, <2>3, <2>4, <2>5 DEF ProjectStep
<1> QED
  BY <1>5, OthersKept DEF WsInv

\* The invariant of the workspace: whatever the user, scripts, late edits and project
\* files do, the order of the project lists each of its classes once.
THEOREM WsInvariance == WsSpec => []WsInv
  BY WsInitInv, WsSafe, PTL DEF WsSpec

\* Saving and opening again gives the same project, for every number of classes and
\* nodes (Project::to_toml, Project::from_toml).
THEOREM SavingRoundTrips == WsSpec => []RoundTrip
<1>1. WsInv => RoundTrip
  BY RoundTrips DEF WsInv, RoundTrip
<1> QED
  BY WsInvariance, <1>1, PTL

\* No node dangles when every node refers to classes of the project.
LEMMA DanglingIs ==
  ASSUME NEW p, IsProject(p)
  PROVE  ~Dangling(p) <=> p.classes \in [Uuids(p) -> Seq(Within(Uuids(p)))]
<1> DEFINE U == Uuids(p)
<1>1. p.classes \in [U -> Seq(Nodes)]
  BY ProjectFacts
<1>2. \A c \in U : p.classes[c] \in Seq(Nodes) /\ Len(p.classes[c]) \in Nat
  BY <1>1
<1>3. ASSUME ~Dangling(p), NEW c \in U PROVE p.classes[c] \in Seq(Within(U))
  <2>1. \A i \in 1 .. Len(p.classes[c]) : p.classes[c][i] \in Nodes
    BY <1>2
  <2>2. \A i \in 1 .. Len(p.classes[c]) : p.classes[c][i].target \in U \cup {Nil}
    BY <1>3 DEF Dangling
  <2>3. p.classes[c] \in [1 .. Len(p.classes[c]) -> Within(U)]
    <3>1. \A i \in 1 .. Len(p.classes[c]) : p.classes[c][i] \in Within(U)
      BY <2>1, <2>2 DEF Within
    <3>2. p.classes[c] \in [1 .. Len(p.classes[c]) -> Nodes]
      BY <1>2, LenProperties
    <3> QED
      BY <3>1, <3>2
  <2> QED
    BY <1>2, <2>3, SeqDef
<1>4. ASSUME p.classes \in [U -> Seq(Within(U))] PROVE ~Dangling(p)
  <2>1. ASSUME NEW c \in U, NEW i \in 1 .. Len(p.classes[c]) PROVE p.classes[c][i].target \in U \cup {Nil}
    <3>1. p.classes[c] \in Seq(Within(U))
      BY <1>4
    <3>2. p.classes[c][i] \in Within(U)
      BY <3>1
    <3> QED
      BY <3>2 DEF Within
  <2> QED
    BY <2>1 DEF Dangling
<1> QED
  BY <1>1, <1>3, <1>4

\* A queue whose targets are classes of T.
LEMMA QueueNarrows ==
  ASSUME NEW q, IsQueue(q, ClassIds), NEW T,
         \A i \in 1 .. Len(q) : q[i].kind \in {"SetPtrTarget", "SetInstance"} => q[i].arg \in T
  PROVE  IsQueue(q, T)
  BY DEF IsQueue, IsEdit, Targeting

\* Removing a class nothing refers to leaves no node that does: the class's own nodes go
\* with it (Project::remove_class, children_reference_class).
LEMMA RemovalCloses ==
  ASSUME NEW p, IsProject(p), ~Dangling(p), NEW c \in Uuids(p), Removable(p, c)
  PROVE  ~Dangling(RemoveClass(p, c))
<1> DEFINE q == RemoveClass(p, c)
<1>1. IsProject(q) /\ Uuids(q) = Uuids(p) \ {c} /\ q.classes = [x \in Uuids(p) \ {c} |-> p.classes[x]]
  BY RemoveClassProject
<1> HIDE DEF q
<1> SUFFICES ASSUME NEW d \in Uuids(q), NEW i \in 1 .. Len(q.classes[d]),
                    q.classes[d][i].target \notin Uuids(q) \cup {Nil}
             PROVE  FALSE
  BY DEF Dangling, q
<1>2. d \in Uuids(p) \ {c} /\ q.classes[d] = p.classes[d]
  BY <1>1
<1>3. p.classes[d] \in Seq(Nodes)
  BY <1>2, ProjectFacts
<1>4. i \in 1 .. Len(p.classes[d]) /\ p.classes[d][i] \in Nodes
  BY <1>2, <1>3
<1>5. p.classes[d][i].target \in Uuids(p) \cup {Nil}
  BY <1>2, <1>4 DEF Dangling
<1>6. p.classes[d][i].target = c /\ c # Nil
  <2>1. c \in ClassIds /\ Nil \notin ClassIds
    BY ProjectFacts, WorkspaceAssumption
  <2> QED
    BY <1>1, <1>2, <1>5, <2>1
<1>7. p.classes[d][i].tag \in {"ClassInstance", "Pointer"}
  BY <1>4, <1>6 DEF Nodes
<1>8. References(p.classes[d], c)
  BY <1>4, <1>6, <1>7 DEF References
<1> QED
  BY <1>2, <1>8 DEF Removable

\* No step leaves a node that refers to a class the project does not have, as long as
\* the queued edits name classes that exist and the file on disk is sound; for every
\* number of classes, nodes and queued edits (apply_node_edit, remove_class,
\* replace_project and the script edits).
THEOREM ReferencesDoResolve == WsSpec => ReferencesResolve
<1> DEFINE Resolve == Sound /\ QueueSound => ~Dangling(project')
<1>1. ASSUME WsInv, WsInv', [WsNext]_wsVars PROVE Resolve
  <2> SUFFICES ASSUME Sound, QueueSound PROVE ~Dangling(project')
    OBVIOUS
  <2> DEFINE T == Uuids(project)
  <2>1. IsProject(project) /\ IsProject(project') /\ T \in SUBSET ClassIds
    BY <1>1, ProjectFacts DEF WsInv
  <2>2. project.classes \in [T -> Seq(Within(T))]
    BY <2>1, DanglingIs DEF Sound
  <2>3. IsQueue(pending, T)
    BY <1>1, QueueNarrows DEF QueueSound, WsInv
  <2>4. ProjectStep(T)
    BY <1>1, <2>1, <2>2, <2>3, Steps
  <2>5. CASE project' \in Variants(T, project.order, Within(T))
    <3>1. Uuids(project') = T /\ project'.classes \in [T -> Seq(Within(T))]
      BY <2>1, <2>5, VariantProject
    <3> QED
      BY <2>1, <3>1, DanglingIs
  <2>6. ASSUME NEW c \in ClassIds, NEW nodes \in Seq(Within({})), project' = AddClass(project, c, nodes)
        PROVE  ~Dangling(project')
    <3> DEFINE W == T \cup {c}
               N == Within(W)
    <3>1. W \in SUBSET ClassIds /\ Within(T) \subseteq N /\ Within({}) \subseteq N /\ N \in SUBSET Nodes
      BY <2>1 DEF Within
    <3>2. Seq(Within(T)) \subseteq Seq(N) /\ Seq(Within({})) \subseteq Seq(N)
      <4>1. \A A, B : A \subseteq B => Seq(A) \subseteq Seq(B)
        OBVIOUS
      <4> HIDE DEF N
      <4> QED
        BY <3>1, <4>1
    <3>3. nodes \in Seq(N) /\ project.classes \in [T -> Seq(N)]
      BY <2>2, <3>2
    <3> HIDE DEF N
    <3>4. Uuids(project') = W /\ project'.classes \in [W -> Seq(N)]
      BY <2>1, <2>6, <3>1, <3>3, AddClassProject
    <3> QED
      BY <2>1, <3>4, DanglingIs DEF N
  <2>7. ASSUME NEW c \in T, Removable(project, c), project' = RemoveClass(project, c)
        PROVE  ~Dangling(project')
    BY <2>1, <2>7, RemovalCloses DEF Sound
  <2>8. CASE disk # None /\ project' = FromToml(disk.file)
    BY <2>8 DEF Sound
  <2>9. CASE project' = FromToml(<<>>)
    <3>1. FromToml(<<>>) = NoClasses
      <4> DEFINE file == <<>>
      <4>1. file \in Seq(Defs) /\ Len(file) = 0
        OBVIOUS
      <4> HIDE DEF file
      <4>2. FromToml(file) = NoClasses
        BY <4>1, FromTomlUnfolds
      <4> QED
        BY <4>2 DEF file
    <3>2. Uuids(project') = {}
      BY <2>9, <3>1 DEF NoClasses, Project, Uuids
    <3> QED
      BY <3>2 DEF Dangling
  <2> QED
    BY <2>4, <2>5, <2>6, <2>7, <2>8, <2>9 DEF ProjectStep
<1>2. WsInv /\ WsInv' /\ [WsNext]_wsVars => [Resolve]_wsVars
  BY <1>1
<1> QED
  BY WsInvariance, <1>2, PTL DEF WsSpec, ReferencesResolve

\* Accepting or cancelling a dissect preview changes no class but the one it was made
\* for, whatever is on screen (accept_auto_dissect).
THEOREM AcceptIsLocal == WsSpec => AcceptHitsItsClass
<1> DEFINE Local == preview # None /\ preview' = None /\ pending = <<>> =>
             \A c \in Uuids(project) \ {preview.target} : project'.classes[c] = project.classes[c]
<1>1. ASSUME WsInv, WsNext PROVE Local
  <2> SUFFICES ASSUME preview # None, preview' = None, pending = <<>>,
                      NEW c \in Uuids(project) \ {preview.target}
               PROVE  project'.classes[c] = project.classes[c]
    OBVIOUS
  <2>1. ASSUME UNCHANGED preview PROVE FALSE
    BY <2>1
  <2>2. \A p, before, after : DrainsIfDrawn(p, before, after) => project' = p
    BY DrainedNothing DEF DrainsIfDrawn, EndOfView
  <2>3. CASE AcceptAutoDissect
    <3>1. project' = IntoTarget(project, preview)
      BY <2>2, <2>3 DEF AcceptAutoDissect
    <3>2. IsProject(project) /\ project = Project(project.classes, project.order)
      BY <1>1, ProjectFacts DEF WsInv
    <3>3. CASE preview.target \in Uuids(project)
      <4> DEFINE new == [project.classes EXCEPT ![preview.target] = preview.defs]
      <4>1. project' = [project EXCEPT !.classes = new]
        BY <3>1, <3>3 DEF IntoTarget
      <4>2. new[c] = project.classes[c]
        BY DEF Uuids
      <4> HIDE DEF new
      <4>3. project'.classes = new
        BY <3>2, <4>1 DEF Project
      <4> QED
        BY <4>2, <4>3
    <3>4. CASE preview.target \notin Uuids(project)
      BY <3>1, <3>4 DEF IntoTarget
    <3> QED
      BY <3>3, <3>4
  <2>4. CASE CancelAutoDissect
    BY <2>2, <2>4 DEF CancelAutoDissect
  <2>5. ASSUME NEW body \in DissectBodies, RunAutoDissect(body) PROVE FALSE
    <3>1. preview' = [target |-> selected, defs |-> body]
      BY <2>5 DEF RunAutoDissect
    <3>2. DOMAIN preview' = {"target", "defs"} /\ DOMAIN None = {"none"}
      BY <3>1 DEF None
    <3> QED
      BY <3>2
  <2>6. CASE ScriptNext
    <3>1. \A d, nodes : ScriptEdits(d, nodes) => UNCHANGED preview
      BY DEF ScriptEdits
    <3>2. UNCHANGED preview
      BY <2>6, <3>1 DEF ScriptNext, ScriptCreate, ScriptSelectClass, ScriptAddNode, ScriptAddNodeAt,
                        ScriptRemoveNode, ScriptSetPointerTarget, ScriptDissect
    <3> QED
      BY <2>1, <3>2
  <2>7. CASE \/ TakeSnapshot \/ AttachOrDetach \/ Save \/ OpenProject \/ NewProject \/ CancelModals
             \/ \E d \in ClassIds : AddBlankClass(d) \/ SelectClass(d) \/ DeleteClass(d) \/ PickClass(d)
             \/ \E n \in ByteCounts : ConfirmBytes(n)
    BY <2>1, <2>7 DEF TakeSnapshot, AttachOrDetach, Save, OpenProject, NewProject, Replace, CancelModals,
                      AddBlankClass, SelectClass, DeleteClass, PickClass, ConfirmBytes
  <2>8. CASE ShowClassView \/ \E o \in ToolbarOps : ToolbarEdit(o)
    BY <2>1, <2>8 DEF ShowClassView, ToolbarEdit
  <2>9. ASSUME NEW r, \/ ClickRow(r) \/ ToggleRow(r) \/ OpenPicker(r) \/ OpenAddBytes(r) \/ FollowPointer(r)
                      \/ \E o : ContextEdit(r, o)
        PROVE  FALSE
    BY <2>1, <2>9 DEF ClickRow, ToggleRow, OpenPicker, OpenAddBytes, FollowPointer, ContextEdit
  <2> QED
    BY <1>1, <2>3, <2>4, <2>5, <2>6, <2>7, <2>8, <2>9 DEF WsNext, ClassViewNext
<1>2. WsInv /\ [WsNext]_wsVars => [Local]_wsVars
  BY <1>1
<1> QED
  BY WsInvariance, <1>2, PTL DEF WsSpec, AcceptHitsItsClass
=============================================================================
