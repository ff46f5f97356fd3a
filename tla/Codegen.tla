------------------------------ MODULE Codegen -------------------------------
(***************************************************************************)
(* The source generators (nemclass-model/src/codegen): C++ with packed     *)
(* classes, C# with explicit field offsets, Rust with repr(C) structs.     *)
(*                                                                         *)
(* What a generator emits is reduced to what a compiler lays out: for every*)
(* field the offset it is annotated with and its declared type, a run of   *)
(* `count` elements of `elem` bytes or another class.  Names, enums and    *)
(* comments are left out, but not the order of the classes.  What the      *)
(* compilers and the CLR make of it is external.                           *)
(***************************************************************************)
EXTENDS ClassModel, FiniteSets

CONSTANT WcharBytes  \* wchar_t of the C++ compiler: 4 bytes with GCC on Linux, else 2

ASSUME WcharAssumption == WcharBytes \in {2, 4}

Languages == {"Cpp", "CSharp", "Rust"}

Elements(width, n) == [elem |-> width, count |-> n, class |-> Nil]
RawBytes(n) == Elements(1, n)
Inline(c) == [elem |-> 0, count |-> 1, class |-> c]

\* A wide text is declared as UTF-16 units; an odd length rounds up.
WideUnits(len) == (len + 1) \div 2

\* FieldKind: an instance of a class the project lacks is an empty blob, a node type
\* without a rule of its own is raw bytes of its size.
FieldKind(p, n) ==
  CASE n.tag \in DOMAIN ScalarSize -> Elements(ScalarSize[n.tag], 1)
    [] n.tag \in {"Pointer", "StrPtr"} -> Elements(8, 1)
    [] n.tag = "ClassInstance" -> IF n.target \in Uuids(p) THEN Inline(n.target) ELSE RawBytes(0)
    [] n.tag = "Utf16Text" -> Elements(2, WideUnits(n.len))
    [] n.tag \in DOMAIN VectorShapes -> Elements(VectorShapes[n.tag][2], VectorShapes[n.tag][1])
    [] n.tag \in DOMAIN MatrixShapes -> Elements(MatrixShapes[n.tag][2], MatrixShapes[n.tag][1])
    [] OTHER -> RawBytes(MemorySize(n))

\* One field line each: C++ emits a wide text as wchar_t, C# as a byte buffer and a
\* narrow text as a string, which is an object reference.
CppField(f, kind) ==
  [at |-> f.offset,
   type |-> IF f.node.tag = "Utf16Text" THEN Elements(WcharBytes, kind.count) ELSE kind]
RustField(f, kind) == [at |-> f.offset, type |-> kind]
CSharpField(f, kind) ==
  [at |-> f.offset,
   type |-> CASE f.node.tag = "Utf16Text" -> RawBytes(2 * kind.count)
              [] f.node.tag = "Utf8Text" -> Elements(8, 1)
              [] OTHER -> kind]

\* generate: a class as the sequence of its field lines and the size it asserts.
Generate(lang, p, c) ==
  LET fields == ResolveFields(p, c)
      Line(f) == CASE lang = "Cpp" -> CppField(f, FieldKind(p, f.node))
                   [] lang = "CSharp" -> CSharpField(f, FieldKind(p, f.node))
                   [] lang = "Rust" -> RustField(f, FieldKind(p, f.node))
  IN [lines |-> [i \in 1 .. Len(fields) |-> Line(fields[i])],
      size |-> ResolvedClassSize(p, c, {})]

-----------------------------------------------------------------------------
(* The compilers.                                                          *)

RoundUp(n, align) == ((n + align - 1) \div align) * align
MaxOf(m, n) == IF m > n THEN m ELSE n

\* How the target compiler lays class c out, each field as <<start, end>>: pack(1) has
\* no padding, explicit offsets are taken as they are, and repr(C) aligns every field.
\* Rust and, for want of a Pack, the CLR round the size up to the largest alignment; an
\* empty class has one byte, in Rust none.
Compiled(lang, p, c) ==
  LET real[d \in Uuids(p)] ==
        LET lines == Generate(lang, p, d).lines
            Size(t) == IF t.class # Nil THEN real[t.class].size ELSE t.elem * t.count
            Align(t) == IF lang = "Cpp" THEN 1
                        ELSE IF t.class # Nil THEN real[t.class].align ELSE t.elem
            Put(acc, line) ==
              LET start == IF lang = "CSharp" THEN line.at ELSE RoundUp(acc.size, Align(line.type))
                  end == start + Size(line.type)
              IN [spans |-> Append(acc.spans, <<start, end>>), size |-> MaxOf(acc.size, end),
                  align |-> MaxOf(acc.align, Align(line.type))]
            all == FoldLeft(Put, [spans |-> <<>>, size |-> 0, align |-> 1], lines)
        IN [all EXCEPT !.size = IF lang # "Rust" /\ lines = <<>> THEN 1 ELSE RoundUp(@, all.align)]
  IN real[c]

\* Every field of class c starts where the generator annotated it and ends before the
\* next one, and the class has the size the generator counts with.
LaidOutAsAnnotated(lang, p, c) ==
  LET source == Generate(lang, p, c)
      real == Compiled(lang, p, c)
      n == Len(source.lines)
  IN /\ \A i \in 1 .. n : real.spans[i][1] = source.lines[i].at
     /\ \A i \in 1 .. n - 1 : real.spans[i][2] <= real.spans[i + 1][1]
     /\ real.size = source.size

\* Classes that embed themselves, directly or through others.
Embeds(p, c) == {p.classes[c][i].target : i \in
                   {k \in 1 .. Len(p.classes[c]) : p.classes[c][k].tag = "ClassInstance"}}
Embedded(p, S) ==
  LET within[k \in 0 .. Cardinality(Uuids(p))] ==
        IF k = 0 THEN S
        ELSE within[k - 1] \cup UNION {Embeds(p, c) \cap Uuids(p) : c \in within[k - 1]}
  IN within[Cardinality(Uuids(p))]
Acyclic(p, c) == \A d \in Embedded(p, {c}) : d \notin Embedded(p, Embeds(p, d) \cap Uuids(p))

\* C++ needs a class before it is used, a pointer to the class itself excepted; the
\* generator takes the classes in the order of the project, without declaring any.
DefinedBeforeUse(p) ==
  \A i \in 1 .. Len(p.order) : \A n \in Range(p.classes[p.order[i]]) :
    n.target \in Uuids(p) =>
      \E k \in 1 .. i : p.order[k] = n.target /\ (k < i \/ n.tag = "Pointer")

\* The size assertion behind every C++ class and every Rust struct.
AssertionHolds(lang, p, c) == Compiled(lang, p, c).size = Generate(lang, p, c).size

\* The compiler takes the C++ or Rust source of project p.
Compiles(lang, p) ==
  /\ \A c \in Uuids(p) : Acyclic(p, c)
  /\ lang = "Cpp" => DefinedBeforeUse(p)
  /\ \A c \in Uuids(p) : AssertionHolds(lang, p, c)
=============================================================================
