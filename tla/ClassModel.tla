----------------------------- MODULE ClassModel -----------------------------
(***************************************************************************)
(* Classes, nodes and projects (nemclass-model), the layout computed from  *)
(* them in three places (codegen, the class view, the script API), the     *)
(* structural edits of the class view, and the project file.               *)
(*                                                                         *)
(* A class is the sequence of its nodes; a project is its classes and      *)
(* their order.  Names and comments are left out, and so are the static    *)
(* children of a VTable node, which no operation of the app creates.       *)
(* Indices are 1-based.                                                    *)
(***************************************************************************)
EXTENDS Naturals, Sequences, SequencesExt

CONSTANTS
  ClassIds,    \* the uuids the instance uses
  Nil          \* no class: None, and the nil uuid of a fresh instance node

\* The scalar leaves (simple_node!) and the nodes that hold one address.
ScalarSize == [Int8 |-> 1, Int16 |-> 2, Int32 |-> 4, Int64 |-> 8, UInt8 |-> 1, UInt16 |-> 2,
               UInt32 |-> 4, UInt64 |-> 8, Float |-> 4, Double |-> 8, Bool |-> 1]
HexSize == [Hex8 |-> 1, Hex16 |-> 2, Hex32 |-> 4, Hex64 |-> 8]
AddressTags == {"Pointer", "StrPtr", "VTable", "VMethod", "Function", "FunctionPtr"}

\* VECTOR_SHAPES and MATRIX_SHAPES: how many floats, and their width.
VectorShapes ==
  [Vector2 |-> <<2, 4>>, Vector3 |-> <<3, 4>>, Vector4 |-> <<4, 4>>,
   Vector2d |-> <<2, 8>>, Vector3d |-> <<3, 8>>, Vector4d |-> <<4, 8>>]
MatrixShapes ==
  [Matrix3x3 |-> <<9, 4>>, Matrix3x4 |-> <<12, 4>>, Matrix4x4 |-> <<16, 4>>,
   Matrix3x3d |-> <<9, 8>>, Matrix3x4d |-> <<12, 8>>, Matrix4x4d |-> <<16, 8>>]

Tags == DOMAIN ScalarSize \cup DOMAIN HexSize \cup AddressTags \cup DOMAIN VectorShapes
          \cup DOMAIN MatrixShapes \cup {"Array", "Utf8Text", "Utf16Text", "ClassInstance"}

\* registry.construct: a fresh node of a type; a fresh pointer or instance has no
\* target, a fresh text is 64 bytes long and a fresh array has no elements.
DefaultLen(tag) == IF tag \in {"Utf8Text", "Utf16Text"} THEN 64 ELSE 0
Construct(tag) == [tag |-> tag, target |-> Nil, len |-> DefaultLen(tag)]
PointerTo(c) == [Construct("Pointer") EXCEPT !.target = c]
InstanceOf(c) == [Construct("ClassInstance") EXCEPT !.target = c]

\* Node::memory_size; len is the length of a text and the count times the element
\* size of an array.  An instance is 0 here, its size needs the project.
MemorySize(n) ==
  CASE n.tag \in DOMAIN ScalarSize -> ScalarSize[n.tag]
    [] n.tag \in DOMAIN HexSize -> HexSize[n.tag]
    [] n.tag \in AddressTags -> 8
    [] n.tag \in DOMAIN VectorShapes -> VectorShapes[n.tag][1] * VectorShapes[n.tag][2]
    [] n.tag \in DOMAIN MatrixShapes -> MatrixShapes[n.tag][1] * MatrixShapes[n.tag][2]
    [] n.tag \in {"Array", "Utf8Text", "Utf16Text"} -> n.len
    [] n.tag = "ClassInstance" -> 0

Project(cs, ord) == [classes |-> cs, order |-> ord]
Uuids(p) == DOMAIN p.classes

\* Only instances and pointers have a target; it may be a class that is gone.
Nodes == {n \in [tag : Tags, target : ClassIds \cup {Nil}, len : Nat] :
            n.target = Nil \/ n.tag \in {"ClassInstance", "Pointer"}}

\* The order lists every class of the project, once.
IsProject(p) ==
  /\ p = Project(p.classes, p.order) /\ Uuids(p) \subseteq ClassIds
  /\ p.classes \in [Uuids(p) -> Seq(Nodes)]
  /\ p.order \in Seq(Uuids(p)) /\ \A c \in Uuids(p) : \E i \in 1 .. Len(p.order) : p.order[i] = c
  /\ \A i, j \in 1 .. Len(p.order) : p.order[i] = p.order[j] => i = j

SumOver(sizes) ==
  LET total[k \in 0 .. Len(sizes)] == IF k = 0 THEN 0 ELSE total[k - 1] + sizes[k]
  IN total[Len(sizes)]

-----------------------------------------------------------------------------
(* Project.                                                                *)

AddClass(p, c, nodes) ==
  Project([x \in Uuids(p) \cup {c} |-> IF x = c THEN nodes ELSE p.classes[x]],
          IF c \in Uuids(p) THEN p.order ELSE Append(p.order, c))

\* Mutation: only embedded instances count as references.
EmbedsOnly(nodes, c) ==
  \E i \in 1 .. Len(nodes) : nodes[i].tag = "ClassInstance" /\ nodes[i].target = c

\* children_reference_class: an instance or a pointer names the class.
References(nodes, c) ==
  \E i \in 1 .. Len(nodes) :
    nodes[i].tag \in {"ClassInstance", "Pointer"} /\ nodes[i].target = c

\* remove_class refuses while ANOTHER class refers to this one.
Removable(p, c) ==
  c \in Uuids(p) /\ \A d \in Uuids(p) \ {c} : ~References(p.classes[d], c)

WithoutClass(order, c) ==
  LET upTo[k \in 0 .. Len(order)] ==
        IF k = 0 THEN <<>>
        ELSE IF order[k] = c THEN upTo[k - 1] ELSE Append(upTo[k - 1], order[k])
  IN upTo[Len(order)]

RemoveClass(p, c) ==
  Project([x \in Uuids(p) \ {c} |-> p.classes[x]], WithoutClass(p.order, c))

\* Mutation: the attributes of the nodes are not written.
TomlWithoutAttrs(p) ==
  [i \in 1 .. Len(p.order) |->
     [uuid |-> p.order[i],
      nodes |-> [j \in 1 .. Len(p.classes[p.order[i]]) |-> Construct(p.classes[p.order[i]][j].tag)]]]

\* to_toml: the classes in order, each with its nodes and their attributes.
ClassDef(p, c) == [uuid |-> c, nodes |-> p.classes[c]]
ToToml(p) ==
  LET upTo[k \in 0 .. Len(p.order)] ==
        IF k = 0 THEN <<>>
        ELSE IF p.order[k] \in Uuids(p) THEN Append(upTo[k - 1], ClassDef(p, p.order[k]))
        ELSE upTo[k - 1]
  IN upTo[Len(p.order)]

\* from_toml adds the classes of the file one after the other.
NoClasses == Project([x \in {} |-> <<>>], <<>>)
FromToml(file) ==
  LET upTo[k \in 0 .. Len(file)] ==
        IF k = 0 THEN NoClasses ELSE AddClass(upTo[k - 1], file[k].uuid, file[k].nodes)
  IN upTo[Len(file)]

-----------------------------------------------------------------------------
(* Sizes and offsets.                                                      *)

NodesOf(p) == UNION {Range(p.classes[c]) : c \in Uuids(p)}

\* resolved_node_size: an embedded class counts with its own size; one that is being
\* measured already (a cycle), or is not in the project, counts nothing.
ResolvedNodeSize(p, node, visited) ==
  LET size[n \in NodesOf(p), path \in SUBSET Uuids(p)] ==
        IF n.tag # "ClassInstance" THEN MemorySize(n)
        ELSE IF n.target \in path \/ n.target \notin Uuids(p) THEN 0
        ELSE LET nodes == p.classes[n.target]
             IN SumOver([i \in 1 .. Len(nodes) |-> size[nodes[i], path \cup {n.target}]])
  IN IF node.tag # "ClassInstance" THEN MemorySize(node) ELSE size[node, visited]

ResolvedClassSize(p, c, visited) ==
  SumOver([i \in 1 .. Len(p.classes[c]) |-> ResolvedNodeSize(p, p.classes[c][i], visited)])

\* Project::resolved_class_size measures c with c already visited.
ProjectClassSize(p, c) == ResolvedClassSize(p, c, {c})

\* resolve_fields, for the generated source: every field with its offset.
ResolveFields(p, c) ==
  LET nodes == p.classes[c]
  IN [i \in 1 .. Len(nodes) |->
        [offset |-> SumOver([k \in 1 .. i - 1 |-> ResolvedNodeSize(p, nodes[k], {})]),
         node |-> nodes[i]]]

\* Mutation: an instance takes the 0 of its memory_size.
UnresolvedSize(p, n, visited) == MemorySize(n)

\* flatten_nodes' own size: visited is its path, the size is measured afresh.
FlattenSize(p, n, visited) ==
  IF n.tag # "ClassInstance" THEN MemorySize(n)
  ELSE IF n.target \in visited \/ n.target \notin Uuids(p) THEN 0
  ELSE ResolvedClassSize(p, n.target, {})

\* Where rows are laid out: the rows of which the base address is, an offset from it,
\* and the ids of the rows they are nested in.
Place == [base : Seq(Nat), offset : Nat, id : Seq(Nat)]

\* flatten_nodes: the rows of class c laid out from a place; embedded classes are
\* expanded unless collapsed, pointers are followed if expanded.  visited holds the
\* classes on the path, budget bounds its depth.
Flatten(p, view, c, budget) ==
  LET rowsOf[left \in 0 .. budget, at \in Place, owner \in Uuids(p), visited \in SUBSET Uuids(p)] ==
        LET nodes == p.classes[owner]
            Inner(n, there) ==
              IF n.target \in Uuids(p) \ visited /\ left > 0
                THEN rowsOf[left - 1, there, n.target, visited \cup {n.target}]
                ELSE <<>>
            Lay(acc, i) ==
              LET n == nodes[i]
                  id == Append(at.id, i)
                  size == FlattenSize(p, n, visited)
                  row == [id |-> id, owner |-> owner, local |-> i, node |-> n,
                          base |-> at.base, offset |-> acc.offset, size |-> size]
                  below ==
                    CASE n.tag = "ClassInstance" /\ id \notin view.collapsed ->
                           Inner(n, [base |-> at.base, offset |-> acc.offset, id |-> id])
                      [] n.tag = "Pointer" /\ id \in view.expanded ->
                           Inner(n, [base |-> id, offset |-> 0, id |-> id])
                      [] OTHER -> <<>>
              IN [rows |-> acc.rows \o <<row>> \o below, offset |-> acc.offset + size]
        IN FoldLeft(Lay, [rows |-> <<>>, offset |-> at.offset],
                    [i \in 1 .. Len(nodes) |-> i]).rows
  IN rowsOf[budget, [base |-> <<>>, offset |-> 0, id |-> <<>>], c, {}]

\* build_visible_rows: no ancestor of the row is collapsed.
VisibleRows(rows, collapsed) ==
  SelectSeq(rows, LAMBDA r : \A len \in 1 .. Len(r.id) - 1 : SubSeq(r.id, 1, len) \notin collapsed)

-----------------------------------------------------------------------------
(* Edits.                                                                  *)

Repeat(n, tag) == [i \in 1 .. n |-> Construct(tag)]

\* hex_fill: `count` bytes of filler, largest nodes first.
HexFill(count) ==
  Repeat(count \div 8, "Hex64") \o Repeat((count % 8) \div 4, "Hex32")
    \o Repeat((count % 4) \div 2, "Hex16") \o Repeat(count % 2, "Hex8")

InsertAll(nodes, i, new) == SubSeq(nodes, 1, i - 1) \o new \o SubSeq(nodes, i, Len(nodes))

\* NodeEditOp: what to do to the node at `path` of class `owner`.
Op(kind, owner, path, arg) == [kind |-> kind, owner |-> owner, path |-> path, arg |-> arg]

EditNodes(nodes, op) ==
  CASE op.kind = "ChangeType" -> [nodes EXCEPT ![op.path] = Construct(op.arg)]
    [] op.kind = "DeleteRange" ->
         SubSeq(nodes, 1, op.path - 1) \o SubSeq(nodes, op.path + op.arg, Len(nodes))
    [] op.kind = "AddBytes" -> InsertAll(nodes, op.path + 1, HexFill(op.arg))
    [] op.kind = "InsertBytes" -> InsertAll(nodes, op.path, HexFill(op.arg))
    [] op.kind = "SetPtrTarget" -> [nodes EXCEPT ![op.path] = PointerTo(op.arg)]
    [] op.kind = "SetInstance" -> [nodes EXCEPT ![op.path] = InstanceOf(op.arg)]
    [] op.kind = "AppendBytes" -> nodes \o HexFill(op.arg)

\* resolve_parent_vec_mut: the class and the index still exist.
Resolves(p, op) ==
  /\ op.owner \in Uuids(p)
  /\ op.kind = "AppendBytes" \/ op.path \in 1 .. Len(p.classes[op.owner])

\* apply_node_edit: an edit whose node is gone does nothing.
Edited(p, op) ==
  IF Resolves(p, op) THEN [p EXCEPT !.classes[op.owner] = EditNodes(@, op)] ELSE p

\* The picker's cycle check looks one level deep.
WouldCycle(p, owner, target) ==
  target \in Uuids(p) /\ (References(p.classes[target], owner) \/ target = owner)

\* classes.addNodeAt: the offset before each child, by memory_size.
CursorAt(nodes, i) == SumOver([k \in 1 .. i - 1 |-> MemorySize(nodes[k])])

\* addNodeAt fails when the offset falls inside a field.
Placeable(nodes, offset) ==
  \/ \E i \in 1 .. Len(nodes) : CursorAt(nodes, i) = offset
  \/ offset >= CursorAt(nodes, Len(nodes) + 1)

\* Where addNodeAt puts the field, and the padding it puts before it.
PlaceIndex(nodes, offset) ==
  IF \E i \in 1 .. Len(nodes) : CursorAt(nodes, i) = offset
    THEN CHOOSE i \in 1 .. Len(nodes) :
           CursorAt(nodes, i) = offset /\ \A j \in 1 .. i - 1 : CursorAt(nodes, j) # offset
    ELSE Len(nodes) + 1
NodesWith(nodes, offset, n) ==
  LET i == PlaceIndex(nodes, offset)
      gap == IF i > Len(nodes) THEN offset - CursorAt(nodes, i) ELSE 0
  IN InsertAll(nodes, i, Append(HexFill(gap), n))
=============================================================================
