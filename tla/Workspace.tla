----------------------------- MODULE Workspace ------------------------------
(***************************************************************************)
(* Editing a project (views/mod.rs, views/host_api_impl.rs, project_io.rs).*)
(*                                                                         *)
(* A frame runs the app's logic (snapshot, script requests), then the menu,*)
(* the class list, the class view and last the modal windows.  What a modal*)
(* confirms is queued and applied at the end of the next class view that   *)
(* has rows to draw, which may be many frames later: another class or tab  *)
(* may be shown, the class deleted, the project replaced.  Scripts edit    *)
(* classes without invalidating the rows on screen.                        *)
(***************************************************************************)
EXTENDS Codegen

CONSTANTS
  FirstProjects,  \* the projects the app may start with
  NewTags,        \* node types the user and the scripts ask for
  ByteCounts,     \* counts of the Add / Insert menus
  ScriptOffsets,  \* offsets scripts pass to addNodeAt
  DissectBodies,  \* what auto_dissect may find at the class base
  MaxDerefDepth,  \* MAX_DEREF_DEPTH
  MaxOps          \* bound: operations of the user and the scripts per behaviour

ASSUME WorkspaceAssumption ==
  /\ Nil \notin ClassIds
  /\ NewTags \subseteq Tags /\ ByteCounts \subseteq Nat /\ ScriptOffsets \subseteq Nat
  /\ MaxDerefDepth \in Nat /\ MaxOps \in Nat

\* The app starts with a project that add_class, remove_class or from_toml made; a
\* dissect proposes nodes without a target.
ASSUME ProjectsAssumption ==
  /\ \A p \in FirstProjects : IsProject(p)
  /\ DissectBodies \subseteq Seq({n \in Nodes : n.target = Nil})

None == [none |-> TRUE]

VARIABLES
  project, attached,
  selected,       \* selected_class
  chosen,         \* selected_node: the row the toolbar acts on
  rows,           \* node_snapshots
  collapsed, expanded,
  picker,         \* class_picker
  dialog,         \* add_bytes_dialog
  pending,        \* pending_node_edits
  preview,        \* dissect_preview
  disk,           \* project.nemclass of the project directory, or None
  minted,         \* uuids given out so far
  ops             \* bound: operations so far

modals == <<picker, dialog>>
wsView == <<selected, chosen, rows, collapsed, expanded>>
bounds == <<minted, ops>>
wsVars == <<project, attached, wsView, modals, pending, preview, disk, bounds>>

\* The app has a project open and has attached.
WsInit ==
  /\ project \in FirstProjects /\ attached = TRUE
  /\ selected = IF project.order = <<>> THEN Nil ELSE project.order[1]
  /\ chosen = None /\ rows = <<>> /\ collapsed = {} /\ expanded = {}
  /\ picker = None /\ dialog = None /\ pending = <<>> /\ preview = None
  /\ disk = None /\ minted = Uuids(project) /\ ops = 0

Counted == ops < MaxOps /\ ops' = ops + 1
Costs == Counted /\ UNCHANGED minted

\* Uuid::new_v4: an id no class ever had.
Mint(c) == Counted /\ c \in ClassIds \ minted /\ minted' = minted \cup {c}
FirstOf(p) == IF p.order = <<>> THEN Nil ELSE p.order[1]

\* rebuild_snapshots_from_buf: without a process no pointer is followed.
RowsOf(p, c) ==
  IF c \notin Uuids(p) THEN <<>>
  ELSE Flatten(p, [collapsed |-> collapsed, expanded |-> IF attached THEN expanded ELSE {}],
               c, MaxDerefDepth)

-----------------------------------------------------------------------------
(* The app's logic: snapshots, attach and detach, scripts.                 *)

TakeSnapshot ==
  /\ selected # Nil
  /\ rows' = RowsOf(project, selected)
  /\ UNCHANGED <<project, attached, selected, chosen, collapsed, expanded, modals, pending,
                 preview, disk, bounds>>

\* Detaching clears the rows, attaching leaves them to the next snapshot.
AttachOrDetach ==
  /\ Costs
  /\ attached' = ~attached
  /\ rows' = IF attached THEN <<>> ELSE rows
  /\ UNCHANGED <<project, selected, chosen, collapsed, expanded, modals, pending, preview,
                 disk>>

\* A script changes the nodes of class c; the rows on screen stay as they are.
ScriptEdits(c, nodes) ==
  /\ Costs
  /\ project' = [project EXCEPT !.classes[c] = nodes]
  /\ UNCHANGED <<attached, wsView, modals, pending, preview, disk>>

ScriptCreate(c) ==
  /\ Mint(c)
  /\ project' = AddClass(project, c, <<>>)
  /\ UNCHANGED <<attached, wsView, modals, pending, preview, disk>>

ScriptAddNode(c, tag) == ScriptEdits(c, Append(project.classes[c], Construct(tag)))

ScriptAddNodeAt(c, offset, tag) ==
  /\ Placeable(project.classes[c], offset)
  /\ ScriptEdits(c, NodesWith(project.classes[c], offset, Construct(tag)))

\* set_pointer_target: only a pointer node takes a target; no cycle check here.
ScriptSetPointerTarget(c, i, target) ==
  /\ project.classes[c][i].tag = "Pointer"
  /\ ScriptEdits(c, [project.classes[c] EXCEPT ![i] = PointerTo(target)])

ScriptRemoveNode(c, i) == ScriptEdits(c, RemoveAt(project.classes[c], i))

ScriptDissect(c, body) == attached /\ ScriptEdits(c, body)

\* ui.selectClass, applied after the scripts have run.
ScriptSelectClass(c) ==
  /\ Costs
  /\ c \in Uuids(project)
  /\ selected' = c /\ rows' = <<>>
  /\ UNCHANGED <<project, attached, chosen, collapsed, expanded, modals, pending, preview,
                 disk>>

ScriptNext ==
  \/ \E c \in ClassIds : ScriptCreate(c) \/ ScriptSelectClass(c)
  \/ \E c \in Uuids(project) :
       \/ \E tag \in NewTags :
            ScriptAddNode(c, tag) \/ \E o \in ScriptOffsets : ScriptAddNodeAt(c, o, tag)
       \/ \E i \in 1 .. Len(project.classes[c]) :
            \/ ScriptRemoveNode(c, i)
            \/ \E t \in Uuids(project) : ScriptSetPointerTarget(c, i, t)
       \/ \E body \in DissectBodies : ScriptDissect(c, body)

-----------------------------------------------------------------------------
(* The menu: project files.                                                *)

\* replace_project: the first class is selected; modals, queued edits, the chosen row
\* and a dissect preview stay.
Replace(p) ==
  /\ project' = p /\ selected' = FirstOf(p)
  /\ rows' = <<>> /\ collapsed' = {}
  /\ Costs
  /\ UNCHANGED <<attached, chosen, expanded, modals, pending, preview>>

Save ==
  /\ Costs
  /\ disk' = [file |-> ToToml(project)]
  /\ UNCHANGED <<project, attached, wsView, modals, pending, preview>>

OpenProject == disk # None /\ Replace(FromToml(disk.file)) /\ UNCHANGED disk

\* New writes the empty project; it refuses a directory that has one.
NewProject ==
  /\ disk = None
  /\ disk' = [file |-> <<>>] /\ Replace(FromToml(<<>>))

-----------------------------------------------------------------------------
(* The class list.                                                         *)

AddBlankClass(c) ==
  /\ Mint(c)
  /\ project' = AddClass(project, c, <<Construct("Hex64")>>)
  /\ selected' = c /\ rows' = <<>>
  /\ UNCHANGED <<attached, chosen, collapsed, expanded, modals, pending, preview, disk>>

SelectClass(c) ==
  /\ Costs
  /\ c \in Uuids(project) /\ selected # c
  /\ selected' = c /\ rows' = <<>>
  /\ UNCHANGED <<project, attached, chosen, collapsed, expanded, modals, pending, preview,
                 disk>>

\* After deleting the selected class, the first one left is selected.
SelectionAfter(p, c) == IF selected = c THEN FirstOf(p) ELSE selected

DeleteClass(c) ==
  /\ Costs /\ Removable(project, c)
  /\ project' = RemoveClass(project, c)
  /\ selected' = SelectionAfter(project', c)
  /\ rows' = IF selected = c THEN <<>> ELSE rows
  /\ UNCHANGED <<attached, chosen, collapsed, expanded, modals, pending, preview, disk>>

-----------------------------------------------------------------------------
(* The class view.                                                         *)

\* show_class_view builds the rows first if there are none.
Shown == IF rows = <<>> THEN RowsOf(project, selected) ELSE rows
ShownRows == Range(VisibleRows(Shown, collapsed))
ViewDrawn == selected # Nil /\ Shown # <<>>

Drained(p, queue) ==
  LET upTo[k \in 0 .. Len(queue)] == IF k = 0 THEN p ELSE Edited(upTo[k - 1], queue[k])
  IN upTo[Len(queue)]

\* The end of a class view that drew `drawn` over project p: every queued edit is
\* applied, and each invalidates the rows.  A view without rows returns before.
EndOfView(p, drawn, queue) ==
  /\ project' = Drained(p, queue)
  /\ pending' = <<>>
  /\ rows' = IF queue = <<>> THEN drawn ELSE <<>>
Drains(more) == EndOfView(project, Shown, pending \o more)
DrainsIfDrawn(p, before, after) ==
  IF before = <<>> THEN project' = p /\ rows' = <<>> /\ UNCHANGED pending
                   ELSE EndOfView(p, after, pending)

ShowClassView ==
  /\ ViewDrawn /\ Drains(<<>>)
  /\ UNCHANGED <<attached, selected, chosen, collapsed, expanded, modals, preview, disk, bounds>>

ClickRow(r) ==
  /\ Costs
  /\ ViewDrawn /\ Drains(<<>>)
  /\ LET hit == [owner |-> r.owner, path |-> r.local]
     IN chosen' = IF chosen = hit THEN None ELSE hit
  /\ UNCHANGED <<attached, selected, collapsed, expanded, modals, preview, disk>>

\* The arrow of a row: pointers start collapsed, embedded classes expanded.
ToggleRow(r) ==
  /\ Costs
  /\ ViewDrawn /\ Drains(<<>>)
  /\ LET Toggled(S) == IF r.id \in S THEN S \ {r.id} ELSE S \cup {r.id}
     IN \/ /\ r.node.tag = "Pointer" /\ r.node.target # Nil
           /\ expanded' = Toggled(expanded) /\ UNCHANGED collapsed
        \/ /\ r.node.tag = "ClassInstance"
           /\ collapsed' = Toggled(collapsed) /\ UNCHANGED expanded
  /\ UNCHANGED <<attached, selected, chosen, modals, preview, disk>>

\* The context menu's own edits are drained by the same frame.
ContextEdit(r, op) ==
  /\ ViewDrawn /\ Costs /\ Drains(<<op>>)
  /\ UNCHANGED <<attached, selected, chosen, collapsed, expanded, modals, preview, disk>>

OpenPicker(r) ==
  /\ ViewDrawn /\ Costs /\ Drains(<<>>)
  /\ \E kind \in {"SetInstance"} \cup (IF r.node.tag = "Pointer" THEN {"SetPtrTarget"} ELSE {}) :
       picker' = [kind |-> kind, owner |-> r.owner, path |-> r.local]
  /\ UNCHANGED <<attached, selected, chosen, collapsed, expanded, dialog, preview, disk>>

OpenAddBytes(r) ==
  /\ ViewDrawn /\ Costs /\ Drains(<<>>)
  /\ \E kind \in {"AddBytes", "InsertBytes"} :
       dialog' = [kind |-> kind, owner |-> r.owner, path |-> r.local]
  /\ UNCHANGED <<attached, selected, chosen, collapsed, expanded, picker, preview, disk>>

\* follow_pointer, to a class that exists: select it; the queue is drained after.
FollowPointer(r) ==
  /\ Costs
  /\ ViewDrawn /\ attached
  /\ r.node.tag = "Pointer" /\ r.node.target \in Uuids(project)
  /\ selected' = r.node.target
  /\ EndOfView(project, <<>>, pending)
  /\ UNCHANGED <<attached, chosen, collapsed, expanded, modals, preview, disk>>

\* The toolbar works on an empty class too, applies its edit at once, and acts on the
\* chosen row of whatever class it was chosen in.
ToolbarOps ==
  LET on == chosen
  IN IF on = None THEN {Op("AppendBytes", selected, 1, n) : n \in ByteCounts}
     ELSE {Op(k, on.owner, on.path, n) : k \in {"AddBytes", "InsertBytes"}, n \in ByteCounts}
            \cup {Op("DeleteRange", on.owner, on.path, n) : n \in {1, 2}}
            \cup {Op("ChangeType", on.owner, on.path, tag) : tag \in NewTags}

\* After the toolbar's edit the view is drawn from fresh rows, so the queue is
\* drained if the class has any node left.
ToolbarEdit(op) ==
  /\ selected # Nil /\ Costs
  /\ chosen' = IF op.kind = "DeleteRange" THEN None ELSE chosen
  /\ LET p == Edited(project, op)
         drawn == RowsOf(p, selected)
     IN DrainsIfDrawn(p, drawn, drawn)
  /\ UNCHANGED <<attached, selected, collapsed, expanded, modals, preview, disk>>

\* run_auto_dissect keeps what it found for the class that is selected now.
RunAutoDissect(body) ==
  /\ selected # Nil /\ attached /\ Costs
  /\ preview' = [target |-> selected, defs |-> body]
  /\ DrainsIfDrawn(project, Shown, Shown)
  /\ UNCHANGED <<attached, selected, chosen, collapsed, expanded, modals, disk>>

\* Mutation: the body goes to the class on screen.
IntoSelected(p, pre) ==
  IF selected \in Uuids(p) THEN [p EXCEPT !.classes[selected] = pre.defs] ELSE p

\* accept_auto_dissect: the class the dissect ran for, if it still exists.
IntoTarget(p, pre) ==
  IF pre.target \in Uuids(p) THEN [p EXCEPT !.classes[pre.target] = pre.defs] ELSE p

AcceptAutoDissect ==
  /\ preview # None /\ selected # Nil
  /\ preview' = None
  /\ DrainsIfDrawn(IntoTarget(project, preview), Shown,
                   IF preview.target \in Uuids(project) THEN <<>> ELSE Shown)
  /\ UNCHANGED <<attached, selected, chosen, collapsed, expanded, modals, disk, bounds>>

CancelAutoDissect ==
  /\ preview # None /\ selected # Nil
  /\ preview' = None
  /\ DrainsIfDrawn(project, Shown, Shown)
  /\ UNCHANGED <<attached, selected, chosen, collapsed, expanded, modals, disk, bounds>>

ClassViewNext ==
  \/ ShowClassView \/ AcceptAutoDissect \/ CancelAutoDissect
  \/ \E body \in DissectBodies : RunAutoDissect(body)
  \/ \E op \in ToolbarOps : ToolbarEdit(op)
  \/ \E r \in ShownRows :
       \/ ClickRow(r) \/ ToggleRow(r) \/ OpenPicker(r) \/ OpenAddBytes(r) \/ FollowPointer(r)
       \/ \E tag \in NewTags : ContextEdit(r, Op("ChangeType", r.owner, r.local, tag))
       \/ ContextEdit(r, Op("DeleteRange", r.owner, r.local, 1))

-----------------------------------------------------------------------------
(* The modal windows, drawn after the class view.                          *)

\* show_class_picker: what is picked is queued, unless it would make a cycle.
PickClass(c) ==
  /\ picker # None /\ c \in Uuids(project)
  /\ picker' = None
  /\ pending' = IF WouldCycle(project, picker.owner, c) THEN pending
                ELSE Append(pending, Op(picker.kind, picker.owner, picker.path, c))
  /\ UNCHANGED <<project, attached, wsView, dialog, preview, disk, bounds>>

ConfirmBytes(n) ==
  /\ dialog # None
  /\ dialog' = None
  /\ pending' = Append(pending, Op(dialog.kind, dialog.owner, dialog.path, n))
  /\ UNCHANGED <<project, attached, wsView, picker, preview, disk, bounds>>

CancelModals ==
  /\ modals # <<None, None>>
  /\ picker' = None /\ dialog' = None
  /\ UNCHANGED <<project, attached, wsView, pending, preview, disk, bounds>>

WsNext ==
  \/ TakeSnapshot \/ AttachOrDetach \/ ScriptNext
  \/ Save \/ OpenProject \/ NewProject
  \/ \E c \in ClassIds : AddBlankClass(c) \/ SelectClass(c) \/ DeleteClass(c)
  \/ ClassViewNext
  \/ \E c \in ClassIds : PickClass(c)
  \/ \E n \in ByteCounts : ConfirmBytes(n)
  \/ CancelModals

WsSpec == WsInit /\ [][WsNext]_wsVars

-----------------------------------------------------------------------------
(* Properties.                                                             *)

\* Node lists whose texts the generators declare with their true length: no wide text
\* where wchar_t is not a UTF-16 unit, none of odd length (an element is added).
TextsFit(nodes, unit) ==
  \A n \in Range(nodes) : n.tag = "Utf16Text" => unit = 2 /\ n.len % 2 = 0

\* What is needed for the CLR to keep to the annotations of class c, which nothing in the
\* C# source asserts: no class in it is empty or would be padded, nor holds an object
\* reference.
FitsClr(p, c) ==
  /\ Acyclic(p, c)
  /\ \A d \in Embedded(p, {c}) :
       /\ p.classes[d] # <<>> /\ TextsFit(p.classes[d], 2)
       /\ \A n \in Range(p.classes[d]) : n.tag # "Utf8Text"
       /\ ResolvedClassSize(p, d, {}) % Compiled("CSharp", p, d).align = 0

\* The generated source has the layout it is annotated with, or is refused.  The size
\* assertions of C++ and Rust are enough for that; C++ is refused for no other reason
\* than an empty class, the order of the classes, a cycle or a wide text; C# has no
\* assertion, and its layout may differ where the CLR pads.
SourceAgrees(p) ==
  /\ \A lang \in {"Cpp", "Rust"} : Compiles(lang, p) =>
       \A c \in Uuids(p) : LaidOutAsAnnotated(lang, p, c)
  /\ /\ DefinedBeforeUse(p)
     /\ \A c \in Uuids(p) : /\ Acyclic(p, c) /\ p.classes[c] # <<>>
                            /\ TextsFit(p.classes[c], WcharBytes)
     => Compiles("Cpp", p)
  /\ \A c \in Uuids(p) : FitsClr(p, c) => LaidOutAsAnnotated("CSharp", p, c)

\* The class view (flatten_nodes), the generated source (resolve_fields), the buffer
\* a snapshot reads (resolved_class_size) and the size scripts are told
\* (Project::resolved_class_size) describe one layout: for every class without an
\* embedding cycle, top-level rows sit at the offsets of the fields, every row lies
\* inside the class and inside the row it is nested in.  What a compiler accepts of the
\* generated source is that layout.
LayoutsAgree ==
  /\ SourceAgrees(project)
  /\ \A c \in Uuids(project) : Acyclic(project, c) =>
       LET all == Flatten(project, [collapsed |-> {}, expanded |-> {}], c, MaxDerefDepth)
           top == SelectSeq(all, LAMBDA r : Len(r.id) = 1)
           fields == ResolveFields(project, c)
           size == ResolvedClassSize(project, c, {})
       IN /\ size = ProjectClassSize(project, c)
          /\ Len(top) = Len(fields)
          /\ \A i \in 1 .. Len(top) : top[i].offset = fields[i].offset
          /\ \A i \in 1 .. Len(all) : all[i].offset + all[i].size <= size
          /\ \A i, j \in 1 .. Len(all) :
               all[j].id = Front(all[i].id) =>
                 /\ all[j].offset <= all[i].offset
                 /\ all[i].offset + all[i].size <= all[j].offset + all[j].size

\* Saving and opening again gives the same project: no class is lost, doubled or
\* moved, whatever sequence of additions and deletions made it.
RoundTrip == FromToml(ToToml(project)) = project

\* "Accept always targets the right class even if the user switches selection
\* mid-preview": with no other edit queued, a preview that goes away changes no class
\* but its own.
AcceptHitsItsClass ==
  [][preview # None /\ preview' = None /\ pending = <<>> =>
       \A c \in Uuids(project) \ {preview.target} : project'.classes[c] = project.classes[c]
    ]_wsVars

Dangling(p) ==
  \E c \in Uuids(p) : \E i \in 1 .. Len(p.classes[c]) :
    p.classes[c][i].target \notin Uuids(p) \cup {Nil}

Sound == ~Dangling(project) /\ (disk # None => ~Dangling(FromToml(disk.file)))
QueueSound ==
  \A i \in 1 .. Len(pending) :
    pending[i].kind \in {"SetPtrTarget", "SetInstance"} => pending[i].arg \in Uuids(project)

\* No step leaves a node that refers to a class the project does not have, as long as
\* the queued edits name classes that exist and the file on disk is sound.  (An edit
\* the picker queued before its class was deleted is the one way to make one.)
ReferencesResolve == [][Sound /\ QueueSound => ~Dangling(project')]_wsVars
=============================================================================
