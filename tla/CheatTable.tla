----------------------------- MODULE CheatTable -----------------------------
(***************************************************************************)
(* The address list and freezing (model/cheat_table.rs, scan/freeze.rs,    *)
(* views/cheat_table_panel.rs, and the table and freeze routes of scripts, *)
(* the scanner and the spider).                                            *)
(*                                                                         *)
(* An entry has an address (a literal, or a formula that follows a pointer *)
(* of the target), a value type, and the text it is frozen to.  Every tick *)
(* derives the bytes to write from the entries as they are.  The target    *)
(* program writes, remaps and moves its pointer at any time.  A cell is two*)
(* bits: the narrow type u8 is its low bit, the wide types are both.       *)
(***************************************************************************)
EXTENDS Integers, Sequences, SequencesExt, FiniteSets

CONSTANTS
  Cells,          \* literal addresses
  ValueTypes,     \* types the user picks: a subset of u8, u32, i32, f32, bytes
  MaxEntries,     \* bound: rows of the table
  MaxTableOps     \* bound: operations of the user, scripts and target

ASSUME CheatTableAssumption ==
  /\ Cells # {} /\ Cells \subseteq Nat
  /\ ValueTypes \subseteq {"u8", "u32", "i32", "f32", "bytes"}
  /\ MaxEntries \in Nat /\ MaxTableOps \in Nat

Formula == -1            \* the address text that goes through the pointer
NoEntries == <<>>
EmptyText == 100         \* frozen_value ""
Dash == 101              \* what an unreadable entry shows
Texts == -2 .. 3
NoBytes == [wide |-> FALSE, bits |-> -1]

VARIABLES
  entries,        \* table.entries
  scriptFreezes,  \* script_freezes: mem.freeze
  cells,          \* the target's memory
  mapped,         \* the cells that are mapped
  pointer,        \* where the target's pointer points
  online,         \* a process is attached
  tableFile,      \* tables/<name>.toml, or NoFile
  tableOps        \* bound

targetState == <<cells, mapped, pointer>>
ctVars == <<entries, scriptFreezes, targetState, online, tableFile, tableOps>>

NoFile == [saved |-> FALSE, rows |-> NoEntries]
Entry(addr, type, frozen, text) == [addr |-> addr, type |-> type, frozen |-> frozen, text |-> text]

CtInit ==
  /\ entries = NoEntries /\ scriptFreezes = <<>>
  /\ cells = [c \in Cells |-> 2] /\ mapped = Cells /\ pointer = CHOOSE c \in Cells : TRUE
  /\ online = TRUE /\ tableFile = NoFile /\ tableOps = 0

TableOp == tableOps < MaxTableOps /\ tableOps' = tableOps + 1

-----------------------------------------------------------------------------
(* Text and bytes.                                                         *)

\* format_value_bytes: a float is shown with a fixed number of decimals.
Format(type, v) ==
  CASE type = "u8" -> v % 2
    [] type = "u32" -> v
    [] type = "i32" -> IF v > 1 THEN v - 4 ELSE v
    [] type = "f32" -> (v \div 2) * 2

\* Mutation: every type writes the whole cell.
ToBytesWide(type, text) ==
  IF text \in {EmptyText, Dash} \/ type = "bytes" THEN NoBytes
  ELSE [wide |-> TRUE, bits |-> text % 4]

\* value_text_to_bytes: unsigned text wraps into its type, signed text out of range
\* and the types without a width are refused.
ToBytes(type, text) ==
  IF \/ text \in {EmptyText, Dash} \/ type = "bytes"
     \/ type \in {"u8", "u32"} /\ text < 0
     \/ type = "i32" /\ text \notin -2 .. 1
    THEN NoBytes
    ELSE [wide |-> type # "u8", bits |-> IF type = "u8" THEN text % 2 ELSE text % 4]

Poke(v, bytes) == IF bytes.wide THEN bytes.bits ELSE (v \div 2) * 2 + bytes.bits

\* resolve_entry_addr: a literal needs no process, a formula does.
Resolves1(addr) == addr # Formula \/ online
ResolveAddr(addr) == IF addr = Formula THEN pointer ELSE addr

\* read_entry_value: what the row shows.
LiveText(e) ==
  IF online /\ ResolveAddr(e.addr) \in mapped /\ e.type # "bytes"
    THEN Format(e.type, cells[ResolveAddr(e.addr)])
    ELSE IF e.text # EmptyText THEN e.text ELSE Dash

-----------------------------------------------------------------------------
(* Freezing.                                                               *)

Freeze(addr, bytes) == [addr |-> addr, bytes |-> bytes]

\* FreezeSet::set: one entry per address, the last one wins.
SetFreeze(set, f) ==
  IF \E i \in 1 .. Len(set) : set[i].addr = f.addr
    THEN [i \in 1 .. Len(set) |-> IF set[i].addr = f.addr THEN f ELSE set[i]]
    ELSE Append(set, f)

\* tick_freeze takes the frozen entries that resolve and whose text has bytes.
Due(e) == e.frozen /\ Resolves1(e.addr)
BytesOf(e) == ToBytes(e.type, e.text)

FreezesOf(rows) ==
  LET upTo[n \in 0 .. Len(rows)] ==
        IF n = 0 THEN <<>>
        ELSE IF ~Due(rows[n]) \/ BytesOf(rows[n]) = NoBytes THEN upTo[n - 1]
        ELSE SetFreeze(upTo[n - 1], Freeze(ResolveAddr(rows[n].addr), BytesOf(rows[n])))
  IN upTo[Len(rows)]

\* Mutation: the first failed write ends the round.
ApplyUntilFailure(set, mem) ==
  LET ok == {n \in 0 .. Len(set) : \A i \in 1 .. n : set[i].addr \in mapped}
      upTo[n \in 0 .. Len(set)] ==
        IF n = 0 THEN mem
        ELSE IF n \in ok THEN [upTo[n - 1] EXCEPT ![set[n].addr] = Poke(@, set[n].bytes)]
        ELSE upTo[n - 1]
  IN upTo[Len(set)]

\* FreezeSet::apply: a write that fails does not stop the others.
Apply(set, mem) ==
  LET upTo[n \in 0 .. Len(set)] ==
        IF n = 0 THEN mem
        ELSE IF set[n].addr \in mapped
          THEN [upTo[n - 1] EXCEPT ![set[n].addr] = Poke(@, set[n].bytes)]
        ELSE upTo[n - 1]
  IN upTo[Len(set)]

\* A frame whose table freeze is due.
TickFreeze ==
  /\ online
  /\ cells' = Apply(FreezesOf(entries), cells)
  /\ UNCHANGED <<entries, scriptFreezes, mapped, pointer, online, tableFile, tableOps>>

\* tick_script_freezes keeps its own clock.
TickScriptFreezes ==
  /\ online /\ scriptFreezes # <<>>
  /\ cells' = Apply([i \in 1 .. Len(scriptFreezes) |->
                       Freeze(scriptFreezes[i].addr, BytesOf(scriptFreezes[i]))],
                    cells)
  /\ UNCHANGED <<entries, scriptFreezes, mapped, pointer, online, tableFile, tableOps>>

-----------------------------------------------------------------------------
(* The panel.                                                              *)

SetTable(rows) ==
  /\ entries' = rows
  /\ UNCHANGED <<scriptFreezes, targetState, online, tableFile>>
Push(e) == Len(entries) < MaxEntries /\ SetTable(Append(entries, e))
SetRow(i, e) == SetTable([entries EXCEPT ![i] = e])

NewTable == TableOp /\ entries # NoEntries /\ SetTable(NoEntries)
AddRow(addr, type) == TableOp /\ Push(Entry(addr, type, FALSE, EmptyText))

Toggled(e, text) == [e EXCEPT !.frozen = ~@, !.text = IF e.frozen THEN EmptyText ELSE text]
ToggleFreeze(i) == TableOp /\ SetRow(i, Toggled(entries[i], LiveText(entries[i])))

EditAddress(i, addr) == TableOp /\ SetRow(i, [entries[i] EXCEPT !.addr = addr])
EditType(i, type) == TableOp /\ SetRow(i, [entries[i] EXCEPT !.type = type])
RemoveRow(i) == TableOp /\ SetTable(RemoveAt(entries, i))

\* Typing a value writes it; a frozen entry is pinned to it if the write succeeded, as
\* that of a type without a width does without touching the target.
WriteValue(i, text) ==
  LET e == entries[i]
      at == ResolveAddr(e.addr)
      bytes == ToBytes(e.type, text)
      ok == e.type = "bytes" \/ (at \in mapped /\ bytes # NoBytes)
  IN /\ TableOp /\ online
     /\ entries' = IF ok /\ e.frozen THEN [entries EXCEPT ![i].text = text] ELSE entries
     /\ cells' = IF ok /\ e.type # "bytes" THEN [cells EXCEPT ![at] = Poke(@, bytes)] ELSE cells
     /\ UNCHANGED <<scriptFreezes, mapped, pointer, online, tableFile>>

\* Ctrl+F: freeze all, or unfreeze all when all are frozen.
ToggleFreezeAll ==
  LET all == entries # NoEntries /\ \A i \in 1 .. Len(entries) : entries[i].frozen
  IN /\ TableOp
     /\ SetTable([i \in 1 .. Len(entries) |->
                    [entries[i] EXCEPT !.frozen = ~all,
                                       !.text = IF all THEN EmptyText ELSE LiveText(entries[i])]])

SaveTable ==
  /\ TableOp /\ tableFile' = [saved |-> TRUE, rows |-> entries]
  /\ UNCHANGED <<entries, scriptFreezes, targetState, online>>
LoadTable == TableOp /\ tableFile.saved /\ SetTable(tableFile.rows)

\* The Freeze button of a scan result (a literal) or a spider hit (a formula): the
\* first row with that address text is toggled, or a frozen row is added.
FreezeRoute(addr, type) ==
  LET shown == LiveText(Entry(addr, type, FALSE, EmptyText))
      i == SelectInSeq(entries, LAMBDA e : e.addr = addr)
  IN TableOp /\ IF i > 0 THEN SetRow(i, Toggled(entries[i], shown)) ELSE Push(Entry(addr, type, TRUE, shown))

-----------------------------------------------------------------------------
(* Scripts.                                                                *)

TableAdd(addr, type, text) == TableOp /\ Push(Entry(addr, type, TRUE, text))
TableFreeze(i, text) == TableOp /\ SetRow(i, [entries[i] EXCEPT !.frozen = TRUE, !.text = text])
TableRefreeze(i) == TableOp /\ SetRow(i, [entries[i] EXCEPT !.frozen = TRUE])
\* unfreeze keeps the text.
TableUnfreeze(i) == TableOp /\ SetRow(i, [entries[i] EXCEPT !.frozen = FALSE])

SetScriptFreezes(f) ==
  /\ TableOp /\ scriptFreezes' = f
  /\ UNCHANGED <<entries, targetState, online, tableFile>>

MemFreeze(addr, type, text) ==
  /\ ToBytes(type, text) # NoBytes
  /\ SetScriptFreezes(SetFreeze(scriptFreezes, [addr |-> addr, type |-> type, text |-> text]))

\* mem.unfreeze keeps the freezes of other addresses.
Without(set, addr) ==
  LET upTo[n \in 0 .. Len(set)] ==
        IF n = 0 THEN <<>>
        ELSE IF set[n].addr = addr THEN upTo[n - 1] ELSE Append(upTo[n - 1], set[n])
  IN upTo[Len(set)]
MemUnfreeze(addr) == SetScriptFreezes(Without(scriptFreezes, addr))

\* replace_project drops the direct freezes of the old project's scripts.
ProjectReplaced == scriptFreezes # <<>> /\ SetScriptFreezes(<<>>)

-----------------------------------------------------------------------------
(* The target and the session.                                             *)

TargetWrites(c, v) ==
  /\ TableOp /\ cells' = [cells EXCEPT ![c] = v]
  /\ UNCHANGED <<entries, scriptFreezes, mapped, pointer, online, tableFile>>
TargetRemaps(c) ==
  /\ TableOp /\ mapped' = IF c \in mapped THEN mapped \ {c} ELSE mapped \cup {c}
  /\ UNCHANGED <<entries, scriptFreezes, cells, pointer, online, tableFile>>
TargetMovesPointer(c) ==
  /\ TableOp /\ pointer # c /\ pointer' = c
  /\ UNCHANGED <<entries, scriptFreezes, cells, mapped, online, tableFile>>

\* Detaching and attaching keep the table and the script freezes.
CtAttachOrDetach ==
  /\ TableOp /\ online' = ~online
  /\ UNCHANGED <<entries, scriptFreezes, targetState, tableFile>>

CtNext ==
  \/ (TickFreeze \/ TickScriptFreezes)
  \/ NewTable \/ ToggleFreezeAll \/ SaveTable \/ LoadTable \/ ProjectReplaced \/ CtAttachOrDetach
  \/ \E addr \in Cells \cup {Formula}, type \in ValueTypes :
       \/ AddRow(addr, type) \/ (type # "bytes" /\ FreezeRoute(addr, type))
       \/ TableAdd(addr, type, 3)
  \/ \E i \in 1 .. Len(entries) :
       \/ ToggleFreeze(i) \/ RemoveRow(i) \/ TableRefreeze(i) \/ TableUnfreeze(i)
       \/ EditAddress(i, Formula)
       \/ \E type \in ValueTypes : EditType(i, type)
       \/ \E text \in {-2, 3} : WriteValue(i, text) \/ TableFreeze(i, text)
  \/ \E c \in Cells :
       \/ MemFreeze(c, "u8", 3) \/ MemUnfreeze(c)
       \/ TargetWrites(c, 1) \/ TargetRemaps(c) \/ TargetMovesPointer(c)

CtSpec == CtInit /\ [][CtNext]_ctVars /\ WF_ctVars(TickFreeze)

-----------------------------------------------------------------------------
(* Properties.                                                             *)

Frozen == {i \in 1 .. Len(entries) : entries[i].frozen}
Pins(i) == BytesOf(entries[i])

\* Freezing at the value on screen does not disturb the target: a tick over frozen
\* entries that all show their current value writes what is already there, although
\* the value went through text and back, and several entries of different width may
\* name one cell.  (A float does not survive its fixed number of decimals.)
FreezeIsStable ==
  [][cells' # cells /\ TickFreeze =>
       \E i \in Frozen : entries[i].type = "f32" \/ entries[i].text # LiveText(entries[i])]_ctVars

Alone(i) ==
  /\ \A j \in Frozen \ {i} : ResolveAddr(entries[j].addr) # ResolveAddr(entries[i].addr)
  /\ \A j \in 1 .. Len(scriptFreezes) : scriptFreezes[j].addr # ResolveAddr(entries[i].addr)

\* A frozen value is pinned again and again, whatever the target does and although
\* the writes of other entries fail: as long as it is the only freeze of a mapped
\* cell, the cell holds its bytes infinitely often.
FrozenStaysPinned ==
  \A i \in 1 .. MaxEntries :
    []<>(online /\ i \in Frozen =>
           \/ Pins(i) = NoBytes \/ ~Alone(i) \/ ResolveAddr(entries[i].addr) \notin mapped
           \/ Poke(cells[ResolveAddr(entries[i].addr)], Pins(i)) = cells[ResolveAddr(entries[i].addr)])
=============================================================================
