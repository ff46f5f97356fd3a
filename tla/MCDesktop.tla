----------------------------- MODULE MCDesktop ------------------------------
(***************************************************************************)
(* The tools of the desktop application on one instance: the debugger, the *)
(* workspace, the address list, the code browser, the path searches and    *)
(* the scanner panel.  They are separate state machines (what they share,  *)
(* the attach and detach of the app, is AppSession), so their product adds *)
(* no behaviour to any of them: the initial state picks the tool in use and*)
(* the others stay as they are.                                            *)
(***************************************************************************)
EXTENDS DebuggerClient, Workspace, CheatTable, CodeBrowser, PathScans, MCScannerPanel

VARIABLE tool

Tools == {"debugger", "workspace", "table", "code", "paths", "scanner"}

(* Workspace: two classes, one with a pointer; the other tools run with an *)
(* empty project.                                                          *)

Empty == Project(<<>>, <<>>)
MCFirst == {Empty,
            Project([c \in {"A", "B"} |-> <<Construct(IF c = "A" THEN "Hex8" ELSE "Pointer")>>],
                    <<"A", "B">>)}
MCBodies == {<<Construct("Pointer")>>}

\* A choice an initial state has is only made for the tool in use.
Pinned(t, x, S) == tool # t => x = CHOOSE v \in S : TRUE

DesktopInit ==
  /\ tool \in Tools
  /\ DbgInit /\ WsInit /\ CtInit /\ BrInit /\ PathInit /\ ScanInit
  /\ (tool = "workspace") = (project # Empty)
  /\ Pinned("code", code, Codes)
  /\ Pinned("paths", words, Memories)

desktopVars == <<tool, dbgVars, wsVars, ctVars, brVars, pathVars, scanVars>>

DebuggerUsed == tool = "debugger" /\ DbgNext /\ UNCHANGED <<tool, wsVars, ctVars, brVars, pathVars, scanVars>>
WorkspaceUsed == tool = "workspace" /\ WsNext /\ UNCHANGED <<tool, dbgVars, ctVars, brVars, pathVars, scanVars>>
TableUsed == tool = "table" /\ CtNext /\ UNCHANGED <<tool, dbgVars, wsVars, brVars, pathVars, scanVars>>
CodeUsed == tool = "code" /\ BrNext /\ UNCHANGED <<tool, dbgVars, wsVars, ctVars, pathVars, scanVars>>
PathsUsed == tool = "paths" /\ PathNext /\ UNCHANGED <<tool, dbgVars, wsVars, ctVars, brVars, scanVars>>
ScannerUsed == tool = "scanner" /\ ScanNext /\ UNCHANGED <<tool, dbgVars, wsVars, ctVars, brVars, pathVars>>

DesktopNext ==
  DebuggerUsed \/ WorkspaceUsed \/ TableUsed \/ CodeUsed \/ PathsUsed \/ ScannerUsed

\* The freezing of the address list runs in every frame.
FreezeTicks == tool = "table" /\ TickFreeze /\ UNCHANGED <<tool, dbgVars, wsVars, brVars, pathVars, scanVars>>

DesktopSpec == DesktopInit /\ [][DesktopNext]_desktopVars /\ WF_desktopVars(FreezeTicks)

---------------------------------------------------------------------------
(* CodeBrowser: a module of one region and one of three, the middle one    *)
(* without an instruction, and two-byte instructions on the border of a    *)
(* chunk and of a region.                                                  *)

MCRegions == 1 :> {<<1, 3>>} @@ 4 :> {<<4, 8>>, <<8, 9>>, <<9, 11>>}
MCCodes == {[a \in 1 .. 11 |-> IF a = 5 THEN 2 ELSE IF a = 8 THEN 0 ELSE 1],
            [a \in 1 .. 11 |-> IF a \in {4, 10} THEN 2 ELSE IF a \in {6, 8} THEN 0 ELSE 1]}
MCBranches == {<<5, 9>>, <<6, 9>>, <<9, 4>>, <<4, 1>>}
MCLoads == {<<7, 12>>, <<10, 13>>}
MCStrings == 1 :> {12} @@ 4 :> {13}

(* PathScans: an image with static pointers, a heap, read-only code and    *)
(* a second heap that may be unmapped.                                     *)

Mapping(lo, hi, kind, write) ==
  [lo |-> lo, hi |-> hi, kind |-> kind, write |-> write, exec |-> ~write, cow |-> FALSE]
MCSections == <<Mapping(2, 6, "image", TRUE), Mapping(8, 18, "private", TRUE),
                Mapping(20, 22, "image", FALSE), Mapping(24, 26, "private", TRUE)>>
MCImage == <<2, 6>>
MCZero == [c \in 2 .. 26 |-> 0]

\* A static pointer to an object at 8 that points to one at 14, which points back;
\* the second memory has a diamond and a second root in the image.
MCMemories ==
  {[MCZero EXCEPT ![2] = 8, ![8] = 14, ![11] = 50, ![14] = 8, ![16] = 24, ![12] = 20, ![24] = 50],
   [MCZero EXCEPT ![2] = 8, ![4] = 14, ![8] = 14, ![10] = 24, ![14] = 24, ![16] = 2, ![24] = 50]}

\* A struct, one at an odd address, one whose middle is not mapped and one that
\* starts where nothing is mapped.
MCSearch(root, align, depth, cmp, needle) ==
  [root |-> root, align |-> align, depth |-> depth, cmp |-> cmp, needle |-> needle]
MCSearches == {MCSearch(8, 1, 3, "exact", 50), MCSearch(9, 2, 1, "greater", 5),
               MCSearch(5, 0, 0, "greater", 5), MCSearch(6, 1, 9, "exact", 50)}
MCRefines == {<<"changed", 0>>, <<"exact", 50>>}
MCStores == {<<24, 51>>, <<12, 8>>}
=============================================================================
