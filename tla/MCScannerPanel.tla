--------------------------- MODULE MCScannerPanel ---------------------------
(* The scanner panel over two value types, one module and scan ranges of   *)
(* every sort: off, of modules, malformed, without a memory type, inverted *)
(* and a window.                                                           *)
EXTENDS ScannerPanel, TLC
MCLoadedModules == "game" :> <<2, 6>>
MCScope(enabled, start, stop, kinds) ==
  [enabled |-> enabled, start |-> start, stop |-> stop, kinds |-> kinds]
MCScopes ==
  {MCScope(FALSE, Blank, Blank, {}), MCScope(TRUE, Blank, Blank, {"private"}), MCScope(TRUE, BadHex, Blank, {"private"}),
   MCScope(TRUE, 5, Blank, {}), MCScope(TRUE, 5, 3, {"image"}), MCScope(TRUE, Blank, 4, {"image"})}
=============================================================================
