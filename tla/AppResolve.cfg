SPECIFICATION Spec
CONSTANTS
  Pids = {p1, p2}
  NoPid = NoPid
  Classes = {c1, c2}
  NoClass = NoClass
  PartSets = {{"scanner"}, {"pointer_scan", "debugger"}, {"spider", "script_scanner"}, {"disassembly"}}
SYMMETRY Symmetry
INVARIANTS BaseFollowsProcess
CHECK_DEADLOCK FALSE
