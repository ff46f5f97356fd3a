SPECIFICATION FairSpec
CONSTANTS
  Pids = {p1, p2}
  NoPid = NoPid
  Classes = {c1}
  NoClass = NoClass
  PartSets = {{"scanner"}, {"pointer_scan", "debugger"}, {"spider", "script_scanner"}, {"disassembly"}}
INVARIANTS NothingStaleWithoutSwitch ResetPanelsFollow ScriptsKnowTheTarget
  BaseOfSelectedClass
PROPERTIES JobsDrain
CHECK_DEADLOCK FALSE
