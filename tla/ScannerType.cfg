SPECIFICATION ScanSpec
CONSTANTS
  ScanTypes = {4, 8}
  LoadedModules <- MCLoadedModules
  Scopes <- MCScopes
  AddrTop = 9
  MaxScans = 3
  MaxPanelOps = 3
INVARIANT SessionTypeFixed
CHECK_DEADLOCK FALSE
