SPECIFICATION DesktopSpec
CONSTANTS
  Depth = 2
  Addrs = {a1}
  MaxIds = 2
  MaxEvents = 1
  LogBound = 2
  I32Max = 3
  BpKinds = {"HW-Write", "Uprobe"}
  BpLens = {3, 4}
  ClassIds = {"A", "B", "C"}
  Nil = Nil
  WcharBytes = 4
  FirstProjects <- MCFirst
  NewTags = {"Hex8", "Utf16Text"}
  ByteCounts = {9}
  ScriptOffsets = {0, 8}
  DissectBodies <- MCBodies
  MaxDerefDepth = 2
  MaxOps = 3
  Cells = {1, 2}
  ValueTypes = {"u8", "i32", "f32", "bytes"}
  MaxEntries = 2
  MaxTableOps = 3
  ModuleRegions <- MCRegions
  Codes <- MCCodes
  Branches <- MCBranches
  Loads <- MCLoads
  Strings <- MCStrings
  FirstLoaded = {4}
  JumpTargets = {6, 9}
  ChunkBytes = 2
  Overlap = 2
  MaxListing = 4
  HistoryCap = 1
  MaxBrowseOps = 4
  AddrLimit = 1000
  MaxNesting = 8
  Memories <- MCMemories
  Sections <- MCSections
  ModuleName = "game"
  Image <- MCImage
  TargetStores <- MCStores
  Searches <- MCSearches
  Refines <- MCRefines
  Goals = {16, 25}
  Psize = 2
  StructSize = 4
  PageCells = 2
  SpiderDepth = 2
  MaxHits = 3
  MaxNodes = 3
  ProgressInterval = 2
  ChainDepth = 3
  ChainOffset = 3
  MaxPaths = 2
  MaxMapEntries = 7
  MaxPathOps = 3
  ScanTypes = {4, 8}
  LoadedModules <- MCLoadedModules
  Scopes <- MCScopes
  AddrTop = 9
  MaxScans = 3
  MaxPanelOps = 3
INVARIANTS
  ListTracksSession HitsDecodeRight
  LayoutsAgree RoundTrip
  ListingExact CachesMatch
  SpiderExact PathsExact
  TableOfSession
PROPERTIES
  AcceptHitsItsClass ReferencesResolve
  FreezeIsStable FrozenStaysPinned
  DissectExact
CHECK_DEADLOCK FALSE
