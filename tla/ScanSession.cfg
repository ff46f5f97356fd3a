SPECIFICATION FairSpec
CONSTANTS
  Top = 6
  Radix = 2
  Gone = Gone
  None = None
  Width = 2
  Signed = TRUE
  CHUNK_SIZE = 3
  HISTORY_DEPTH = 2
  PROGRESS_INTERVAL = 2
  ResultLimit = 4
  Layouts <- MCLayouts
  Memories <- MCMemories
  Filters <- MCFilters
  Alignments = {1, 2}
  Compares = {"Unknown", "Exact", "Changed"}
  Needles <- MCNeedles
  MaxPasses = 3
  MaxChanges = 1
INVARIANTS UndoExact DeadTargetKeepsResults
PROPERTIES FirstScanExact NextScanExact PassEnds
CHECK_DEADLOCK FALSE
