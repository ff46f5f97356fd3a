SPECIFICATION FairSpec
CONSTANTS
  Threads = {t1, t2}
  Cpus = {c1, c2}
  Slots = {s1, s2}
  NoSlot = NoSlot
  RingDepth = 1
INVARIANTS
  HandlersSeeLiveSlots
  OneOwner
  ReferencesBalanced
  NoLostWakeup
PROPERTIES
  ImplementsSession
  TeardownTerminates
  TimedWaitReturns
CHECK_DEADLOCK FALSE
