SPECIFICATION Spec
CONSTANTS
  Threads = {t1, t2}
  Cpus = {c1}
  Slots = {s1}
  NoSlot = NoSlot
  RingDepth = 1
INVARIANT BpSetKeepsItsSlot
CHECK_DEADLOCK FALSE
