SPECIFICATION FairSpec
CONSTANTS
  Threads = {t1}
  Users = {u1}
  Snaps = {a1, a2}
  NoSnap = NoSnap
  MaxEdits = 2
  Sessions = {}
  NoSession = NoSession
  Admin = Admin
  MaxFailures = 0
PROPERTIES EditsTakeEffect
CHECK_DEADLOCK FALSE
