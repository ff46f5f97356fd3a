SPECIFICATION Spec
CONSTANTS
  Threads = {t1, t2}
  Users = {u1}
  Snaps = {a1, a2}
  NoSnap = NoSnap
  MaxEdits = 2
  Sessions = {s1}
  NoSession = NoSession
  Admin = Admin
  MaxFailures = 2
SYMMETRY Symmetry
INVARIANTS ReadersSeeLiveSnapshots UpToDateMeansCurrent
  RevokedCallersRefused LockIsEarned UnloadedIsClean
CHECK_DEADLOCK FALSE
