\* Two invocations of any commands, a longer clock, and tokens that may be
\* opaque.
SPECIFICATION Spec
CONSTANTS
  Proc = {p1, p2}
  Mix = {"login", "status", "session", "dryrun", "logout", "doctor"}
  NoProc = NoProc
  NoFile = NoFile
  BadFile = BadFile
  NoRecord = NoRecord
  Denied = Denied
  NoUser = NoUser
  Subjects = {u1}
  Window = 1
  Timeout = 1
  Lifetimes = {1, 2}
  MaxTime = 2
  MaxGrant = 2
SYMMETRY Symmetry
INVARIANTS
  HealthyIsAlive
PROPERTIES
  SessionIsAlive
  RefreshKeepsUser
CHECK_DEADLOCK FALSE
