\* Three invocations that sign in, share, renew or remove the file, with answers
\* of a lifetime the refresh window rejects and of one it admits.
SPECIFICATION Spec
CONSTANTS
  Proc = {p1, p2, p3}
  Mix = {"login", "session", "dryrun", "logout"}
  NoProc = NoProc
  NoFile = NoFile
  BadFile = BadFile
  NoRecord = NoRecord
  Denied = Denied
  NoUser = NoUser
  Subjects = {}
  Window = 1
  Timeout = 1
  Lifetimes = {1, 2}
  MaxTime = 1
  MaxGrant = 2
SYMMETRY Symmetry
INVARIANTS
  TypeOK
  RefreshSeesCurrentFile
  RejectedOnlyIfLost
  ReportedIsStored
  RetiredNeverReturns
PROPERTIES
  OnlyWritersWrite
CHECK_DEADLOCK FALSE
