\* Two invocations of any commands implement the atomic register, and
\* each of them ends, under weak fairness of each process.
SPECIFICATION FairSpec
CONSTANTS
  Proc = {p1, p2}
  Mix = {"login", "status", "session", "dryrun", "logout", "doctor"}
  NoProc = NoProc
  NoFile = NoFile
  BadFile = BadFile
  NoRecord = NoRecord
  Denied = Denied
  NoUser = NoUser
  Subjects = {}
  Window = 1
  Timeout = 1
  Lifetimes = {1, 2}
  MaxTime = 1
  MaxGrant = 2
PROPERTIES
  ImplementsRegister
  EveryInvocationEnds
CHECK_DEADLOCK FALSE
