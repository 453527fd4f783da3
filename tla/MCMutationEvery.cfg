\* One invocation of any command, with a remote that changes once.
SPECIFICATION Spec
CONSTANTS
  Proc = {p1}
  Mix <- AllLines
  Unread = Unread
  BlastLimit = 1
  MaxBlasts = 2
  Varying = {"owner", "published", "open", "contacts", "cohost", "link", "guests", "blasts"}
  MaxMeddle = 1
INVARIANTS
  TypeOK
  AnswerIsHonest
  ConsentBeforeHarm
PROPERTIES
  StaleOnlyIfMoved
CHECK_DEADLOCK FALSE
