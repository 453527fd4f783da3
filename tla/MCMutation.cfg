\* Two invocations of which each may wait, crash, lose its answer or be
\* overtaken, on an event whose cohosts a third party changes.
SPECIFICATION FairSpec
CONSTANTS
  Proc = {p1, p2}
  Mix <- RivalLines
  Unread = Unread
  BlastLimit = 1
  MaxBlasts = 1
  Varying = {"cohost"}
  MaxMeddle = 1
INVARIANTS
  AtMostOnce
PROPERTIES
  EveryInvocationAnswers
CHECK_DEADLOCK FALSE
