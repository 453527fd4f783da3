\* The exit code of an unknown contact.
SPECIFICATION Spec
CONSTANTS
  Proc = {p1}
  Mix <- InviteLines
  Unread = Unread
  BlastLimit = 1
  MaxBlasts = 1
  Varying = {"contacts"}
  MaxMeddle = 0
INVARIANTS
  NotFoundExitsFive
CHECK_DEADLOCK FALSE
