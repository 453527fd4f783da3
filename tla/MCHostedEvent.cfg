SPECIFICATION Spec
CONSTANTS
  Proc = {p1, p2}
  host = host
  guest = guest
  fan = fan
  Accounts = {guest, fan}
  Host = host
  Absent = Absent
  Null = Null
  Starts <- SmallStarts
  Values <- SmallValues
  Guests <- SmallGuests
  EndGrace = 0
  StartGrace = 1
  BlastSpan = 1
  BlastGrace = 1
  InviteLimit = 1
  BlastLimit = 1
  MaxTime = 1
  MaxMeddle = 1
SYMMETRY Symmetry
CHECK_DEADLOCK FALSE
INVARIANTS
  TypeOK
  NoUpdateIsLost
PROPERTIES
  RangeBrokenOnlyIfMoved
  OverfullOnlyIfMoved
  BlastReachesItsAudience
  RefusalIsDeserved
