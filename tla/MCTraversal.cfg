\* Remotes that list in order, up to one item above the bound, and remotes
\* that answer anything.
SPECIFICATION Spec
CONSTANTS
  Items <- MCItems
  Collections <- MCCollections
  OddPages <- MCOddPages
  OddCursors = {1, 2, 3, 4}
  PageSize = 2
  MaxPages = 3
  MaxRequests = 3
  None = None
  Absent = Absent
  Null = Null
  Blank = Blank
CHECK_DEADLOCK FALSE
INVARIANTS
  TypeOK
  WholeOrNothing
  WorkIsBounded
  NoPageTwice
  FitsIsTaken
PROPERTIES
  EveryReadEnds
