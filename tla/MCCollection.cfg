\* Three invocations race for the key and pass their cursors on, page by page,
\* to the same and to other listings, while the collection changes.
SPECIFICATION Spec
CONSTANTS
  Proc = {p1, p2, p3}
  Filters <- MCFilters
  Contents <- MCContents
  Items <- MCItems
  View <- MCView
  Limits <- MCLimits
  None = None
  BadKey = BadKey
  Malformed = Malformed
SYMMETRY Symmetry
INVARIANTS
  TypeOK
  PagesJoin
  CursorsAdvance
  GenuineCursorOpens
  IdentityOnce
