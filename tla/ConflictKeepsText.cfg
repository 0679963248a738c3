\* A save that conflicts with another user's.
SPECIFICATION Spec
CONSTANTS
  Tab = {t1}
  NoTab = NoTab
  Typed = {x}
  Empty = Empty
  First = First
  Other = Other
  Mixed = Mixed
  Undefined = Undefined
  Nothing = Nothing
  Patient = {"load", "save"}
  MaxVersions = 4
  MaxRequests = 4
CHECK_DEADLOCK FALSE
INVARIANT ConflictKeepsText
