\* A user who goes on typing while the save is under way.
SPECIFICATION Spec
CONSTANTS
  Tab = {t1}
  NoTab = NoTab
  Typed = {x}
  Empty = Empty
  First = First
  Other = Other
  Mixed = Mixed
  Undefined = Undefined
  Nothing = Nothing
  Patient = {"load"}
  MaxVersions = 4
  MaxRequests = 4
CHECK_DEADLOCK FALSE
PROPERTY ClosesOnlySaved
