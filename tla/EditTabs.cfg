\* Two tabs and a user who waits for the answers.
SPECIFICATION Spec
CONSTANTS
  Tab = {t1, t2}
  NoTab = NoTab
  Typed = {x}
  Empty = Empty
  First = First
  Other = Other
  Mixed = Mixed
  Undefined = Undefined
  Nothing = Nothing
  Patient = {"load", "save"}
  MaxVersions = 4
  MaxRequests = 3
CHECK_DEADLOCK FALSE
INVARIANTS
  TypeOK
  FocusShown
  UnmodifiedMeansSaved
  EditsKept
PROPERTIES
  ClosesOnlySaved
