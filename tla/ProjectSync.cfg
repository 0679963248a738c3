\* Two users, two files, one of them new: every interleaving of saves and commits.
SPECIFICATION Spec
CONSTANTS
  User = {ann, bob}
  File = {f1, f2}
  base = base
  Edits = {x, y}
  Content <- Texts
  EmptyText = EmptyText
  Markers = Markers
  Absent = Absent
  Unmerged = Unmerged
  Kept = Kept
  Clean = Clean
  Nested = {}
  InitialTree <- StartTree
  Kinds = {"put", "commit"}
  MaxRequests = 6
SYMMETRY Symmetry
VIEW Seen
CHECK_DEADLOCK FALSE
INVARIANTS
  AutosavedRemain
  UniqueMergeBase
  UnracedCommitsLand
PROPERTIES
  HistoryKept
  PushesOnlyOwnChanges
