\* A new file in a folder the repository does not have yet.
SPECIFICATION Spec
CONSTANTS
  User = {ann, bob}
  File = {f1, f2}
  base = base
  Edits = {x, y}
  Content <- Texts
  EmptyText = EmptyText
  Markers = Markers
  Absent = Absent
  Unmerged = Unmerged
  Kept = Kept
  Clean = Clean
  Nested = {f2}
  InitialTree <- StartTree
  Kinds = {"put", "commit"}
  MaxRequests = 3
SYMMETRY Symmetry
CHECK_DEADLOCK FALSE
INVARIANT AutosavedRemain
