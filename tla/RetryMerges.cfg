\* A conflict, and the second attempt the user is told to make.
SPECIFICATION Spec
CONSTANTS
  User = {ann, bob}
  File = {f1}
  base = base
  Edits = {x, y, z}
  Content <- Texts
  EmptyText = EmptyText
  Markers = Markers
  Absent = Absent
  Unmerged = Unmerged
  Kept = Kept
  Clean = Clean
  Nested = {}
  InitialTree <- StartTree
  Kinds = {"put", "commit"}
  MaxRequests = 6
SYMMETRY Symmetry
CHECK_DEADLOCK FALSE
INVARIANT RetryMerges
