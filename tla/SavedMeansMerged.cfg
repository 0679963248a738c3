\* Two users commit at the same time.
SPECIFICATION Spec
CONSTANTS
  User = {ann, bob}
  File = {f1, f2}
  base = base
  Edits = {x, y}
  Content <- Texts
  EmptyText = EmptyText
  Markers = Markers
  Absent = Absent
  Unmerged = Unmerged
  Kept = Kept
  Clean = Clean
  Nested = {}
  InitialTree <- StartTree
  Kinds = {"put", "commit"}
  MaxRequests = 4
SYMMETRY Symmetry
CHECK_DEADLOCK FALSE
INVARIANT SavedMeansMerged
