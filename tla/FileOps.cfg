\* All the file operations; four requests, enough for a clash.
SPECIFICATION Spec
CONSTANTS
  User = {ann, bob}
  File = {f1, f2}
  base = base
  Edits = {x, y}
  Content <- Texts
  EmptyText = EmptyText
  Markers = Markers
  Absent = Absent
  Unmerged = Unmerged
  Kept = Kept
  Clean = Clean
  Nested = {}
  InitialTree <- StartTree
  Kinds = {"put", "commit", "del", "cp", "mv", "co", "revert", "list"}
  MaxRequests = 4
SYMMETRY Symmetry
CHECK_DEADLOCK FALSE
INVARIANTS
  TypeOK
  AutosavedRemain
PROPERTIES
  PushesOnlyOwnChanges
