\* Two requests at a time from the team and the reviewer.
SPECIFICATION Spec
CONSTANTS
  Process = {p1, p2}
  Field = {name}
  image = image
  Value = {v, w}
  None = None
  MaxRequests = 5
INVARIANTS
  TypeOK
  LiveWasApproved
  LiveImageApproved
  ReviewedWasJudged
