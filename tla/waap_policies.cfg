SPECIFICATION FairSpec
CONSTANTS
  r1 = r1
  r2 = r2
  p1 = p1
  p2 = p2
  Resources = {r1, r2}
  Policies = {p1, p2}
  Owned <- Overlapping
  Values = {v1, v2}
  Default = v1
  Unset = Unset
  MaxFailures = 2
  MaxEdits = 1
  MaxOutside = 1
INVARIANT HalfWay
PROPERTY Settles
