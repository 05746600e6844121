SPECIFICATION FairSpec
CONSTANTS
  Clusters = {c1, c2}
  Interfaces = {i1, i2}
  Values = {v1, v2}
  MaxServers = 2
  MaxFailures = 1
  MaxEdits = 2
INVARIANTS UpdateArrives MirroredNeverCutOff
PROPERTIES HalfAttachedIsSilent HalfDetachedIsStuck Settles
