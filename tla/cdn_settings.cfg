SPECIFICATION FairSpec
CONSTANTS
  Shieldings = {s1, s2}
  AppliedPresets = {a1}
  CdnResources = {r1, r2}
  Values = {v1, v2}
  Absent = Absent
  Unset = Unset
  Nobody = Nobody
  MaxFailures = 1
  MaxEdits = 1
  MaxOutside = 1
INVARIANTS ReadsItsOwn OrphansExplained
PROPERTIES FailedMoveIsForgotten Settles
