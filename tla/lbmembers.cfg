SPECIFICATION FairSpec
CONSTANTS
  Members = {m1, m2, m3}
  Values = {v1, v2}
  Absent = Absent
  Nobody = Nobody
  Parallelism = 3
  MaxFailures = 1
  MaxEdits = 1
PROPERTIES GhostStays RunIsExact UpdatesHeal
