SPECIFICATION FairSpec
CONSTANTS
  Names = {a, b}
  Flavors = {f1, f2}
  Sizes = {s1, s2}
  NoName = NoName
  Configs <- ListsUpToTwo
  MaxFailures = 1
  MaxRemovals = 1
  MaxEdits = 2
INVARIANTS MirroredNeverEmpty MirroredArrives
PROPERTIES NoCollateral Converges
