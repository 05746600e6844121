SPECIFICATION Spec
CONSTANTS
  Names = {a, b}
  Flavors = {f1, f2}
  Sizes = {s1, s2}
  NoName = NoName
  Configs <- ListsUpToTwo
  MaxFailures = 1
  MaxRemovals = 0
  MaxEdits = 2
SYMMETRY Renamings
INVARIANT NeverZeroPools
