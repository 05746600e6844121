SPECIFICATION Spec
CONSTANTS
  Keys = {k1, k2, k3}
  Lists <- ListsUpToThree
  MaxFailures = 1
  MaxEdits = 2
SYMMETRY Renamings
INVARIANT NeverLockedOut
PROPERTIES UpdateArrives DriftStays
