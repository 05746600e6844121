SPECIFICATION Spec
CONSTANTS
  Kinds <- ProviderKinds
  Table <- TableOfKinds
  CarefulKinds <- ContractKinds
  LeakyKinds <- Leaky
  WedgingKinds <- Wedging
  Objects = {o1, o2, o3, o4, o5}
  None = None
  MaxRefusals = 2
  MaxCuts = 2
  MaxChanges = 3
SYMMETRY Identities
INVARIANT LeaksAreFailures
PROPERTIES LostObjectWedges KeepsContract
