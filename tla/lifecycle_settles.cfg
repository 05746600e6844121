SPECIFICATION FairSpec
CONSTANTS
  Kinds <- SelfHealingKinds
  Table <- TableOfKinds
  CarefulKinds = {}
  LeakyKinds = {}
  WedgingKinds = {}
  Objects = {o1, o2, o3, o4}
  None = None
  MaxRefusals = 1
  MaxCuts = 2
  MaxChanges = 2
PROPERTY Settles
