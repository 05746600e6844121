SPECIFICATION InterfacesFairSpec
CONSTANTS
  Names = {n1, n2, n3}
  Subnets = {s1, s2}
  Groups = {g1, g2}
  FloatingIPs = {f1}
  None = None
  n1 = n1
  s1 = s1
  g1 = g1
  Configurations <- Chosen
  MaxMishaps = 1
  MaxChanges = 2
INVARIANTS InterfacesTypeOK InterfacesArrive
PROPERTIES ConfiguredStaysAttached EditUnderTheNameIsIgnored Settles
