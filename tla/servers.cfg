SPECIFICATION ServersFairSpec
CONSTANTS
  Instances = {i1}
  Baremetals = {b1}
  Ports = {p1}
  Subnets = {s1}
  FloatingIPs = {f1}
  Keys = {k1}
  Values = {v1}
  Trunk = Trunk
  None = None
  MaxChanges = 1
  MaxMishaps = 1
INVARIANTS ServersTypeOK ServersArrive
PROPERTIES LostFloatingIPStaysLost CutMetadataWedges Settles
