SPECIFICATION Spec
CONSTANTS
  W = 4
  Sandboxes = {s1, s2, s3}
  Devices <- MCDevices
  Options <- MCOptions
  Neighbours <- MCNeighbours
  HostGw = 12
  Probes = 2
  MaxMissed = 0
SYMMETRY Symmetry
INVARIANT AddressesDistinct
INVARIANT AddressesFit
CHECK_DEADLOCK FALSE
