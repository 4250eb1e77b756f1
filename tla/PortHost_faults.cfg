SPECIFICATION HostSpec
CONSTANTS
  p1 = p1
  p2 = p2
  Ports = {p1, p2}
  Faults = {"iterator", "reentry", "collector"}
  MaxNested = 1
SYMMETRY Symmetry
INVARIANTS
  HostInv
  OwnPortsRegistered
  PeriodKeepsData
PROPERTIES
  CallRestores
  CollectionReturns
