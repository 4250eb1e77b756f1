SPECIFICATION HostFairSpec
CONSTANTS
  p1 = p1
  Ports = {p1}
  Faults = {"iterator", "reentry", "collector"}
  MaxNested = 2
PROPERTY ReclaimedOncePublished
