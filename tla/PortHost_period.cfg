SPECIFICATION HostSpec
CONSTANTS
  p1 = p1
  p2 = p2
  Ports = {p1, p2}
  Faults = {}
  MaxNested = 0
INVARIANT WholePeriodKeepsData
