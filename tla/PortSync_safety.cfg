SPECIFICATION Spec
CONSTANTS
  p1 = p1
  p2 = p2
  p3 = p3
  Ports = {p1, p2, p3}
SYMMETRY Symmetry
INVARIANTS
  IInv
  NoDataRace
  CycleSeesRegistered
  NextCycleSeesPorts
  NoGarbageWithoutCollector
  NoLeakAfterDrop
PROPERTIES
  ViewStable
  ImplementsPortView
