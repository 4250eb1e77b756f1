SPECIFICATION FairSpec
CONSTANTS
  m1 = m1
  m2 = m2
  Msg = {m1, m2}
  MaxSent = 4
INVARIANTS
  PipeInv
  InOrderNoLoss
PROPERTIES
  ImplementsMailbox
  DeactivateEnds
  EverySentIsHandled
