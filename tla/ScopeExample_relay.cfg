SPECIFICATION FairSpec
CONSTANTS
  RingSize = 2
  Frames = {1, 2}
  MinLen = 1
  MaxCycles = 3
INVARIANTS
  SlicesInBounds
  NoSleepOverMessages
  FreshDataAnnounced
PROPERTIES
  FreshDataIsRendered
  AwakeRelayIsJoined
CHECK_DEADLOCK FALSE
