SPECIFICATION Spec
CONSTANT NotifySetters <- MCNotifySetters
INVARIANTS
  ActInv
  OwnHandlersCalled
  LeftoversOnlyWithoutHandler
  TimebaseOwned
