SPECIFICATION Spec
CONSTANT NotifySetters <- MCNotifySetters
INVARIANT NoFreedCallback
