SPECIFICATION FairSpec
CONSTANTS
  Slot = {t1, t2}
  RetrySec = 2
  RetryMax = 20
  MaxDrops = 2
  RetryMayFail = TRUE
  Spurious = TRUE
  EndsAtOnce = FALSE
  StopMeetsReport = FALSE
INVARIANTS
  StopIsFinal
  ListenerKnows
PROPERTIES
  ImplementsLifecycle
  RetryResolves
  StopReturns
\* An output that was stopped, or whose attempts are spent, does nothing more.
CHECK_DEADLOCK FALSE
