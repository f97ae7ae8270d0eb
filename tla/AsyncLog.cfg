CONSTANTS
  Callers = {c1, c2}
  Capacity = 2
  MaxCalls = 5
SPECIFICATION FairSpec
CHECK_DEADLOCK FALSE
INVARIANTS
  CountersTellTruth
  FlushLosesNothing
PROPERTIES
  SinkHoldsNobodyUp
  ImplementsLogDelivery
