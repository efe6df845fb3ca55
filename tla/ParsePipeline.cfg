SPECIFICATION FairSpec
CONSTANTS
  w1 = w1
  w2 = w2
  c1 = c1
  c2 = c2
  Workers <- MCWorkers
  Callers <- MCCallers
  InflightCap = 1
  MaxTasks = 3
INVARIANTS ShutdownLosesNothing
PROPERTIES DrainMeansQuiet DrainReportsFailure ImplementsOrderedDelivery AcceptedSettles CallsReturn
