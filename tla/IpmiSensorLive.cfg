SPECIFICATION Spec
CONSTANTS
  agg = agg
  Aggregator = agg
  c1 = c1
  c2 = c2
  Computes <- MCComputes
  NonRoot <- MCNonRoot
  DbFails = FALSE
  ChanBound = 2
  MaxCountLog = 2
  MaxStops = 1
  MaxRestarts = 1
  MaxAggRestarts = 0
PROPERTY ComputesRegistered
