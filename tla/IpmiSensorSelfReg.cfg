SPECIFICATION Spec
CONSTANTS
  agg = agg
  Aggregator = agg
  c1 = c1
  c2 = c2
  Computes <- MCComputes
  NonRoot <- MCNoneNonRoot
  DbFails = FALSE
  ChanBound = 2
  MaxCountLog = 2
  MaxStops = 0
  MaxRestarts = 0
  MaxAggRestarts = 0
PROPERTY AggregatorRegistered
