SPECIFICATION Spec
CONSTANTS
  NumNodes = 3
  QueueOrder <- MCQueueOrder
  Requests <- MCRequests
  MaxLive = 2
  IdBits = 2
  StepRetainsAlloc = TRUE
INVARIANT NodesReflectSteps
