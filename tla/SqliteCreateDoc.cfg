SPECIFICATION Spec
CONSTANTS
  PointerBits <- MCPointerBits
  PropThreads <- MCPropThreads
  ParamThreads <- MCParamThreads
CHECK_DEADLOCK FALSE
INVARIANT NThreadsAsDocumented
