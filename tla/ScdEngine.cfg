SPECIFICATION Spec
CONSTANTS OpenFailures <- MCOpenFailures
          Events <- MCEvents
          e1 = e1
          e2 = e2
INVARIANT NoUseAfterFree
INVARIANT JoinOnlyStartedThread
PROPERTY EventsDispatched
PROPERTY EngineRefinesAbstract
