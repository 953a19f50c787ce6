SPECIFICATION Spec
CONSTANTS OpenFailures <- MCOpenSucceeds
          Events <- MCNoEvents
          e1 = e1
          e2 = e2
\* With no component posting, the thread blocked in dispatch with no event
\* and no break is a state the program stops in: that is the hang reported.
CHECK_DEADLOCK FALSE
PROPERTY CloseCompletes
