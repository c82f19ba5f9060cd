SPECIFICATION Spec
CONSTANTS
  Capacity = 1
  MaxSignals = 1
  StartedBefore = {FALSE}
INVARIANT FailureReported
