SPECIFICATION FairSpec
CONSTANTS
  Capacity = 1
  MaxStops = 2
  StartedBefore = {TRUE, FALSE}
  RegisteredBefore = {TRUE, FALSE}
INVARIANTS
  TypeOK
  StoppedExplained
PROPERTIES
  ReportsInOrder
  StopHonoured
  ExitReported
