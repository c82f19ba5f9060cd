SPECIFICATION FairSpec
CONSTANTS
  Capacity = 1
  MaxSignals = 3
  StartedBefore = {TRUE, FALSE}
INVARIANTS
  TypeOK
  OkMeansJoined
  JoinFollowsNotice
  SendNeverBlocks
  HandlerOutlivesLoop
  ErrExplained
PROPERTIES
  RequestStops
  ExitNoticed
