SPECIFICATION FairSpec
CONSTANTS
  Clients = {c1, c2}
  Specs <- MCResilientSpecs
  NoSpec = NoSpec
  Ops <- MCStopOps
  Capabilities <- LaunchdCapabilities
  UserService = FALSE
  MaxPolls = 1
  Hazards = {}
PROPERTIES
  OkMeansStarted
  OkMeansStopped
  CallsReturn
