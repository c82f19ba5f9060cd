SPECIFICATION Spec
CONSTANTS
  Clients = {c1, c2}
  Specs <- MCResilientSpecs
  NoSpec = NoSpec
  NoService = NoService
  Ops <- MCStopOps
  Capabilities <- ScCapabilities
  UserService = FALSE
  MaxPolls = 1
  Hazards = {"restart"}
PROPERTIES
  OkMeansStarted
  OkMeansStopped
