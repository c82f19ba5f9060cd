SPECIFICATION FairSpec
CONSTANTS
  Clients = {c1, c2}
  Specs <- MCResilientSpecs
  NoSpec = NoSpec
  Ops <- MCStartOps
  Capabilities <- SystemdCapabilities
  UserService = FALSE
  MaxPolls = 1
  Hazards = {}
PROPERTIES
  OkMeansStarted
  CallsReturn
