SPECIFICATION Spec
CONSTANTS
  Clients = {c1}
  Specs <- MCSpecs
  NoSpec = NoSpec
  Ops = {"install"}
  Capabilities <- LaunchdCapabilities
  UserService = FALSE
  MaxPolls = 1
  Hazards = {}
INVARIANTS
  BootstrapsItsSpec
