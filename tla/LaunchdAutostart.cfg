SPECIFICATION Spec
CONSTANTS
  Clients = {c1}
  Specs <- MCBootSpecs
  NoSpec = NoSpec
  Ops = {"install_if_needed_and_start"}
  Capabilities <- LaunchdCapabilities
  UserService = FALSE
  MaxPolls = 1
  Hazards = {}
PROPERTIES
  StartsWhatItInstalls
