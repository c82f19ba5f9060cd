SPECIFICATION Spec
CONSTANTS
  Clients = {c1}
  Specs <- MCAllSpecs
  NoSpec = NoSpec
  Ops <- MCAllOps
  Capabilities <- LaunchdCapabilities
  UserService = FALSE
  MaxPolls = 1
  Hazards = {"crash", "reboot"}
INVARIANTS
  TypeOK
  LoadedHasFile
PROPERTIES
  InstalledAsAsked
  UninstalledForGood
  ImplementsManagement
