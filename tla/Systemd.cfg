SPECIFICATION Spec
CONSTANTS
  Clients = {c1}
  Specs <- MCAllSpecs
  NoSpec = NoSpec
  Ops <- MCAllOps
  Capabilities <- SystemdCapabilities
  UserService = TRUE
  MaxPolls = 1
  Hazards = {"crash", "reboot"}
INVARIANTS
  TypeOK
  NoDanglingEnable
  OrphanFree
PROPERTIES
  InstalledAsAsked
  UninstalledForGood
  ImplementsManagement
