SPECIFICATION Spec
CONSTANTS
  Clients = {c1}
  Specs <- MCAllSpecs
  NoSpec = NoSpec
  NoService = NoService
  Ops <- MCAllOps
  Capabilities <- ScCapabilities
  UserService = TRUE
  MaxPolls = 1
  Hazards = {"crash", "restart"}
INVARIANTS
  TypeOK
  OrphanFree
PROPERTIES
  InstalledAsAsked
  OkMeansStopped
  ImplementsManagement
