SPECIFICATION Spec
CONSTANTS
  \* LocalExports
  x1 = x1
  x2 = x2
  Exporters = {x1, x2}
  MaxRevision = 2
  MaxExports = 2
  MaxExportTime = 2
  ExportScenes <- MCExportScenes
  Since <- MCSince
  \* RolloverBootstrap
  BootstrapSources <- MCSources
  ScopeUses <- MCUses
  RegistrationLifetime = 3
  MaxSkew = 1
  MaxClock = 7
  MaxFiles = 3
  \* AccessSession
  SessionItems <- MCItems
  Bindings <- MCBindings
  Inactivity = 2
  SessionLifetime = 4
  RequestLifetime = 3
  MaxPreflight = 2
  MaxNow = 4
  MaxBack = 1
  MaxVersion = 2
  \* RequestEvidence
  Items = {"i"}
  Fields = {"f", "g"}
  Approvers = {"a1", "a2"}
  Witnesses = {"w1", "w2"}
  Roles <- MCRoles
  FirstOwners = {"ann"}
  Scenes <- MCScenes
  Lifetime = 2
  Skew = 1
  \* CanonicalEncoding
  Statements <- MCStatements
  MaxVaried = 2
  \* FieldDelivery
  Tasks <- MCTasks
  Vault <- MCVault
  Trees <- MCTrees
  Search <- MCSearch
  Ambient = {"PATH", "EDITOR", "JURY_HOME"}
  Reserved = {"JURY_HOME"}
  Allowlist = {"PATH"}
  Malformed = {"9"}
  MaxItems = 2
  MaxBindings = 3
  MaxRendered = 6
  Chunk = 2
  MaxArguments = 5
  PolicyTimeout = 3
  MaxChanges = 2
INVARIANTS
  ExportsTruthful
  ProvenanceLasts PollNotices ScopesExact
  ShownIsSigned ReceiptSound NamedStaysAskable
  OneMeaning
  DeliveredAsReviewed AllOrNothing NothingEscapes
PROPERTIES
  SessionBounded
CHECK_DEADLOCK FALSE
