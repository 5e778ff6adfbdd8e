SPECIFICATION GovernanceSpec
CONSTANTS
  \* PolicyReplay
  Descriptors <- MCDescriptors
  Genesis <- MCAnn
  Rollover = TRUE
  Items = {"i", "j"}
  SlotSets <- MCSlotSets
  Catalog <- MCCatalog
  Times = {0, 1}
  MaxRevisions = 3
  MaxItems = 1
  MaxOperations = 4
  \* VaultCommands
  CommandPeople <- CommandDescriptors
  Names = {"n", "m"}
  Fields = {"f"}
  MaxBucket = 2
  \* ArtifactAncestry
  Clones = {1, 2}
  AncestryItems = {i1, i2}
  MaxJournal = 4
CHECK_DEADLOCK FALSE
INVARIANTS
  AcceptedPolicySound
  CommandsAccepted
  CommandsConsistent
  ComparisonFindsDescent
PROPERTIES
  DepartedStayAway
  ImplementsKeyEpochs
