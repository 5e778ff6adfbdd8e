SPECIFICATION FilesSpec
CONSTANTS
    Parts = {"restore", "rollover", "installation"}
    \* BackupRestore
    p1 = p1
    p2 = p2
    Procs = {p1, p2}
    Requests <- MCRequests
    Original <- MCOriginal
    Budgets <- MCBudgets
    \* RolloverPublication
    r1 = r1
    r2 = r2
    w1 = w1
    w2 = w2
    Rollovers = {r1, r2}
    Candidates = {1, 2}
    Destinations = {w1, w2}
    RolloverScenes <- MCRolloverScenes
    \* VaultInstallation
    Importers = {p1, p2}
    RegisteredFrom = 1
    Weakening <- MCWeakening
    PolicyOf <- MCPolicyOf
    InstallScenes <- MCInstallScenes
PROPERTIES
    RestoreFaithful
    RolloverWhole
    InstallationWhole
    RetriesComplete
CHECK_DEADLOCK FALSE
