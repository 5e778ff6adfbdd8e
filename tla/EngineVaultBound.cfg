SPECIFICATION MCSpec
CONSTANTS
  Checkpoints <- MCCheckpoints
  Requests <- MCRequests
  Approvals <- MCApprovals
  Cancellations <- MCCancellations
  Eligible = {"ann", "bob", "carol"}
  MaxTime = 7
  Skew = 2
  Retention = 2
  PerVault = 1
  PerService = 3
  MaxRecorded = 4
INVARIANTS VaultBound
