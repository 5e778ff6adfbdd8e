SPECIFICATION MCSpec
CONSTANTS
  Checkpoints <- MCCheckpoints
  Requests <- MCRequests
  Approvals <- MCApprovals
  Cancellations <- MCCancellations
  Eligible = {"ann", "bob", "carol"}
  MaxTime = 7
  Skew = 2
  Retention = 2
  PerVault = 2
  PerService = 3
  MaxRecorded = 4
INVARIANTS
  ApprovedBacked
PROPERTIES
  DenialKept
  ImplementsDecisionRegister
