SPECIFICATION WitnessingSpec
CONSTANTS
  \* WitnessedAccess
  a1 = a1
  a2 = a2
  N = 3
  WitnessThreshold = 2
  Approvers = {a1, a2}
  ApprovalThreshold = 1
  Paths <- MCPaths
  ApproverOf <- MCApproverOf
  MaxEntries = 2
  Lifetime = 2
  Wait = 1
  Plans <- MCPlans
  MaxLate = 1
  \* WitnessService
  m1 = m1
  m2 = m2
  r1 = r1
  r2 = r2
  l1 = l1
  peer1 = peer1
  peer2 = peer2
  Calls <- MCCalls
  CallScenes <- MCScenes
  Peers = {peer1, peer2}
  PeerOf <- MCPeerOf
  KindOf <- MCKindOf
  MaximumConcurrency = 2
  RequestsPerTick = 1
  BurstRequests = 2
  MaxRateKeys = 1
  IdleLimit = 1
  RequestTimeout = 1
  ShutdownGraces = {0, 1}
  \* WitnessAnchoring
  op1 = op1
  op2 = op2
  p1 = p1
  p2 = p2
  f1 = f1
  f2 = f2
  Ops = {op1, op2}
  Query = query
  Original = f1
  Procs = {p1, p2}
  Copies = {f1, f2}
  FileOf <- TwoFiles
  MaxGen = 1
  MaxBackups = 1
  MaxFaults = 2
INVARIANTS
  OpeningEvidenced
  PrecludedNeverOpens
  ServiceAccounts
PROPERTIES
  CancellationReported
  WaitingEnds
CHECK_DEADLOCK FALSE
