SPECIFICATION MCSpec
CONSTANTS
  p1 = p1
  p2 = p2
  p3 = p3
  alice = alice
  bob = bob
  main = main
  linked = linked
  Procs = {p1, p2, p3}
  Principals = {alice, bob}
  ActsFor <- MCActsFor
  Homes = {main, linked}
  GitHomes = {main, linked}
  Established = {alice}
  Budgets <- MCBudgets
  MaxRevisions = 3
  MaxEvents = 5
  Scenarios <- MCCommits
CHECK_DEADLOCK FALSE
INVARIANTS
  IntentKept
  LocalStateVerifies
  CommittedRetainedIfSynced
  CoveredBeforeUse
PROPERTIES
  NothingLost
