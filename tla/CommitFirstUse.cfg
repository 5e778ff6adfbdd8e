SPECIFICATION MCSpec
CONSTANTS
  p1 = p1
  p2 = p2
  p3 = p3
  alice = alice
  bob = bob
  main = main
  linked = linked
  Procs = {p1, p3}
  Principals = {alice}
  ActsFor <- MCActsFor
  Homes = {main}
  GitHomes = {main}
  Established = {}
  Budgets <- MCBudgets
  MaxRevisions = 1
  MaxEvents = 3
  Scenarios <- MCFirstUse
CHECK_DEADLOCK FALSE
PROPERTY
  CheckpointNeverLowered
