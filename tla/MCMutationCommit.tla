------------------------- MODULE MCMutationCommit -------------------------
(***************************************************************************)
(* Instances of MutationCommit.  A behaviour follows one scenario: the     *)
(* commands that run, the homes they use, the revisions they plan and the  *)
(* failures they meet.                                                     *)
(***************************************************************************)
EXTENDS MutationCommit, TLC

CONSTANTS p1, p2, p3,      \* commands: p1 and p3 of alice, p2 of bob
          alice, bob,      \* principals
          main, linked,    \* a worktree and one linked to it
          Scenarios        \* the scenarios of the instance

VARIABLE scenario

ASSUME ScenariosAssumption == \A s \in Scenarios : s.procs \subseteq Procs /\ s.homes \subseteq Homes

MCActsFor == [p \in Procs |-> IF p = p2 THEN bob ELSE alice]

Failures(moves, faults, kills, outages) ==
  [moves |-> moves, faults |-> faults, kills |-> kills, outages |-> outages]

MCScenario(procs, homes, planned, events, failures) ==
  [procs |-> procs, homes |-> homes, planned |-> planned, events |-> events, failures |-> failures]

\* One command after another, with failed steps and power losses; commands
\* in two linked worktrees, one of which is killed; two commands of one
\* principal, where a publication fails and a command is killed; commands
\* of two principals, one killed, or with Git moving under them.
MCCommits ==
  {MCScenario({p1}, {main}, 3, 5, Failures(0, 1, 0, 1)),
   MCScenario({p1}, {main}, 2, 5, Failures(0, 2, 0, 2)),
   MCScenario({p1, p3}, {main, linked}, 2, 4, Failures(0, 0, 1, 0)),
   MCScenario({p1, p3}, {main}, 2, 3, Failures(0, 1, 1, 0)),
   MCScenario({p1, p2}, {main}, 2, 3, Failures(0, 0, 1, 0)),
   MCScenario({p1, p2}, {main}, 2, 3, Failures(1, 0, 0, 0))}

\* Two commands of one principal.
MCFirstUse == {MCScenario({p1, p3}, {main}, 1, 3, Failures(0, 0, 0, 0))}

MCBudgets == {s.failures : s \in Scenarios}

MCInit ==
  /\ Init
  /\ scenario \in Scenarios
  /\ scenario.failures = budget

MCNext ==
  /\ UNCHANGED scenario
  /\ \/ \E p \in scenario.procs :
          (\E h \in scenario.homes : ReadVault(p, h)) \/ Proceed(p)
     \/ Environment
  /\ \A h \in Homes \ scenario.homes : home'[h] = home[h]
  /\ Len(revisions') <= scenario.planned
  /\ \A q \in Principals : Len(files'[q].audit) <= scenario.events

MCSpec == MCInit /\ [][MCNext]_<<vars, scenario>>

\* CommittedRetained, where no sync of a directory fails: a commit that is
\* repeated after its checkpoint was renamed and not synced finds nothing
\* left to publish and succeeds without a sync (mutation_commit.rs).
CommittedRetainedIfSynced == scenario.failures.faults = 0 => CommittedRetained

\* With one home, and until another tool changes the artifact or the power is
\* lost: whatever fails or is killed, the catalog has the witness policies
\* that the artifact's own revisions added (the catalog is published before
\* the artifact, and put back only while the artifact is not replaced); and
\* while nothing has failed or been killed, it has every policy that a reader
\* asks it for.  A commit that takes a policy it found staged compares no
\* catalog (mutation_commands.rs), so it can outlive the policy when the
\* commit that pruned it was interrupted before its own artifact.
CoveredBeforeUse ==
  /\ \E h \in Homes : scenario.homes = {h}
  /\ scenario.failures.outages = budget.outages
  /\ scenario.failures.moves = budget.moves
  => /\ BroughtCovered
     /\ scenario.failures = budget => CatalogCovers
=============================================================================
