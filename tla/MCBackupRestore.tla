----------------------------- MODULE MCBackupRestore -----------------------------
(***************************************************************************)
(* Small instances of BackupRestore.  The scenario says which commands run *)
(* on which targets, what the disk holds at first, and what may go wrong.  *)
(***************************************************************************)
EXTENDS BackupRestore

CONSTANTS p1, p2

VARIABLE scenario

MCRequest(dir, home, roles, reuse, drill) ==
    [dir |-> dir, home |-> home, root |-> "r", roles |-> roles, reuse |-> reuse, drill |-> drill]

Plain == MCRequest("d1", "h1", <<>>, FALSE, FALSE)
Elsewhere == MCRequest("d2", "h2", <<>>, FALSE, FALSE)
WithRoles == MCRequest("d1", "h1", <<"approver", "witness">>, FALSE, FALSE)
Drill == MCRequest("d1", "h1", <<>>, FALSE, TRUE)
Reuse == MCRequest("d1", "h1", <<"approver">>, TRUE, FALSE)

MCRequests == {Plain, Elsewhere, WithRoles, Drill, Reuse}

Budget(attempts, faults, kills, losses, uses) ==
    [attempts |-> attempts, faults |-> faults, kills |-> kills, losses |-> losses, uses |-> uses]

MCScenario(asks, found, budget) == [asks |-> asks, found |-> found, budget |-> budget]

Empty == [path \in {} |-> Absent]
OwnIdentity == [path \in {Owner(Reuse)} |-> Sealed(0)]
OtherIdentity == [path \in {Owner(Reuse)} |-> Foreign]

Alone(q) == [p \in {p1} |-> q]
Both(q, r) == [p \in {p1, p2} |-> IF p = p1 THEN q ELSE r]

\* One command, repeated: kills, failed syncs, a power loss.
MCRepeats ==
    {MCScenario(Alone(q), Empty, b) : q \in {WithRoles, Drill}, b \in {Budget(4, 1, 2, 0, 0), Budget(3, 0, 1, 1, 0)}}
        \cup {MCScenario(Alone(Reuse), OwnIdentity, Budget(3, 1, 1, 0, 0))}

\* A target that is occupied, two commands at once, and an owner in a hurry.
MCRaces ==
    {MCScenario(Alone(Reuse), found, Budget(1, 0, 0, 0, 0)) : found \in {OtherIdentity, Empty}}
        \cup {MCScenario(Both(Plain, q), Empty, Budget(3, 0, 1, 0, 0)) : q \in {Plain, Elsewhere}}
        \cup {MCScenario(Both(Plain, Plain), Empty, Budget(2, 0, 0, 0, 1)),
              MCScenario(Alone(Plain), Empty, Budget(3, 0, 2, 0, 2)),
              MCScenario(Alone(Plain), Empty, Budget(2, 1, 0, 1, 1)),
              MCScenario(Alone(Plain), Empty, Budget(3, 1, 1, 1, 0))}

MCScenarios == MCRepeats \cup MCRaces

MCOriginal == {s.found : s \in MCScenarios}
MCBudgets == {s.budget : s \in MCScenarios}

MCInit == scenario \in MCScenarios /\ Start(scenario.found, scenario.budget)

MCCommand(p) == UNCHANGED <<opening, scenario>> /\ (Step(p) \/ Look(p, scenario.asks[p]))

MCNext ==
    \/ \E p \in DOMAIN scenario.asks : MCCommand(p) \/ (Kill(p) /\ UNCHANGED <<opening, scenario>>)
    \/ LosePower /\ UNCHANGED scenario
    \/ \E p \in DOMAIN scenario.asks : Use(scenario.asks[p]) /\ UNCHANGED scenario

\* A command that has begun goes on until it returns or dies, and the owner
\* repeats it; an owner who uses the vault, and mishaps, come as they please.
MCFairness == \A p \in Procs : WF_<<vars, scenario>>(p \in DOMAIN scenario.asks /\ MCCommand(p))

MCSpec == MCInit /\ [][MCNext]_<<vars, scenario>> /\ MCFairness

(* A command that is alone and is repeated after an interruption is not     *)
(* turned away while something is left to restore (the retry branch of      *)
(* restore_archive_with_observer accepts whatever the marker promised).     *)
RetryAccepted ==
    scenario \in MCRepeats =>
        \A p \in DOMAIN scenario.asks :
            /\ result[p] \notin {"conflict", "wedged", "busy"}
            /\ result[p] = "refused" => Complete(scenario.asks[p])

Restored ==
    \A p \in DOMAIN scenario.asks :
        LET q == scenario.asks[p] IN Complete(q) /\ ~Exists(Marker(q)) /\ ~Exists(Cleanup(q))
=================================================================================
