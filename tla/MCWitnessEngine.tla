-------------------------- MODULE MCWitnessEngine --------------------------
(***************************************************************************)
(* An instance of WitnessEngine for TLC.  Times are small numbers; a value *)
(* of not_before equal to issued_at stands for an absent one.  A behaviour *)
(* follows one scenario: the checkpoints, requests, approvals and          *)
(* cancellations that may be sent in it.                                   *)
(***************************************************************************)
EXTENDS WitnessEngine

VARIABLE scenario    \* what may be sent

MCCheckpoint(v, seq, digest, predecessor, issued) ==
  [vault |-> v, seq |-> seq, digest |-> digest, predecessor |-> predecessor,
   issued_at |-> issued]

MCRequest(v, id, checkpoint, variant, expires, threshold) ==
  [vault |-> v, id |-> id, checkpoint |-> checkpoint, variant |-> variant,
   issued_at |-> 0, not_before |-> 0, expires_at |-> expires,
   threshold |-> threshold]

MCApproval(q, approver, decision, rank, issued, expires) ==
  [request |-> q, approver |-> approver, decision |-> decision, rank |-> rank,
   issued_at |-> issued, not_before |-> issued, expires_at |-> expires]

MCCancellation(q, issued) == [request |-> q, issued_at |-> issued]

\* One vault; the owner may sign a successor of its first checkpoint, and
\* requests under either checkpoint reuse one id.
MCTwoCheckpoints == {MCCheckpoint("v", 1, "c1", "c0", 0),
                     MCCheckpoint("v", 2, "c2", "c1", 1)}
MCFirst  == MCRequest("v", 1, "c1", "a", 2, 1)
MCReused == MCRequest("v", 1, "c1", "b", 3, 0)
MCLater  == [MCRequest("v", 1, "c2", "a", 4, 1) EXCEPT !.not_before = 2]
MCOther  == MCRequest("v", 2, "c1", "a", 3, 1)
MCReplayRequests == {MCFirst, MCReused, MCLater, MCOther}
MCReplayApprovals == {MCApproval(MCFirst, "ann", "Approve", 1, 0, 2),
                      MCApproval(MCLater, "ann", "Approve", 1, 2, 4),
                      MCApproval(MCLater, "ann", "Deny", 2, 2, 4),
                      MCApproval(MCOther, "ann", "Approve", 1, 1, 2)}
MCReplayCancellations == {MCCancellation(MCFirst, 0), MCCancellation(MCLater, 3)}

\* One request with threshold two of three; ann changes her mind, bob's
\* approval lapses early, and carol's approval starts late.
MCOneCheckpoint == {MCCheckpoint("v", 1, "c1", "c0", 0)}
MCQuorum == MCRequest("v", 1, "c1", "a", 3, 2)
MCQuorumRequests == {MCQuorum}
MCQuorumApprovals == {MCApproval(MCQuorum, "ann", "Approve", 1, 0, 3),
                      MCApproval(MCQuorum, "ann", "Deny", 2, 0, 3),
                      MCApproval(MCQuorum, "ann", "Deny", 3, 1, 2),
                      MCApproval(MCQuorum, "bob", "Approve", 1, 0, 2),
                      MCApproval(MCQuorum, "bob", "Deny", 2, 2, 3),
                      MCApproval(MCQuorum, "carol", "Approve", 1, 2, 3)}

\* Two vaults; in one the second checkpoint has a rival, an unrelated sibling
\* and two successors, one of them not issued later.
MCPolicyCheckpoints == {MCCheckpoint("v", 1, "c1", "c0", 0),
                        MCCheckpoint("v", 2, "c2", "c1", 1),
                        MCCheckpoint("v", 2, "d2", "c1", 2),
                        MCCheckpoint("v", 2, "e2", "e1", 1),
                        MCCheckpoint("v", 3, "c3", "c2", 2),
                        MCCheckpoint("v", 3, "d3", "c2", 1),
                        MCCheckpoint("w", 1, "w1", "w0", 0)}
MCOld == MCRequest("v", 1, "c1", "a", 3, 1)
MCNew == MCRequest("v", 2, "c2", "a", 3, 0)
MCAlien == MCRequest("w", 1, "w1", "a", 3, 1)
MCPolicyRequests == {MCOld, MCNew, MCAlien}
MCPolicyApprovals == {MCApproval(MCOld, "ann", "Approve", 1, 0, 3),
                      MCApproval(MCAlien, "ann", "Approve", 1, 0, 3)}

\* Two vaults sharing a service with room for three records.
MCTwoVaults == {MCCheckpoint("v", 1, "c1", "c0", 0),
                MCCheckpoint("w", 1, "w1", "w0", 0)}
MCCapacityRequests == {MCRequest("v", 1, "c1", "a", 2, 1),
                       MCRequest("v", 2, "c1", "a", 2, 0),
                       MCRequest("w", 1, "w1", "a", 3, 1),
                       MCRequest("w", 2, "w1", "a", 2, 1)}
MCCapacityCancellations == {MCCancellation(q, 0) : q \in MCCapacityRequests}
MCNone == {}

MCScenario(checkpoints, requests, approvals, cancellations, until) ==
  [checkpoints |-> checkpoints, requests |-> requests,
   approvals |-> approvals, cancellations |-> cancellations, until |-> until]

MCScenarios ==
  {MCScenario(MCTwoCheckpoints, MCReplayRequests, MCReplayApprovals,
              MCReplayCancellations, 7),
   MCScenario(MCOneCheckpoint, MCQuorumRequests, MCQuorumApprovals, MCNone, 5),
   MCScenario(MCPolicyCheckpoints, MCPolicyRequests, MCPolicyApprovals,
              MCNone, 4),
   MCScenario(MCTwoVaults, MCCapacityRequests, MCNone,
              MCCapacityCancellations, 4)}

MCCheckpoints == UNION {s.checkpoints : s \in MCScenarios}
MCRequests == UNION {s.requests : s \in MCScenarios}
MCApprovals == UNION {s.approvals : s \in MCScenarios}
MCCancellations == UNION {s.cancellations : s \in MCScenarios}

MCInit == Init /\ scenario \in MCScenarios

MCNext ==
  /\ UNCHANGED scenario
  /\ \/ \E t \in 0 .. scenario.until : SetClock(t)
     \/ \E c \in scenario.checkpoints : RegisterVault(c) \/ AdvanceCheckpoint(c)
     \/ \E policy \in acks, q \in scenario.requests :
          \/ Reserve(policy, q)
          \/ \E new \in SUBSET {d \in scenario.approvals : d.request = q} :
               Decide(policy, q, new)
          \/ \E c \in scenario.cancellations :
               c.request = q /\ Cancel(policy, c)
     \/ CompactReplay

MCSpec == MCInit /\ [][MCNext]_<<vars, scenario>>
=============================================================================
