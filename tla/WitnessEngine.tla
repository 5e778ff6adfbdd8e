--------------------------- MODULE WitnessEngine ---------------------------
(***************************************************************************)
(* The request life cycle of a witness: which vault checkpoints it serves, *)
(* the replay entries that make a request's decision final, the approvals  *)
(* recorded for a request, and the wall clock the decisions depend on.     *)
(*                                                                         *)
(* Each handler of the engine loads the state, changes it and commits once *)
(* through commit_and_publish.  Module WitnessAnchoring shows that those   *)
(* commits happen one after another and are never undone, so a handler is  *)
(* one step here.  A call that is refused, or that returns an answer       *)
(* recorded earlier, changes nothing and is a stuttering step.             *)
(*                                                                         *)
(* Digests and signatures are abstracted: two requests are the same when   *)
(* their records are equal, and the inputs are correctly signed ones.      *)
(***************************************************************************)
EXTENDS Integers, FiniteSets, Sequences

CONSTANTS Checkpoints,   \* vault policy checkpoints owners may sign
          Requests,      \* requests clients may send
          Approvals,     \* decisions approvers may sign
          Cancellations, \* cancellations requesters or owners may sign
          Eligible,      \* the approvers the access rule names
          MaxTime,       \* bound on the wall clock
          Skew,          \* ACCEPTED_CLOCK_SKEW_MS
          Retention,     \* REPLAY_RETENTION_MS
          PerVault,      \* MAX_REPLAY_RECORDS_PER_VAULT
          PerService,    \* MAX_REPLAY_RECORDS_PER_SERVICE
          MaxRecorded    \* MAX_RECORDED_APPROVALS

ASSUME TimesAssumption ==
  /\ MaxTime \in Nat /\ Skew \in Nat /\ Retention \in Nat
  /\ Skew =< Retention

ASSUME RequestsAssumption ==
  \A q \in Requests : /\ q.issued_at \in Nat /\ q.not_before \in Nat
                      /\ q.expires_at \in Nat /\ q.threshold \in Nat

ASSUME CheckpointsAssumption ==
  \A c \in Checkpoints : c.seq \in Nat /\ c.issued_at \in Nat

\* rank stands for the encoded bytes of a decision, read as a number.
ASSUME ApprovalsAssumption ==
  /\ IsFiniteSet(Approvals) /\ IsFiniteSet(Eligible)
  /\ \A d \in Approvals : d.rank \in Nat

ASSUME BoundsAssumption == PerService \in Nat

VARIABLES now,       \* the wall clock
          vaults,    \* the current checkpoint of each registered vault
          replay,    \* the replay entry of each known (vault, request id)
          last,      \* last_accepted_wall_time_ms
          acks,      \* every checkpoint the witness has acknowledged
          responses  \* every response recorded for each request, in order

vars == <<now, vaults, replay, last, acks, responses>>

Time == 0 .. MaxTime
Reasons == {"ok", "Expired", "Cancelled", "ReplayConflict", "StalePolicy",
            "ApprovalDenied", "ApprovalConflict"}
Response == [decision : {"Approved", "Denied", "Cancelled"},
             reason : Reasons, issued_at : Time]
NoResponse == [decision |-> "none", reason |-> "none", issued_at |-> 0]
Vaults == {c.vault : c \in Checkpoints}
Key(q) == <<q.vault, q.id>>
Keys == {Key(q) : q \in Requests}
Entry == [request : Requests,
          state : {"Reserved", "Approved", "Denied", "Cancelled"},
          retain_through : Nat, approvals : SUBSET Approvals,
          response : Response \union {NoResponse}]

Init == /\ now = 0 /\ last = 0
        /\ vaults = [v \in {} |-> {}]
        /\ replay = [k \in {} |-> {}]
        /\ acks = {}
        /\ responses = [q \in Requests |-> <<>>]

(***************************************************************************)
(* The clock of the host may be set forward or back at any time.           *)
(***************************************************************************)
SetClock(t) == /\ t # now
               /\ now' = t
               /\ UNCHANGED <<vaults, replay, last, acks, responses>>

RequireSafeClock == now + Skew >= last

-----------------------------------------------------------------------------
(***************************************************************************)
(* commit_and_publish.  Encoding the new state refuses more records than   *)
(* the service may hold.  Newly recorded responses enter the history.      *)
(***************************************************************************)
Holds(r, q) == Key(q) \in DOMAIN r /\ r[Key(q)].request = q

Recorded(r, q) == IF Holds(r, q) THEN r[Key(q)].response ELSE NoResponse

LastAccepted == IF now > last THEN now ELSE last

CommitAndPublish(v, r) ==
  /\ Cardinality(DOMAIN r) =< PerService
  /\ vaults' = v
  /\ replay' = r
  /\ last' = LastAccepted
  /\ responses' = [q \in Requests |->
       IF Recorded(r, q) \in {NoResponse, Recorded(replay, q)}
       THEN responses[q] ELSE Append(responses[q], Recorded(r, q))]
  /\ UNCHANGED now

Denial(reason) == [decision |-> IF reason = "Cancelled" THEN "Cancelled"
                                ELSE "Denied",
                   reason |-> reason, issued_at |-> now]

\* An entry once the response is recorded in it.
Settle(e, response) ==
  [e EXCEPT !.state = response.decision, !.response = response]

NewEntry(q, state, response) ==
  [request |-> q, state |-> state, retain_through |-> q.expires_at + Retention,
   approvals |-> {}, response |-> response]

With(k, e) == [j \in DOMAIN replay \union {k} |->
                 IF j = k THEN e ELSE replay[j]]

-----------------------------------------------------------------------------
(***************************************************************************)
(* Checkpoints.                                                            *)
(***************************************************************************)
CheckpointTime(c) == c.issued_at =< now + Skew

RegisterVault(c) ==
  /\ RequireSafeClock /\ CheckpointTime(c)
  /\ c.vault \notin DOMAIN vaults
  /\ CommitAndPublish([v \in DOMAIN vaults \union {c.vault} |->
                         IF v = c.vault THEN c ELSE vaults[v]], replay)
  /\ acks' = acks \union {c}

\* A descendant: the next sequence number, the predecessor's digest, later.
Descends(c, current) == /\ c.seq = current.seq + 1
                        /\ c.predecessor = current.digest
                        /\ c.issued_at > current.issued_at

DenyReserved(v) ==
  [k \in DOMAIN replay |->
     IF k[1] = v /\ replay[k].state = "Reserved"
     THEN Settle(replay[k], Denial("StalePolicy")) ELSE replay[k]]

AdvanceCheckpoint(c) ==
  /\ RequireSafeClock /\ CheckpointTime(c)
  /\ c.vault \in DOMAIN vaults
  /\ Descends(c, vaults[c.vault])
  /\ CommitAndPublish([vaults EXCEPT ![c.vault] = c], DenyReserved(c.vault))
  /\ acks' = acks \union {c}

-----------------------------------------------------------------------------
(***************************************************************************)
(* Validation of a request.  The policy is the one the runtime loaded      *)
(* before the engine loads the state: the policy of a checkpoint that was  *)
(* current then and need not be so any more.                               *)
(***************************************************************************)
Registered(policy, q) == /\ q.vault \in DOMAIN vaults
                         /\ policy = vaults[q.vault]
                         /\ q.checkpoint = vaults[q.vault].digest

NotExpired(q) == now < q.expires_at

Begun(r) == /\ r.issued_at =< now + Skew
            /\ r.not_before =< now + Skew

ValidateRequest(policy, q) ==
  Registered(policy, q) /\ Begun(q) /\ NotExpired(q)

OfVault(v) == {k \in DOMAIN replay : k[1] = v}

HasCapacity(v) == /\ Cardinality(DOMAIN replay) < PerService
                  /\ Cardinality(OfVault(v)) < PerVault

Reserve(policy, q) ==
  /\ RequireSafeClock
  /\ \/ /\ Key(q) \notin DOMAIN replay
        /\ ValidateRequest(policy, q)
        /\ HasCapacity(q.vault)
        /\ CommitAndPublish(vaults,
             With(Key(q), NewEntry(q, "Reserved", NoResponse)))
     \/ /\ Key(q) \in DOMAIN replay
        /\ replay[Key(q)].request # q
        /\ replay[Key(q)].state = "Reserved"
        /\ CommitAndPublish(vaults,
             With(Key(q), Settle(replay[Key(q)], Denial("ReplayConflict"))))
  /\ UNCHANGED acks

-----------------------------------------------------------------------------
(***************************************************************************)
(* Approvals.  rank stands for the order of the encoded bytes.             *)
(***************************************************************************)
ValidateApprovalStatic(d, q) == /\ d.request = q
                                /\ d.approver \in Eligible
                                /\ d.issued_at >= q.issued_at
                                /\ d.expires_at =< q.expires_at

ApprovalIsCurrent(d) == Begun(d) /\ now < d.expires_at

\* At most two different decisions of an approver are kept, the lowest ones.
MutNormalizeApprovals(A) ==
  {d \in A : \A e \in A : e.approver = d.approver => d.rank =< e.rank}

NormalizeApprovals(A) ==
  {d \in A : Cardinality({e \in A : e.approver = d.approver
                                    /\ e.rank < d.rank}) < 2}

DecisionsOf(a, A) == {d \in A : d.approver = a}

Approving(A) == {a \in Eligible : \E d \in A : /\ DecisionsOf(a, A) = {d}
                                               /\ d.decision = "Approve"}
Undecided(A) == {a \in Eligible : DecisionsOf(a, A) = {}}
Conflicted(A) == \E a \in Eligible : Cardinality(DecisionsOf(a, A)) >= 2

MutAccepted(q, new) == NormalizeApprovals(replay[Key(q)].approvals \union new)

Accepted(q, new) ==
  NormalizeApprovals(
    {d \in replay[Key(q)].approvals : ApprovalIsCurrent(d)} \union new)

Decide(policy, q, new) ==
  LET accepted == Accepted(q, new)
      approved == Cardinality(Approving(accepted))
      entry    == [replay[Key(q)] EXCEPT !.approvals = accepted]
      Put(e)   == CommitAndPublish(vaults, With(Key(q), e))
  IN
  /\ Cardinality(new) =< MaxRecorded
  /\ RequireSafeClock
  /\ Holds(replay, q)
  /\ replay[Key(q)].response = NoResponse
  /\ Registered(policy, q) /\ Begun(q)
  /\ \/ /\ ~NotExpired(q)
        /\ Put(Settle(replay[Key(q)], Denial("Expired")))
     \/ /\ NotExpired(q)
        /\ \A d \in replay[Key(q)].approvals : ValidateApprovalStatic(d, q)
        /\ \A d \in new : ValidateApprovalStatic(d, q) /\ ApprovalIsCurrent(d)
        /\ Cardinality(accepted) =< MaxRecorded
        /\ \/ /\ approved >= q.threshold
              /\ Put(Settle(entry, [decision |-> "Approved", reason |-> "ok",
                                    issued_at |-> now]))
           \/ /\ approved + Cardinality(Undecided(accepted)) < q.threshold
              /\ Put(Settle(entry, Denial(IF Conflicted(accepted)
                                          THEN "ApprovalConflict"
                                          ELSE "ApprovalDenied")))
           \/ /\ approved < q.threshold
              /\ approved + Cardinality(Undecided(accepted)) >= q.threshold
              /\ accepted # replay[Key(q)].approvals
              /\ Put(entry)
  /\ UNCHANGED acks

-----------------------------------------------------------------------------
(***************************************************************************)
(* Cancellation, also of a request this witness has not seen, and the      *)
(* removal of entries past their retention.                                *)
(***************************************************************************)
ValidateRequestCancellation(c, q) == /\ c.request = q
                                     /\ c.issued_at =< now + Skew
                                     /\ c.issued_at >= q.issued_at

MutUncancellable(q) == FALSE

\* A known request is cancelled only while it has no response.
Uncancellable(q) ==
  Key(q) \in DOMAIN replay /\ (~Holds(replay, q)
                               \/ replay[Key(q)].response # NoResponse)

Cancel(policy, c) ==
  LET q == c.request IN
  /\ RequireSafeClock
  /\ ~Uncancellable(q)
  /\ ValidateRequest(policy, q)
  /\ ValidateRequestCancellation(c, q)
  /\ CommitAndPublish(vaults,
       With(Key(q), IF Key(q) \in DOMAIN replay
                    THEN Settle(replay[Key(q)], Denial("Cancelled"))
                    ELSE NewEntry(q, "Cancelled", Denial("Cancelled"))))
  /\ UNCHANGED acks

Retained(k) == now =< replay[k].retain_through

CompactReplay ==
  LET kept == {k \in DOMAIN replay : Retained(k)} IN
  /\ RequireSafeClock
  /\ kept # DOMAIN replay
  /\ CommitAndPublish(vaults, [k \in kept |-> replay[k]])
  /\ UNCHANGED acks

Advance == \E c \in Checkpoints : RegisterVault(c) \/ AdvanceCheckpoint(c)

Serve == \E policy \in acks, q \in Requests :
           \/ Reserve(policy, q)
           \/ \E new \in SUBSET {d \in Approvals : d.request = q} :
                Decide(policy, q, new)
           \/ \E c \in Cancellations : c.request = q /\ Cancel(policy, c)

Next == \/ \E t \in Time : SetClock(t)
        \/ Advance
        \/ Serve
        \/ CompactReplay

Spec == Init /\ [][Next]_vars

-----------------------------------------------------------------------------
(***************************************************************************)
(* The clock, checkpoints, entries and recorded responses are well formed; *)
(* an entry has a response exactly when it is settled, so that decide and  *)
(* cancel, which test the response, agree with reserve, which tests the    *)
(* state.                                                                  *)
(***************************************************************************)
TypeOK ==
  /\ now \in Time /\ last \in Time
  /\ acks \subseteq Checkpoints
  /\ DOMAIN vaults \subseteq Vaults
  /\ \A v \in DOMAIN vaults : vaults[v] \in Checkpoints /\ vaults[v].vault = v
  /\ DOMAIN replay \subseteq Keys
  /\ \A k \in DOMAIN replay :
       /\ replay[k] \in Entry /\ Key(replay[k].request) = k
       /\ IF replay[k].state = "Reserved" THEN replay[k].response = NoResponse
          ELSE replay[k].response.decision = replay[k].state
  /\ responses \in [Requests -> Seq(Response)]

(***************************************************************************)
(* reserve, decide, cancel, advance_checkpoint and compact_replay together *)
(* record at most one response for a request, whatever the host clock does *)
(* and even after compaction removed the entry that remembered it.         *)
(***************************************************************************)
OneDecision == \A q \in Requests : Len(responses[q]) =< 1

(***************************************************************************)
(* advance_checkpoint leaves no request of an older checkpoint pending: a  *)
(* reserved request is one of the vault's current checkpoint, so none made *)
(* under a replaced policy can still be approved.                          *)
(***************************************************************************)
ReservedIsCurrent ==
  \A k \in DOMAIN replay : replay[k].state = "Reserved" =>
    /\ k[1] \in DOMAIN vaults
    /\ replay[k].request.checkpoint = vaults[k[1]].digest

(***************************************************************************)
(* An approved entry shows, by itself, the approvals that justify it: at   *)
(* least threshold eligible approvers whose only recorded decision is an   *)
(* approval that was in force when decide created the response, which was  *)
(* before the request expired.                                             *)
(***************************************************************************)
ApprovedBacked ==
  \A k \in DOMAIN replay : replay[k].state = "Approved" =>
    LET t == replay[k].response.issued_at
        q == replay[k].request
        For(a) == {d \in replay[k].approvals : d.approver = a}
    IN /\ t < q.expires_at
       /\ \E A \in SUBSET Eligible :
            /\ Cardinality(A) >= q.threshold
            /\ \A a \in A : \E d \in replay[k].approvals :
                 /\ For(a) = {d} /\ d.decision = "Approve" /\ d.request = q
                 /\ d.issued_at =< t + Skew /\ t < d.expires_at

(***************************************************************************)
(* A recorded denial of an approver that is still in force when the        *)
(* request is approved keeps that approver out of the count, whatever      *)
(* approvals the same approver signs besides it (normalize_approvals).     *)
(***************************************************************************)
DenialKept ==
  [][\A k \in DOMAIN replay \intersect DOMAIN replay' :
       \A d \in replay[k].approvals :
         replay[k].state = "Reserved" /\ replay'[k].state = "Approved"
         /\ d.decision = "Deny" /\ now < d.expires_at
         /\ d.issued_at =< now + Skew /\ d.not_before =< now + Skew
         => Cardinality({a \in Eligible \ {d.approver} :
              \E e \in replay'[k].approvals :
                e.approver = a /\ e.decision = "Approve"})
            >= replay'[k].request.threshold]_vars

(***************************************************************************)
(* The checkpoints acknowledged for a vault form one chain: two of one     *)
(* sequence number are the same, and each follows the digest of the one    *)
(* acknowledged before it (advance_checkpoint).                            *)
(***************************************************************************)
CheckpointsLinear ==
  \A c, d \in acks : c.vault = d.vault =>
    /\ c.seq = d.seq => c = d
    /\ c.seq = d.seq + 1 => c.predecessor = d.digest /\ c.issued_at > d.issued_at

TimesStep ==
  \A q, p \in Requests :
    responses'[q] # responses[q] =>
      \A i \in DOMAIN responses[p] :
        responses[p][i].issued_at
          =< responses'[q][Len(responses'[q])].issued_at + Skew

(***************************************************************************)
(* The times in recorded responses never go back by more than the accepted *)
(* skew, although the host clock may (require_safe_clock with the highest  *)
(* accepted time that commit_and_publish keeps).                           *)
(***************************************************************************)
TimesOrdered == [][TimesStep]_vars

\* No handler lets the replay table outgrow MAX_REPLAY_RECORDS_PER_SERVICE.
ServiceBound == Cardinality(DOMAIN replay) =< PerService

(***************************************************************************)
(* protocol.md: "Replay records per vault / per witness service | 65,536 / *)
(* 1,048,576", and a service at a bound refuses new work.                  *)
(***************************************************************************)
VaultBound == \A v \in Vaults : Cardinality(OfVault(v)) =< PerVault

(***************************************************************************)
(* The engine implements DecisionRegister: one decision per request, only  *)
(* reserved requests are approved, and compaction changes no decision.     *)
(***************************************************************************)
Register == INSTANCE DecisionRegister WITH
  held <- {q \in Requests : Holds(replay, q) /\ Recorded(replay, q) = NoResponse},
  decision <- [q \in Requests |-> IF responses[q] = <<>> THEN "none"
                                  ELSE responses[q][Len(responses[q])].decision]

ImplementsDecisionRegister == Register!Spec
=============================================================================
