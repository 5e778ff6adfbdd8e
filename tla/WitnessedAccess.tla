-------------------------- MODULE WitnessedAccess --------------------------
(***************************************************************************)
(* Witnessed access from the client's side.  A command sends a request to  *)
(* every intended witness, waits for decision files of the approvers,      *)
(* sends them to the witnesses, opens the content from the shares of the   *)
(* approving ones, publishes a receipt and only then lets the value or the *)
(* mutation out.  Commands that open several contents (a new item checked  *)
(* against every name, an owner change) repeat this for each entry under   *)
(* one deadline.  Meanwhile a second command may cancel the first request, *)
(* owners may advance the checkpoint of a witness, approvers decide.       *)
(*                                                                         *)
(* A call is answered, refused, lost before the witness sees it, or served *)
(* after its caller stopped waiting or was killed; all a caller sees of    *)
(* the last two cases is a timeout.  A witness keeps the promises of       *)
(* DecisionRegister, which WitnessEngine implements; its clock is not the  *)
(* client's, so that it may find a request expired at any time, or never.  *)
(***************************************************************************)
EXTENDS Integers, FiniteSets

CONSTANTS N,                  \* the intended witnesses are 1 .. N
          WitnessThreshold,
          Approvers,          \* the approvers the rule names
          ApprovalThreshold,
          Paths,              \* the decision files the command looks for
          ApproverOf,         \* the approver who writes each of them
          MaxEntries,         \* bound on the contents one command opens
          Lifetime,           \* of a request
          Wait,               \* wait_seconds
          Plans,              \* the circumstances under which it may run
          MaxLate             \* bound on abandoned calls still on their way

ASSUME AccessAssumption ==
  /\ N \in Nat /\ WitnessThreshold \in 1 .. N
  /\ ApprovalThreshold \in Nat /\ MaxEntries \in Nat \ {0}
  /\ Lifetime \in Nat /\ Wait \in Nat
  /\ ApproverOf \in [Paths -> Approvers]
  /\ \A p \in Plans : p.last \in 1 .. MaxEntries

VARIABLES now,        \* the client's clock
          reg,        \* what each witness recorded for each request
          advanced,   \* witnesses that have a later checkpoint
          files,      \* the approvers' decision files, per entry
          net,        \* calls that are on their way
          out,        \* the call each command waits for
          answer,     \* the answer that has come back for it
          pc, entry, at,    \* the command: its step, entry and endpoint
          issued,     \* when the entry's request was created
          waitEnd,    \* when it stops waiting for approvals
          approvals,  \* the decisions it collected for the entry
          resp,       \* the latest response of each witness
          failure,    \* failure_status
          opened,     \* the entries whose content it opened
          counted,    \* the witnesses whose shares opened the entry
          receipts,   \* the receipts it published
          effect,     \* the value was written out, or the mutation committed
          report,     \* the status a failed command ends with
          kpc, kat, kresult, phase,    \* the cancelling command
          plan        \* how many contents, the batch deadline, witnesses with
                      \* damaged shares or an early clock, who else acts, and
                      \* the bound on the client's clock

client == <<pc, entry, at, issued, waitEnd, approvals, resp, failure, opened,
            counted, receipts, effect, report>>
canceller == <<kpc, kat, kresult, phase>>
vars == <<now, reg, advanced, files, net, out, answer, client, canceller, plan>>

Witnesses == 1 .. N
Entries == 1 .. MaxEntries
Callers == {"client", "canceller"}
NoCall == [kind |-> "none"]
NoAnswer == [kind |-> "none"]
NoReceipt == [witnesses |-> {}, approvers |-> {}]

-----------------------------------------------------------------------------
(***************************************************************************)
(* WitnessedAccessStatus.  The more final status wins a merge.             *)
(***************************************************************************)
Statuses == <<"Pending", "InsufficientQuorum", "Unavailable", "Denied",
              "Replay", "Stale", "Expired", "Cancelled">>

StatusPriority(s) == CHOOSE i \in DOMAIN Statuses : Statuses[i] = s

MutMerge(s, t) == IF s = "none" THEN t ELSE IF t = "none" THEN s
                  ELSE IF StatusPriority(s) =< StatusPriority(t) THEN s ELSE t

Merge(s, t) == IF s = "none" THEN t ELSE IF t = "none" THEN s
               ELSE IF StatusPriority(s) >= StatusPriority(t) THEN s ELSE t

\* The status of a call that was refused, or that got no answer.
RefusalStatus == [Expired |-> "Expired", StalePolicy |-> "Stale",
                  Invalid |-> "Unavailable", Timeout |-> "Unavailable"]

\* The status of a recorded denial, by its reason.
StatusOf == [Expired |-> "Expired", StalePolicy |-> "Stale",
             ApprovalDenied |-> "Denied", Cancelled |-> "Cancelled"]

MergeAll(S) == IF S = {} THEN "none"
               ELSE CHOOSE s \in S : \A t \in S : Merge(s, t) = s

-----------------------------------------------------------------------------
(***************************************************************************)
(* A witness.  Open says that it holds the request without a response.     *)
(***************************************************************************)
Open(s) == s \in {"none", "Reserved"}

Progress(kind, value) == [kind |-> kind, value |-> value]

\* The reasons for which a witness may refuse to validate a request now.
MayExpire(w) == IF w \in plan.expiring THEN {"Expired"} ELSE {}

Refusals(w) == MayExpire(w) \union (IF w \in advanced THEN {"StalePolicy"} ELSE {})

Tally(A) ==
  LET approved  == Cardinality({a \in DOMAIN A : A[a] = "Approve"})
      undecided == Cardinality(Approvers \ DOMAIN A)
  IN  IF approved >= ApprovalThreshold THEN "Approved"
      ELSE IF approved + undecided < ApprovalThreshold THEN "ApprovalDenied"
      ELSE "Reserved"

\* The possible <<record, answer>> of a witness that serves the call.
ReserveResults(m) ==
  LET s == reg[m.entry][m.to] IN
  IF s = "none"
  THEN {<<s, Progress("refused", r)>> : r \in Refusals(m.to)} \union
       (IF m.to \in advanced THEN {}
        ELSE {<<"Reserved", Progress("reserved", "none")>>})
  ELSE {<<s, IF s = "Reserved" THEN Progress("reserved", "none")
             ELSE Progress("stable", s)>>}

DecideResults(m) ==
  LET s == reg[m.entry][m.to]
      t == Tally(m.approvals)
  IN
  CASE s = "none" -> {<<s, Progress("refused", "Invalid")>>}
    [] s = "Reserved" ->
         {<<x, Progress("stable", x)>> : x \in MayExpire(m.to)} \union
         {<<t, IF t = "Reserved" THEN Progress("pending", "none")
               ELSE Progress("stable", t)>>}
    [] OTHER -> {<<s, Progress("stable", s)>>}

CancelResults(m) ==
  LET s == reg[m.entry][m.to] IN
  IF Open(s)
  THEN {<<s, Progress("refused", r)>> : r \in Refusals(m.to)} \union
       (IF m.to \in advanced THEN {}
        ELSE {<<"Cancelled", Progress("cancelled", "Cancelled")>>})
  ELSE {<<s, IF s = "Cancelled" THEN Progress("cancelled", s)
             ELSE Progress("too-late", s)>>}

Results(m) == CASE m.kind = "reserve" -> ReserveResults(m)
                [] m.kind = "decide"  -> DecideResults(m)
                [] m.kind = "cancel"  -> CancelResults(m)

\* The witness serves a call; the answer reaches the caller that still waits.
Serve(m) ==
  \E r \in Results(m) :
    /\ net' = net \ {m}
    /\ reg' = [reg EXCEPT ![m.entry][m.to] = r[1]]
    /\ answer' = IF out[m.from] = m THEN [answer EXCEPT ![m.from] = r[2]] ELSE answer
    /\ UNCHANGED <<now, advanced, files, out, client, canceller, plan>>

\* advance_checkpoint denies every request that is still reserved.
AdvanceCheckpoint(w) ==
  /\ w \in plan.advancing \ advanced
  /\ advanced' = advanced \union {w}
  /\ reg' = [e \in Entries |->
       [reg[e] EXCEPT ![w] = IF @ = "Reserved" THEN "StalePolicy" ELSE @]]
  /\ UNCHANGED <<now, files, net, out, answer, client, canceller, plan>>

-----------------------------------------------------------------------------
(***************************************************************************)
(* Calls of the two commands.  A caller has at most one call outstanding.  *)
(***************************************************************************)
Call(caller, kind, e, w, A) ==
  LET m == [from |-> caller, kind |-> kind, entry |-> e, to |-> w, approvals |-> A]
  IN /\ out[caller] = NoCall
     /\ net' = net \union {m}
     /\ out' = [out EXCEPT ![caller] = m]
     /\ UNCHANGED <<now, reg, advanced, files, answer, plan>>

\* The caller takes the answer, or gives up on one that has not come.
Outcome(caller) == IF answer[caller] = NoAnswer
                   THEN Progress("refused", "Timeout") ELSE answer[caller]

\* An abandoned call is lost, or served later.
Abandoned == {m \in net : out[m.from] # m}

Hangup(caller) ==
  /\ out[caller] # NoCall
  /\ out' = [out EXCEPT ![caller] = NoCall]
  /\ answer' = [answer EXCEPT ![caller] = NoAnswer]
  /\ \/ net' = net \ {out[caller]}
     \/ /\ out[caller] \in net /\ Cardinality(Abandoned) < MaxLate
        /\ net' = net
  /\ UNCHANGED <<now, reg, advanced, files, plan>>

-----------------------------------------------------------------------------
(***************************************************************************)
(* The executing command.                                                  *)
(***************************************************************************)
ExpiresAt == issued[entry] + Lifetime
OutOfTime == now >= plan.deadline
idle == <<now, reg, advanced, files, net, out, answer, canceller, plan>>

Fail(status) == /\ pc' = "failed" /\ report' = status
                /\ UNCHANGED <<entry, at, issued, waitEnd, approvals, resp,
                               failure, opened, counted, receipts, effect>>

\* The request is created and published; a destination may be taken.
StartEntry ==
  /\ pc = "start" /\ UNCHANGED idle
  /\ \/ Fail("Refused")
     \/ /\ ~OutOfTime
        /\ issued' = [issued EXCEPT ![entry] = now]
        /\ pc' = "reserve" /\ at' = 1
        /\ approvals' = [a \in {} |-> "none"]
        /\ resp' = [w \in Witnesses |-> "none"]
        /\ failure' = "none" /\ counted' = {}
        /\ UNCHANGED <<entry, waitEnd, opened, receipts, effect, report>>

CallWitness ==
  /\ pc \in {"reserve", "decide"} /\ ~OutOfTime
  /\ Call("client", pc, entry, at, approvals)
  /\ UNCHANGED <<client, canceller>>

\* The deadline of the batch is checked before every call.
BatchDeadline == /\ pc \in {"reserve", "decide", "wait"} /\ OutOfTime
                 /\ out["client"] = NoCall
                 /\ Fail("Deadline") /\ UNCHANGED idle

\* A response replaces the earlier one of that witness; errors are merged.
TakeAnswer ==
  LET a == Outcome("client") IN
  /\ pc \in {"reserve", "decide"}
  /\ Hangup("client")
  /\ resp' = IF a.kind = "stable" THEN [resp EXCEPT ![at] = a.value] ELSE resp
  /\ failure' = IF a.kind = "refused" THEN Merge(failure, RefusalStatus[a.value])
                ELSE failure
  /\ at' = IF at = N THEN 1 ELSE at + 1
  /\ pc' = IF at < N THEN pc ELSE IF pc = "reserve" THEN "wait" ELSE "open"
  /\ waitEnd' = IF pc' = "wait" THEN now + Wait ELSE waitEnd
  /\ UNCHANGED <<entry, issued, approvals, opened, counted, receipts, effect,
                 report, canceller>>

\* One round of the loop over the decision files.  Two files of one approver
\* must hold the same approval: equal decisions may still be unequal.
Present == {p \in Paths : files[entry][p] # "none"}
Repeated == \E p, q \in Present : p # q /\ ApproverOf[p] = ApproverOf[q]
Contradict == \E p, q \in Present : /\ ApproverOf[p] = ApproverOf[q]
                                    /\ files[entry][p] # files[entry][q]
Decided == {ApproverOf[p] : p \in Present}

WaitOver == now >= waitEnd \/ (now >= ExpiresAt /\ Present = {})

WaitForApprovals ==
  /\ pc = "wait" /\ ~OutOfTime /\ UNCHANGED idle
  /\ \/ /\ ApprovalThreshold = 0 \/ (Cardinality(Decided) >= ApprovalThreshold
                                     /\ ~Contradict /\ now < ExpiresAt)
        /\ approvals' = IF ApprovalThreshold = 0 THEN approvals
                        ELSE [a \in Decided |->
                                files[entry][CHOOSE p \in Present : ApproverOf[p] = a]]
        /\ pc' = "decide"
        /\ UNCHANGED <<entry, at, issued, waitEnd, resp, failure, opened,
                       counted, receipts, effect, report>>
     \/ /\ ApprovalThreshold > 0
        /\ Repeated \/ (Present # {} /\ now >= ExpiresAt)
        /\ Fail("InvalidApproval")
     \/ /\ Cardinality(Decided) < ApprovalThreshold /\ ~Contradict
        /\ WaitOver
        /\ Fail("ApprovalPending")

\* The shares are opened in the order of their index until there are enough.
Approving == {w \in Witnesses : resp[w] = "Approved"}
Usable == Approving \ plan.damaged

Shares == {w \in Usable : Cardinality({v \in Usable : v < w}) < WitnessThreshold}

Terminal == MergeAll({StatusOf[resp[w]] : w \in {v \in Witnesses :
                                           resp[v] \notin {"none", "Approved"}}})

WitnessQuorum == Cardinality(Approving) >= WitnessThreshold

OpenContent ==
  /\ pc = "open" /\ UNCHANGED idle
  /\ \/ /\ now >= ExpiresAt
        /\ Fail(Merge("Expired", failure))
     \/ /\ now < ExpiresAt /\ ~WitnessQuorum
        /\ Fail(Merge(IF Terminal = "none" THEN "InsufficientQuorum"
                      ELSE Terminal, failure))
     \/ /\ now < ExpiresAt /\ WitnessQuorum
        /\ Cardinality(Shares) < WitnessThreshold
        /\ Fail(Merge(Merge(Terminal, "Unavailable"), failure))
     \/ /\ now < ExpiresAt /\ WitnessQuorum
        /\ Cardinality(Shares) = WitnessThreshold
        /\ opened' = opened \union {entry}
        /\ counted' = Shares
        /\ pc' = "receipt"
        /\ UNCHANGED <<entry, at, issued, waitEnd, approvals, resp, failure,
                       receipts, effect, report>>

\* assemble_witness_receipt and its publication at a path that must be free.
ApprovingApprovers == {a \in DOMAIN approvals : approvals[a] = "Approve"}

Assembles == /\ Cardinality(ApprovingApprovers) >= ApprovalThreshold
             /\ Cardinality(counted) >= WitnessThreshold
             /\ now < ExpiresAt

\* The contents of an owner change are opened one after the other.
NextEntry == IF entry = plan.last THEN pc' = "effect" /\ UNCHANGED entry
             ELSE pc' = "start" /\ entry' = entry + 1

PublishReceipt ==
  /\ pc = "receipt" /\ UNCHANGED idle
  /\ \/ Fail("ReceiptFailed")
     \/ /\ Assembles
        /\ receipts' = [receipts EXCEPT ![entry] =
             [witnesses |-> counted, approvers |-> ApprovingApprovers]]
        /\ NextEntry
        /\ UNCHANGED <<at, issued, waitEnd, approvals, resp, failure, opened,
                       counted, effect, report>>

MutTakeEffect == /\ pc \in {"receipt", "effect"} /\ UNCHANGED idle
                 /\ effect' = TRUE /\ pc' = "done"
                 /\ UNCHANGED <<entry, at, issued, waitEnd, approvals, resp,
                                failure, opened, counted, receipts, report>>

\* The value is written out, the child is run or the mutation committed.
TakeEffect == /\ pc = "effect" /\ UNCHANGED idle
              /\ effect' = TRUE /\ pc' = "done"
              /\ UNCHANGED <<entry, at, issued, waitEnd, approvals, resp,
                             failure, opened, counted, receipts, report>>

-----------------------------------------------------------------------------
(***************************************************************************)
(* The cancelling command, for the first request.                          *)
(***************************************************************************)
Published(e) == issued[e] # 0

StartCancel == /\ kpc = "idle" /\ Published(1) /\ plan.cancelling
               /\ kpc' = "cancel" /\ kat' = 1
               /\ UNCHANGED <<now, reg, advanced, files, net, out, answer,
                              client, kresult, phase, plan>>

CallCancel == /\ kpc = "cancel"
              /\ Call("canceller", "cancel", 1, kat, <<>>)
              /\ UNCHANGED <<client, canceller>>

\* A kind of answer that is not expected here counts as failed.
CancelCount(a) == CASE a.kind = "cancelled" -> "cancelled"
                    [] a.kind = "too-late"  -> "too-late"
                    [] OTHER                -> "failed"

CountOf(r, k) == Cardinality({w \in Witnesses : r[w] = k})

MutPhase(r) == IF CountOf(r, "too-late") > 0 THEN "too-late"
               ELSE IF CountOf(r, "cancelled") = N THEN "cancelled"
               ELSE IF CountOf(r, "cancelled") >= N - WitnessThreshold
                    THEN "quorum-precluded" ELSE "partial"

Phase(r) == IF CountOf(r, "too-late") > 0 THEN "too-late"
            ELSE IF CountOf(r, "cancelled") = N THEN "cancelled"
            ELSE IF CountOf(r, "cancelled") > N - WitnessThreshold
                 THEN "quorum-precluded" ELSE "partial"

TakeCancelAnswer ==
  /\ kpc = "cancel"
  /\ Hangup("canceller")
  /\ kresult' = [kresult EXCEPT ![kat] = CancelCount(Outcome("canceller"))]
  /\ kpc' = IF kat = N THEN "done" ELSE "cancel"
  /\ kat' = IF kat = N THEN kat ELSE kat + 1
  /\ phase' = IF kat = N THEN Phase(kresult') ELSE phase
  /\ UNCHANGED client

-----------------------------------------------------------------------------
(***************************************************************************)
(* Approvers decide while the request is in force; a decision file is      *)
(* never replaced.                                                         *)
(***************************************************************************)
ApproveRequest(e, p, d) ==
  /\ p \in plan.paths
  /\ Published(e) /\ now < issued[e] + Lifetime
  /\ files[e][p] = "none"
  /\ files' = [files EXCEPT ![e][p] = d]
  /\ UNCHANGED <<now, reg, advanced, net, out, answer, client, canceller, plan>>

\* The bound on the clock does not cut a wait short.
Tick == /\ now < plan.until \/ (pc = "wait" /\ now < waitEnd)
        /\ now' = now + 1
        /\ UNCHANGED <<reg, advanced, files, net, out, answer, client,
                       canceller, plan>>

Init ==
  /\ now = 1
  /\ reg = [e \in Entries |-> [w \in Witnesses |-> "none"]]
  /\ advanced = {} /\ net = {}
  /\ files = [e \in Entries |-> [p \in Paths |-> "none"]]
  /\ out = [c \in Callers |-> NoCall]
  /\ answer = [c \in Callers |-> NoAnswer]
  /\ pc = "start" /\ entry = 1 /\ at = 1
  /\ issued = [e \in Entries |-> 0] /\ waitEnd = 0
  /\ approvals = [a \in {} |-> "none"]
  /\ resp = [w \in Witnesses |-> "none"]
  /\ failure = "none" /\ report = "none"
  /\ opened = {} /\ counted = {} /\ effect = FALSE
  /\ receipts = [e \in Entries |-> NoReceipt]
  /\ plan \in Plans
  /\ kpc = "idle" /\ kat = 1 /\ phase = "none"
  /\ kresult = [w \in Witnesses |-> "none"]

Command == \/ StartEntry \/ CallWitness \/ BatchDeadline \/ TakeAnswer
           \/ WaitForApprovals \/ OpenContent \/ PublishReceipt \/ TakeEffect

Next == \/ Command
        \/ StartCancel \/ CallCancel \/ TakeCancelAnswer
        \/ \E m \in net : Serve(m)
        \/ \E w \in Witnesses : AdvanceCheckpoint(w)
        \/ \E e \in Entries, p \in Paths, d \in {"Approve", "Deny"} :
             ApproveRequest(e, p, d)
        \/ Tick

Spec == Init /\ [][Next]_vars

(***************************************************************************)
(* The command is a running process whose calls time out after             *)
(* REQUEST_TIMEOUT and whose clock advances.  Nothing is assumed of the    *)
(* witnesses, the approvers or the network.                                *)
(***************************************************************************)
LiveSpec == Spec /\ WF_vars(Command) /\ WF_vars(Tick)

-----------------------------------------------------------------------------
(***************************************************************************)
(* The value leaves the process, the child runs or the mutation is         *)
(* committed only when every content was opened with the shares of a       *)
(* quorum of witnesses that recorded the approval of exactly that request, *)
(* backed by enough approvers, and a receipt naming them is on disk        *)
(* (publish_witness_receipt precedes the output).                          *)
(***************************************************************************)
EffectEvidenced ==
  effect => \A e \in 1 .. plan.last :
    /\ e \in opened
    /\ Cardinality(receipts[e].witnesses) = WitnessThreshold
    /\ \A w \in receipts[e].witnesses : reg[e][w] = "Approved" /\ w \notin plan.damaged
    /\ Cardinality({a \in receipts[e].approvers :
         \E p \in Paths : ApproverOf[p] = a /\ files[e][p] = "Approve"})
       >= ApprovalThreshold

(***************************************************************************)
(* "cancelled means every selected witness acknowledged; quorum-precluded  *)
(* means enough acknowledged to prevent a quorum"                          *)
(* (witness-operator-walkthrough.md): once request_cancel has reported     *)
(* either, the content is not opened, whatever calls are still under way.  *)
(***************************************************************************)
PrecludedNeverOpens == phase \in {"cancelled", "quorum-precluded"} => 1 \notin opened

(***************************************************************************)
(* access_revision finds an approving quorum only when the receipt that    *)
(* publish_witness_receipt must write can be assembled from what the       *)
(* command collected: until the request expires, an opened content is      *)
(* never one that no receipt can account for.                              *)
(***************************************************************************)
OpenedIsAccountable == pc = "receipt" /\ now < ExpiresAt => Assembles

(***************************************************************************)
(* No opening without evidence: neither between the opening and the        *)
(* receipt, nor behind what the command then does with the content.        *)
(***************************************************************************)
OpeningEvidenced == OpenedIsAccountable /\ EffectEvidenced

(***************************************************************************)
(* The status a failed opening reports is the most final of the things     *)
(* that happened: a cancellation that any witness answered with is not     *)
(* hidden by a timeout or a refusal of another one (merge_failure_status). *)
(***************************************************************************)
CancellationReported ==
  [][pc = "open" /\ pc' = "failed" /\ (\E w \in Witnesses : resp[w] = "Cancelled")
     => report' \in {"Cancelled"} \union (IF now >= ExpiresAt THEN {"Expired"} ELSE {})]_vars
=============================================================================
