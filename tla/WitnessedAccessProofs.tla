----------------------- MODULE WitnessedAccessProofs ------------------------
(***************************************************************************)
(* Witnessed access for every number of witnesses and approvers, every     *)
(* threshold and every number of contents: a reported preclusion is final, *)
(* and nothing is opened or takes effect without its evidence.             *)
(*                                                                         *)
(* First the inductive invariant, the cases of a step, and that every step *)
(* keeps types, records and calls; then the answers, the tallies and the   *)
(* evidence.                                                               *)
(***************************************************************************)
EXTENDS WitnessedAccess, FiniteSetTheorems, TLAPS

Terminals == {"Approved", "ApprovalDenied", "Expired", "StalePolicy", "Cancelled"}
Records == {"none", "Reserved"} \cup Terminals
Steps == {"start", "reserve", "wait", "decide", "open", "receipt", "effect",
          "done", "failed"}
Receipts == [witnesses : SUBSET Witnesses, approvers : SUBSET Approvers]

Typed ==
  /\ reg \in [Entries -> [Witnesses -> Records]]
  /\ files \in [Entries -> [Paths -> {"none", "Approve", "Deny"}]]
  /\ plan \in Plans
  /\ pc \in Steps /\ entry \in 1 .. plan.last /\ at \in Witnesses /\ kat \in Witnesses
  /\ resp \in [Witnesses -> Terminals \cup {"none"}]
  /\ kresult \in [Witnesses -> {"none", "cancelled", "too-late", "failed"}]
  /\ opened \subseteq Entries /\ counted \subseteq Witnesses
  /\ receipts \in [Entries -> Receipts]
  /\ DOMAIN out = Callers /\ DOMAIN answer = Callers

\* Before the command sends the approvals of the entry it is at.
Undecided == pc \in {"start", "reserve", "wait"}

\* A call on its way is one the code sends.  Decisions go out for the entry
\* the command is at, with the approvals it collected, or for an earlier one.
Sent(m) ==
  /\ m.from \in Callers /\ m.to \in Witnesses /\ m.entry \in 1 .. entry
  /\ m.kind \in {"reserve", "decide", "cancel"}
  /\ m.kind = "decide" /\ m.entry = entry => ~Undecided /\ m.approvals = approvals

Outstanding ==
  /\ out["client"] # NoCall => /\ pc \in {"reserve", "decide"}
                               /\ out["client"].entry = entry /\ out["client"].to = at
  /\ out["canceller"] # NoCall => /\ kpc = "cancel"
                                  /\ out["canceller"].entry = 1 /\ out["canceller"].to = kat

\* An answer states what the witness has recorded for good.
Told(c) ==
  /\ out[c] = NoCall => answer[c] = NoAnswer
  /\ answer[c].kind = "stable" =>
       answer[c].value \in Terminals /\ reg[out[c].entry][out[c].to] = answer[c].value
  /\ answer[c].kind = "cancelled" => reg[out[c].entry][out[c].to] = "Cancelled"

Calling == /\ \A m \in net : Sent(m)
           /\ Outstanding
           /\ \A c \in Callers : Told(c)

\* What the command holds of the witnesses and the approvers is so.
Answered == pc \in {"reserve", "wait", "decide", "open"} =>
              \A w \in Witnesses : resp[w] # "none" => reg[entry][w] = resp[w]

Tallied == \A w \in Witnesses, e \in Entries :
  /\ e > entry => reg[e][w] # "Approved"
  /\ e = entry /\ reg[e][w] = "Approved" => ~Undecided /\ Tally(approvals) = "Approved"

Backed(e, a) == \E p \in Paths : ApproverOf[p] = a /\ files[e][p] = "Approve"

Signed == pc \in {"reserve", "wait", "decide", "open", "receipt"} =>
            \A a \in ApprovingApprovers : a \in Approvers /\ Backed(entry, a)

Known == Answered /\ Tallied /\ Signed

Receipted(e) ==
  /\ e \in opened
  /\ Cardinality(receipts[e].witnesses) = WitnessThreshold
  /\ \A w \in receipts[e].witnesses : reg[e][w] = "Approved" /\ w \notin plan.damaged
  /\ Cardinality(receipts[e].approvers) >= ApprovalThreshold
  /\ \A a \in receipts[e].approvers : Backed(e, a)

Evidence ==
  /\ pc = "receipt" => /\ entry \in opened
                       /\ Cardinality(counted) = WitnessThreshold
                       /\ \A w \in counted : reg[entry][w] = "Approved" /\ w \notin plan.damaged
  /\ \A e \in 1 .. plan.last :
       e < entry \/ pc \in {"effect", "done"} => Receipted(e)
  /\ effect => pc = "done"

\* Openings and preclusions rest on sets of witnesses that cannot be disjoint.
Approves(e, Q) == \A w \in Q : reg[e][w] = "Approved"
Cancels(Q) == \A w \in Q : reg[1][w] = "Cancelled"

Quorums ==
  /\ \A e \in opened : \E Q \in SUBSET Witnesses :
       Cardinality(Q) = WitnessThreshold /\ Approves(e, Q)
  /\ \A w \in Witnesses : kresult[w] = "cancelled" => reg[1][w] = "Cancelled"
  /\ phase \in {"cancelled", "quorum-precluded"} => \E Q \in SUBSET Witnesses :
       Cardinality(Q) > N - WitnessThreshold /\ Cancels(Q)

AccessInv == Typed /\ Calling /\ Known /\ Evidence /\ Quorums

-----------------------------------------------------------------------------
(***************************************************************************)
(* What a witness records and answers: a response is never replaced, an    *)
(* answer states it, and only decisions whose approvals suffice lead to an *)
(* approval (DecisionRegister's promises).                                 *)
(***************************************************************************)
LEMMA ResultsSound ==
  ASSUME Typed, NEW m, Sent(m), NEW r \in Results(m)
  PROVE  LET s == reg[m.entry][m.to] IN
         /\ r[1] \in Records
         /\ s \in Terminals => r[1] = s
         /\ r[2].kind = "stable" => r[2].value = r[1] /\ r[1] \in Terminals
         /\ r[2].kind = "cancelled" => r[1] = "Cancelled"
         /\ r[1] = "Approved" /\ s # "Approved" =>
              m.kind = "decide" /\ Tally(m.approvals) = "Approved"
<1> DEFINE s == reg[m.entry][m.to]
<1>1. s \in Records
  BY AccessAssumption DEF Typed, Sent, Entries
<1>2. CASE m.kind = "reserve"
  BY <1>1, <1>2 DEF Results, ReserveResults, Refusals, MayExpire, Progress, Records, Terminals
<1>3. CASE m.kind = "decide"
  <2>1. Tally(m.approvals) \in {"Approved", "ApprovalDenied", "Reserved"} BY DEF Tally
  <2>2. r \in DecideResults(m) BY <1>3 DEF Results
  <2>3. CASE s = "none"
    BY <2>2, <2>3, <1>3 DEF DecideResults, Progress, Records, Terminals
  <2>4. CASE s = "Reserved"
    BY <2>1, <2>2, <2>4, <1>3 DEF DecideResults, MayExpire, Progress, Records, Terminals
  <2>5. CASE s \in Terminals
    BY <2>2, <2>5, <1>3 DEF DecideResults, Progress, Records, Terminals
  <2> QED BY <1>1, <2>3, <2>4, <2>5 DEF Records
<1>4. CASE m.kind = "cancel"
  BY <1>1, <1>4 DEF Results, CancelResults, Refusals, MayExpire, Progress, Records, Terminals, Open
<1> QED BY <1>2, <1>3, <1>4 DEF Sent

-----------------------------------------------------------------------------
(***************************************************************************)
(* The command's steps, with every way to fail taken together.             *)
(***************************************************************************)
Fails == /\ pc \notin {"effect", "done", "failed"} /\ out["client"] = NoCall
         /\ UNCHANGED idle /\ \E status \in {report'} : Fail(status)

Starts == /\ pc = "start" /\ UNCHANGED idle
          /\ pc' = "reserve" /\ at' = 1
          /\ approvals' = [a \in {} |-> "none"]
          /\ resp' = [w \in Witnesses |-> "none"]
          /\ counted' = {}
          /\ UNCHANGED <<entry, opened, receipts, effect>>

Collects == /\ pc = "wait" /\ UNCHANGED idle
            /\ approvals' = IF ApprovalThreshold = 0 THEN approvals
                            ELSE [a \in Decided |->
                                    files[entry][CHOOSE p \in Present : ApproverOf[p] = a]]
            /\ pc' = "decide"
            /\ UNCHANGED <<entry, at, resp, opened, counted, receipts, effect>>

Opens == /\ pc = "open" /\ UNCHANGED idle
         /\ Cardinality(Shares) = WitnessThreshold
         /\ opened' = opened \union {entry}
         /\ counted' = Shares
         /\ pc' = "receipt"
         /\ UNCHANGED <<entry, at, approvals, resp, receipts, effect>>

Publishes == /\ pc = "receipt" /\ UNCHANGED idle
             /\ Cardinality(ApprovingApprovers) >= ApprovalThreshold
             /\ receipts' = [receipts EXCEPT ![entry] =
                  [witnesses |-> counted, approvers |-> ApprovingApprovers]]
             /\ NextEntry
             /\ UNCHANGED <<at, approvals, resp, opened, counted, effect>>

(***************************************************************************)
(* The steps of Next fall into those cases and the steps of the others.    *)
(***************************************************************************)
LEMMA StepCases ==
  ASSUME AccessInv, Next
  PROVE  \/ Fails \/ Starts \/ CallWitness \/ TakeAnswer \/ Collects \/ Opens
         \/ Publishes \/ TakeEffect \/ StartCancel \/ CallCancel \/ TakeCancelAnswer
         \/ \E m \in net : Serve(m)
         \/ \E w \in Witnesses : AdvanceCheckpoint(w)
         \/ \E e \in Entries, p \in Paths, d \in {"Approve", "Deny"} : ApproveRequest(e, p, d)
         \/ Tick
<1>1. ASSUME NEW status, Fail(status) PROVE \E t \in {report'} : Fail(t)
  BY <1>1 DEF Fail
<1>2. pc \notin {"reserve", "decide"} => out["client"] = NoCall
  BY DEF AccessInv, Calling, Outstanding
<1>3. StartEntry => Fails \/ Starts
  BY <1>1, <1>2 DEF StartEntry, Fails, Starts
<1>4. BatchDeadline => Fails
  BY <1>1 DEF BatchDeadline, Fails
<1>5. WaitForApprovals => Fails \/ Collects
  BY <1>1, <1>2 DEF WaitForApprovals, Fails, Collects
<1>6. OpenContent => Fails \/ Opens
  BY <1>1, <1>2 DEF OpenContent, Fails, Opens
<1>7. PublishReceipt => Fails \/ Publishes
  BY <1>1, <1>2 DEF PublishReceipt, Fails, Publishes, Assembles
<1> QED BY <1>3, <1>4, <1>5, <1>6, <1>7 DEF Next, Command

\* A plan has as many contents as the bound allows.
LEMMA EntryTyped ==
  ASSUME Typed
  PROVE  /\ plan.last \in Nat /\ plan.last <= MaxEntries
         /\ entry \in Nat /\ 1 <= entry /\ entry <= plan.last /\ entry \in Entries
<1>1. plan.last \in 1 .. MaxEntries BY AccessAssumption DEF Typed
<1> QED BY <1>1, AccessAssumption DEF Typed, Entries

(***************************************************************************)
(* What the command takes from its call: a stable answer is on record at   *)
(* the witness it asked; a cancellation too.                               *)
(***************************************************************************)
LEMMA AnswerOnRecord ==
  ASSUME AccessInv, NEW c \in Callers, out[c] # NoCall
  PROVE  LET a == Outcome(c) IN
         /\ a.kind = "stable" =>
              a.value \in Terminals /\ reg[out[c].entry][out[c].to] = a.value
         /\ a.kind = "cancelled" => reg[out[c].entry][out[c].to] = "Cancelled"
BY DEF AccessInv, Calling, Told, Outcome, Progress

(***************************************************************************)
(* A witness that serves a call changes that one record, soundly.          *)
(***************************************************************************)
LEMMA ServeSound ==
  ASSUME AccessInv, NEW m \in net, Serve(m)
  PROVE  \E r \in Results(m) :
           LET s == reg[m.entry][m.to] IN
           /\ m.entry \in 1 .. entry /\ m.entry \in Entries /\ m.to \in Witnesses
           /\ reg' = [reg EXCEPT ![m.entry] = [reg[m.entry] EXCEPT ![m.to] = r[1]]]
           /\ answer' = IF out[m.from] = m THEN [answer EXCEPT ![m.from] = r[2]] ELSE answer
           /\ r[1] \in Records
           /\ s \in Terminals => r[1] = s
           /\ r[2].kind = "stable" => r[2].value = r[1] /\ r[1] \in Terminals
           /\ r[2].kind = "cancelled" => r[1] = "Cancelled"
           /\ r[1] = "Approved" /\ s # "Approved" =>
                m.kind = "decide" /\ Tally(m.approvals) = "Approved"
<1>1. Sent(m) BY DEF AccessInv, Calling
<1>2. m.entry \in 1 .. entry /\ m.entry \in Entries /\ m.to \in Witnesses
  BY <1>1, AccessAssumption DEF AccessInv, Typed, Sent, Entries
<1>3. PICK r \in Results(m) :
        /\ reg' = [reg EXCEPT ![m.entry][m.to] = r[1]]
        /\ answer' = IF out[m.from] = m THEN [answer EXCEPT ![m.from] = r[2]] ELSE answer
  BY Zenon DEF Serve
<1> QED BY <1>1, <1>2, <1>3, ResultsSound, Zenon DEF AccessInv

(***************************************************************************)
(* Every step keeps the types; a run opens no more contents than its plan  *)
(* has.                                                                    *)
(***************************************************************************)
LEMMA TypedStep ==
  ASSUME AccessInv, Next
  PROVE  Typed'
<1>1. ASSUME Fails PROVE Typed'
  BY <1>1, AccessAssumption DEF AccessInv, Typed, Steps, Records, Terminals,
       Receipts, Callers, Entries, Witnesses, Fails, Fail, idle, canceller
<1>2. ASSUME Starts PROVE Typed'
  BY <1>2, AccessAssumption DEF AccessInv, Typed, Steps, Records, Terminals,
       Receipts, Callers, Entries, Witnesses, Starts, idle, canceller
<1>3. ASSUME CallWitness PROVE Typed'
  BY <1>3, AccessAssumption DEF AccessInv, Typed, Steps, Records, Terminals,
       Receipts, Callers, Entries, Witnesses, CallWitness, Call, client, canceller
<1>4. ASSUME TakeAnswer PROVE Typed'
  <2>1. resp' \in [Witnesses -> Terminals \cup {"none"}]
    BY <1>4, AnswerOnRecord DEF AccessInv, Typed, TakeAnswer, Hangup, Callers
  <2> QED
    BY <1>4, <2>1, AccessAssumption DEF AccessInv, Typed, TakeAnswer, Hangup, Steps,
       Witnesses, Callers, canceller
<1>5. ASSUME Collects PROVE Typed'
  BY <1>5, AccessAssumption DEF AccessInv, Typed, Steps, Records, Terminals,
       Receipts, Callers, Entries, Witnesses, Collects, idle, canceller
<1>6. ASSUME Opens PROVE Typed'
  <2>1. Shares \subseteq Witnesses BY DEF Shares, Usable, Approving
  <2> QED
    BY <1>6, <2>1, EntryTyped DEF AccessInv, Typed, Opens, Steps, idle, canceller
<1>7. ASSUME Publishes PROVE Typed'
  <2>1. ApprovingApprovers \subseteq Approvers
    BY <1>7 DEF AccessInv, Known, Signed, Publishes
  <2>2. receipts' \in [Entries -> Receipts]
    BY <1>7, <2>1, Zenon DEF AccessInv, Typed, Publishes, Receipts
  <2>3. \/ entry = plan.last /\ pc' = "effect" /\ entry' = entry
        \/ entry # plan.last /\ pc' = "start" /\ entry' = entry + 1
    BY <1>7 DEF Publishes, NextEntry
  <2>4. pc' \in Steps /\ entry' \in 1 .. plan.last
    BY <2>3, EntryTyped DEF AccessInv, Steps
  <2> QED BY <1>7, <2>2, <2>4 DEF AccessInv, Typed, Publishes, idle, canceller
<1>8. ASSUME TakeEffect PROVE Typed'
  BY <1>8, AccessAssumption DEF AccessInv, Typed, Steps, Records, Terminals,
       Receipts, Callers, Entries, Witnesses, TakeEffect, idle, canceller
<1>9. ASSUME StartCancel PROVE Typed'
  BY <1>9, AccessAssumption DEF AccessInv, Typed, Steps, Records, Terminals,
       Receipts, Callers, Entries, Witnesses, StartCancel, client
<1>10. ASSUME CallCancel PROVE Typed'
  BY <1>10, AccessAssumption DEF AccessInv, Typed, Steps, Records, Terminals,
       Receipts, Callers, Entries, Witnesses, CallCancel, Call, client, canceller
<1>11. ASSUME TakeCancelAnswer PROVE Typed'
  BY <1>11, AccessAssumption DEF AccessInv, Typed, Steps, Records, Terminals,
       Receipts, Callers, Entries, Witnesses, TakeCancelAnswer, Hangup, Outcome,
       CancelCount, Progress, client
<1>12. ASSUME NEW m \in net, Serve(m) PROVE Typed'
  <2>1. PICK r : /\ m.entry \in Entries /\ m.to \in Witnesses /\ r[1] \in Records
                 /\ reg' = [reg EXCEPT ![m.entry] = [reg[m.entry] EXCEPT ![m.to] = r[1]]]
                 /\ answer' \in {answer, [answer EXCEPT ![m.from] = r[2]]}
    BY <1>12, ServeSound
  <2>2. reg' \in [Entries -> [Witnesses -> Records]] /\ DOMAIN answer' = Callers
    BY <2>1 DEF AccessInv, Typed
  <2> QED BY <1>12, <2>2 DEF AccessInv, Typed, Serve, client, canceller
<1>13. ASSUME NEW w \in Witnesses, AdvanceCheckpoint(w) PROVE Typed'
  BY <1>13, AccessAssumption DEF AccessInv, Typed, Steps, Records, Terminals,
       Receipts, Callers, Entries, Witnesses, AdvanceCheckpoint, client, canceller
<1>14. ASSUME NEW e \in Entries, NEW p \in Paths, NEW d \in {"Approve", "Deny"},
              ApproveRequest(e, p, d) PROVE Typed'
  BY <1>14, AccessAssumption DEF AccessInv, Typed, Steps, Records, Terminals,
       Receipts, Callers, Entries, Witnesses, ApproveRequest, client, canceller
<1>15. ASSUME Tick PROVE Typed'
  BY <1>15, AccessAssumption DEF AccessInv, Typed, Steps, Records, Terminals,
       Receipts, Callers, Entries, Witnesses, Tick, client, canceller
<1> QED BY StepCases, <1>1, <1>2, <1>3, <1>4, <1>5, <1>6, <1>7, <1>8, <1>9, <1>10, <1>11,
       <1>12, <1>13, <1>14, <1>15

(***************************************************************************)
(* A recorded response is never replaced (respond_and_persist).            *)
(***************************************************************************)
LEMMA RecordsKept ==
  ASSUME AccessInv, Next
  PROVE  \A x \in Entries, v \in Witnesses :
           reg[x][v] \in Terminals => reg'[x][v] = reg[x][v]
<1>1. ASSUME Fails PROVE \A x \in Entries, v \in Witnesses :
           reg[x][v] \in Terminals => reg'[x][v] = reg[x][v]
  BY <1>1 DEF AccessInv, Typed, Terminals, Fails, Fail, idle, canceller
<1>2. ASSUME Starts PROVE \A x \in Entries, v \in Witnesses :
           reg[x][v] \in Terminals => reg'[x][v] = reg[x][v]
  BY <1>2 DEF AccessInv, Typed, Terminals, Starts, idle, canceller
<1>3. ASSUME CallWitness PROVE \A x \in Entries, v \in Witnesses :
           reg[x][v] \in Terminals => reg'[x][v] = reg[x][v]
  BY ZenonT(30), <1>3 DEF AccessInv, Typed, Terminals, CallWitness, Call, client, canceller
<1>4. ASSUME TakeAnswer PROVE \A x \in Entries, v \in Witnesses :
           reg[x][v] \in Terminals => reg'[x][v] = reg[x][v]
  BY <1>4 DEF AccessInv, Typed, Terminals, TakeAnswer, Hangup, Outcome, Progress,
       canceller
<1>5. ASSUME Collects PROVE \A x \in Entries, v \in Witnesses :
           reg[x][v] \in Terminals => reg'[x][v] = reg[x][v]
  BY <1>5 DEF AccessInv, Typed, Terminals, Collects, idle, canceller
<1>6. ASSUME Opens PROVE \A x \in Entries, v \in Witnesses :
           reg[x][v] \in Terminals => reg'[x][v] = reg[x][v]
  BY <1>6 DEF AccessInv, Typed, Terminals, Opens, idle, canceller
<1>7. ASSUME Publishes PROVE \A x \in Entries, v \in Witnesses :
           reg[x][v] \in Terminals => reg'[x][v] = reg[x][v]
  BY <1>7 DEF AccessInv, Typed, Terminals, Publishes, NextEntry, idle, canceller
<1>8. ASSUME TakeEffect PROVE \A x \in Entries, v \in Witnesses :
           reg[x][v] \in Terminals => reg'[x][v] = reg[x][v]
  BY <1>8 DEF AccessInv, Typed, Terminals, TakeEffect, idle, canceller
<1>9. ASSUME StartCancel PROVE \A x \in Entries, v \in Witnesses :
           reg[x][v] \in Terminals => reg'[x][v] = reg[x][v]
  BY <1>9 DEF AccessInv, Typed, Terminals, StartCancel, client
<1>10. ASSUME CallCancel PROVE \A x \in Entries, v \in Witnesses :
           reg[x][v] \in Terminals => reg'[x][v] = reg[x][v]
  BY <1>10 DEF AccessInv, Typed, Terminals, CallCancel, Call, client, canceller
<1>11. ASSUME TakeCancelAnswer PROVE \A x \in Entries, v \in Witnesses :
           reg[x][v] \in Terminals => reg'[x][v] = reg[x][v]
  BY <1>11 DEF AccessInv, Typed, Terminals, TakeCancelAnswer, Hangup, Outcome,
       CancelCount, Progress, client
<1>12. ASSUME NEW m \in net, Serve(m) PROVE \A x \in Entries, v \in Witnesses :
           reg[x][v] \in Terminals => reg'[x][v] = reg[x][v]
  <2>1. PICK r :
          LET s == reg[m.entry][m.to] IN
          /\ m.entry \in Entries /\ m.to \in Witnesses
          /\ reg' = [reg EXCEPT ![m.entry] = [reg[m.entry] EXCEPT ![m.to] = r[1]]]
          /\ s \in Terminals => r[1] = s
    BY <1>12, ServeSound
  <2> QED BY <2>1 DEF AccessInv, Typed
<1>13. ASSUME NEW w \in Witnesses, AdvanceCheckpoint(w) PROVE \A x \in Entries, v \in Witnesses :
           reg[x][v] \in Terminals => reg'[x][v] = reg[x][v]
  BY <1>13 DEF AccessInv, Typed, Terminals, AdvanceCheckpoint, client, canceller
<1>14. ASSUME NEW e \in Entries, NEW p \in Paths, NEW d \in {"Approve", "Deny"},
              ApproveRequest(e, p, d) PROVE \A x \in Entries, v \in Witnesses :
           reg[x][v] \in Terminals => reg'[x][v] = reg[x][v]
  BY <1>14 DEF AccessInv, Typed, Terminals, ApproveRequest, client, canceller
<1>15. ASSUME Tick PROVE \A x \in Entries, v \in Witnesses :
           reg[x][v] \in Terminals => reg'[x][v] = reg[x][v]
  BY ZenonT(30), <1>15 DEF AccessInv, Typed, Terminals, Tick, client, canceller
<1> QED BY StepCases, <1>1, <1>2, <1>3, <1>4, <1>5, <1>6, <1>7, <1>8, <1>9, <1>10, <1>11,
       <1>12, <1>13, <1>14, <1>15

(***************************************************************************)
(* Calls under way stay calls of the code, and answers stay what is on     *)
(* record.                                                                 *)
(***************************************************************************)
LEMMA CallingStep ==
  ASSUME AccessInv, Next
  PROVE  Calling'
<1>1. ASSUME Fails PROVE Calling'
  BY <1>1 DEF AccessInv, Typed, Calling, Sent, Outstanding, Told, Undecided,
       Callers, NoCall, NoAnswer, Fails, Fail, idle, canceller
<1>2. ASSUME Starts PROVE Calling'
  BY <1>2 DEF AccessInv, Typed, Calling, Sent, Outstanding, Told, Undecided,
       Callers, NoCall, NoAnswer, Starts, idle, canceller
<1>3. ASSUME CallWitness PROVE Calling'
  <2>1. PICK n :
          /\ n.from = "client" /\ n.kind \in {pc} /\ n.entry = entry /\ n.to = at
          /\ n.approvals = approvals /\ out["client"] = NoCall
          /\ net' = net \cup {n} /\ out' = [out EXCEPT !["client"] = n]
    BY <1>3, Zenon DEF CallWitness, Call
  <2>2. pc \in {"reserve", "decide"} /\ UNCHANGED <<reg, answer, pc, entry, at, approvals, kpc, kat>>
    BY <1>3 DEF CallWitness, Call, client, canceller
  <2>3. Sent(n)'
    BY <2>1, <2>2, EntryTyped DEF AccessInv, Typed, Sent, Undecided, Callers
  <2>4. \A k \in net : Sent(k)'
    BY <2>2 DEF AccessInv, Calling, Sent, Undecided
  <2>5. out'["client"] = n /\ out'["canceller"] = out["canceller"]
    BY <2>1 DEF AccessInv, Typed, Callers
  <2>6. Outstanding' BY <2>1, <2>2, <2>5 DEF AccessInv, Calling, Outstanding
  <2>7. \A c \in Callers : Told(c)'
    <3>1. Told("client")'
      BY <2>1, <2>2, <2>5 DEF AccessInv, Calling, Told, Callers, NoAnswer
    <3>2. Told("canceller")'
      BY <2>2, <2>5 DEF AccessInv, Calling, Told, Callers
    <3> QED BY <3>1, <3>2 DEF Callers
  <2> QED BY <2>1, <2>3, <2>4, <2>6, <2>7 DEF Calling
<1>4. ASSUME TakeAnswer PROVE Calling'
  BY ZenonT(30), <1>4 DEF AccessInv, Typed, Calling, Sent, Outstanding, Told, Undecided,
       Callers, NoCall, NoAnswer, TakeAnswer, Hangup, Outcome, Progress, canceller
<1>5. ASSUME Collects PROVE Calling'
  BY <1>5 DEF AccessInv, Typed, Calling, Sent, Outstanding, Told, Undecided,
       Callers, NoCall, NoAnswer, Collects, idle, canceller
<1>6. ASSUME Opens PROVE Calling'
  BY <1>6 DEF AccessInv, Typed, Calling, Sent, Outstanding, Told, Undecided,
       Callers, NoCall, NoAnswer, Opens, idle, canceller
<1>7. ASSUME Publishes PROVE Calling'
  <2>1. /\ \/ pc' = "effect" /\ entry' = entry
           \/ pc' = "start" /\ entry' = entry + 1
        /\ pc = "receipt" /\ UNCHANGED <<net, out, answer, reg, approvals, kpc, kat>>
    BY <1>7 DEF Publishes, NextEntry, idle, canceller
  <2>2. \A n \in net : Sent(n)'
    BY <2>1, EntryTyped DEF AccessInv, Calling, Sent, Undecided
  <2>3. Outstanding' BY <2>1 DEF AccessInv, Calling, Outstanding
  <2>4. \A c \in Callers : Told(c)' BY <2>1 DEF AccessInv, Calling, Told
  <2> QED BY <2>1, <2>2, <2>3, <2>4 DEF Calling
<1>8. ASSUME TakeEffect PROVE Calling'
  BY ZenonT(30), <1>8 DEF AccessInv, Typed, Calling, Sent, Outstanding, Told, Undecided,
       Callers, NoCall, NoAnswer, TakeEffect, idle, canceller
<1>9. ASSUME StartCancel PROVE Calling'
  BY <1>9 DEF AccessInv, Typed, Calling, Sent, Outstanding, Told, Undecided,
       Callers, NoCall, NoAnswer, StartCancel, client
<1>10. ASSUME CallCancel PROVE Calling'
  <2>1. PICK n :
          /\ n.from = "canceller" /\ n.kind \in {"cancel"} /\ n.entry = 1 /\ n.to = kat
          /\ n.approvals = <<>> /\ out["canceller"] = NoCall
          /\ net' = net \cup {n} /\ out' = [out EXCEPT !["canceller"] = n]
    BY <1>10, Zenon DEF CallCancel, Call
  <2>2. kpc = "cancel" /\ UNCHANGED <<reg, answer, pc, entry, at, approvals, kpc, kat>>
    BY <1>10 DEF CallCancel, Call, client, canceller
  <2>3. Sent(n)'
    BY <2>1, <2>2, EntryTyped DEF AccessInv, Typed, Sent, Undecided, Callers
  <2>4. \A k \in net : Sent(k)'
    BY <2>2 DEF AccessInv, Calling, Sent, Undecided
  <2>5. out'["canceller"] = n /\ out'["client"] = out["client"]
    BY <2>1 DEF AccessInv, Typed, Callers
  <2>6. Outstanding' BY <2>1, <2>2, <2>5 DEF AccessInv, Calling, Outstanding
  <2>7. \A c \in Callers : Told(c)'
    <3>1. Told("canceller")'
      BY <2>1, <2>2, <2>5 DEF AccessInv, Calling, Told, Callers, NoAnswer
    <3>2. Told("client")'
      BY <2>2, <2>5 DEF AccessInv, Calling, Told, Callers
    <3> QED BY <3>1, <3>2 DEF Callers
  <2> QED BY <2>1, <2>3, <2>4, <2>6, <2>7 DEF Calling
<1>11. ASSUME TakeCancelAnswer PROVE Calling'
  BY <1>11 DEF AccessInv, Typed, Calling, Sent, Outstanding, Told, Undecided,
       Callers, NoCall, NoAnswer, TakeCancelAnswer, Hangup, Outcome, CancelCount,
       Progress, client
<1>12. ASSUME NEW m \in net, Serve(m) PROVE Calling'
  <2>1. PICK r \in Results(m) :
          /\ m.entry \in Entries /\ m.to \in Witnesses
          /\ reg' = [reg EXCEPT ![m.entry] = [reg[m.entry] EXCEPT ![m.to] = r[1]]]
          /\ answer' = IF out[m.from] = m THEN [answer EXCEPT ![m.from] = r[2]] ELSE answer
          /\ r[2].kind = "stable" => r[2].value = r[1] /\ r[1] \in Terminals
          /\ r[2].kind = "cancelled" => r[1] = "Cancelled"
    BY <1>12, ServeSound
  <2>2. (\A n \in net : Sent(n))' /\ Outstanding'
    BY <1>12 DEF AccessInv, Calling, Sent, Outstanding, Undecided, Serve, AdvanceCheckpoint,
       client, canceller
  <2>3. ASSUME NEW c \in Callers, answer'[c] = answer[c] PROVE Told(c)'
    <3>1. out' = out BY <1>12 DEF Serve, AdvanceCheckpoint
    <3>2. CASE out[c] = NoCall
      BY <2>3, <3>1, <3>2 DEF AccessInv, Calling, Told, NoAnswer
    <3>3. CASE out[c] # NoCall
      <4>1. out[c].entry \in Entries /\ out[c].to \in Witnesses
        BY <3>3, EntryTyped, AccessAssumption DEF AccessInv, Typed, Calling, Outstanding, Callers, Entries
      <4>2. Told(c) BY DEF AccessInv, Calling
      <4> QED BY <2>3, <3>1, <3>3, <4>1, <4>2, RecordsKept DEF Told, Terminals
    <3> QED BY <3>2, <3>3
  <2>4. ASSUME NEW c \in Callers, c = m.from, out[c] = m PROVE Told(c)'
    <3>1. answer'[c] = r[2] /\ out'[c] = m /\ reg'[m.entry][m.to] = r[1]
      BY <1>12, <2>1, <2>4 DEF AccessInv, Typed, Serve
    <3>2. m # NoCall
      <4>1. Sent(m) BY DEF AccessInv, Calling
      <4> QED BY <4>1 DEF Sent, NoCall
    <3> QED BY <2>1, <3>1, <3>2 DEF Told
  <2>5. \A c \in Callers : c # m.from \/ out[c] # m => answer'[c] = answer[c]
    BY <2>1 DEF AccessInv, Typed
  <2> QED BY <2>2, <2>3, <2>4, <2>5 DEF Calling, Callers
<1>13. ASSUME NEW w \in Witnesses, AdvanceCheckpoint(w) PROVE Calling'
  <2>2. (\A n \in net : Sent(n))' /\ Outstanding'
    BY <1>13 DEF AccessInv, Calling, Sent, Outstanding, Undecided, Serve, AdvanceCheckpoint,
       client, canceller
  <2>3. ASSUME NEW c \in Callers, answer'[c] = answer[c] PROVE Told(c)'
    <3>1. out' = out BY <1>13 DEF Serve, AdvanceCheckpoint
    <3>2. CASE out[c] = NoCall
      BY <2>3, <3>1, <3>2 DEF AccessInv, Calling, Told, NoAnswer
    <3>3. CASE out[c] # NoCall
      <4>1. out[c].entry \in Entries /\ out[c].to \in Witnesses
        BY <3>3, EntryTyped, AccessAssumption DEF AccessInv, Typed, Calling, Outstanding, Callers, Entries
      <4>2. Told(c) BY ZenonT(30) DEF AccessInv, Calling
      <4> QED BY <2>3, <3>1, <3>3, <4>1, <4>2, RecordsKept DEF Told, Terminals
    <3> QED BY <3>2, <3>3
  <2> QED BY <1>13, <2>2, <2>3 DEF Calling, AdvanceCheckpoint
<1>14. ASSUME NEW e \in Entries, NEW p \in Paths, NEW d \in {"Approve", "Deny"},
              ApproveRequest(e, p, d) PROVE Calling'
  BY ZenonT(30), <1>14 DEF AccessInv, Typed, Calling, Sent, Outstanding, Told, Undecided,
       Callers, NoCall, NoAnswer, ApproveRequest, client, canceller
<1>15. ASSUME Tick PROVE Calling'
  BY ZenonT(30), <1>15 DEF AccessInv, Typed, Calling, Sent, Outstanding, Told, Undecided,
       Callers, NoCall, NoAnswer, Tick, client, canceller
<1> QED BY StepCases, <1>1, <1>2, <1>3, <1>4, <1>5, <1>6, <1>7, <1>8, <1>9, <1>10, <1>11,
       <1>12, <1>13, <1>14, <1>15

-----------------------------------------------------------------------------

(***************************************************************************)
(* The responses the command holds are the witnesses' for the entry it is  *)
(* at; an answer to an earlier request cannot be taken for one of this     *)
(* request.                                                                *)
(***************************************************************************)
LEMMA AnsweredStep ==
  ASSUME AccessInv, Next
  PROVE  Answered'
<1>1. ASSUME Fails PROVE Answered'
  BY ZenonT(30), <1>1 DEF AccessInv, Known, Answered, Fails, Fail, idle, canceller
<1>2. ASSUME Starts PROVE Answered'
  BY <1>2 DEF AccessInv, Known, Answered, Starts, idle, canceller
<1>3. ASSUME CallWitness PROVE Answered'
  <2>1. UNCHANGED <<reg, pc, resp, entry>>
    BY <1>3 DEF CallWitness, Call, client, canceller
  <2> QED BY <2>1 DEF AccessInv, Known, Answered
<1>4. ASSUME TakeAnswer PROVE Answered'
  <2>1. /\ pc \in {"reserve", "decide"} /\ out["client"] # NoCall
        /\ UNCHANGED <<reg, entry>>
        /\ resp' = IF Outcome("client").kind = "stable"
                   THEN [resp EXCEPT ![at] = Outcome("client").value] ELSE resp
    BY <1>4 DEF TakeAnswer, Hangup
  <2>2. out["client"].entry = entry /\ out["client"].to = at
    BY <2>1 DEF AccessInv, Calling, Outstanding
  <2>3. Outcome("client").kind = "stable" => reg[entry][at] = Outcome("client").value
    BY <2>1, <2>2, AnswerOnRecord DEF Callers
  <2> QED BY <2>1, <2>3 DEF AccessInv, Typed, Known, Answered
<1>5. ASSUME Collects PROVE Answered'
  BY <1>5 DEF AccessInv, Known, Answered, Collects, idle, canceller
<1>6. ASSUME Opens PROVE Answered'
  BY <1>6 DEF AccessInv, Known, Answered, Opens, idle, canceller
<1>7. ASSUME Publishes PROVE Answered'
  BY <1>7 DEF AccessInv, Known, Answered, Publishes, NextEntry, idle, canceller
<1>8. ASSUME TakeEffect PROVE Answered'
  BY <1>8 DEF AccessInv, Known, Answered, TakeEffect, idle, canceller
<1>9. ASSUME StartCancel PROVE Answered'
  <2>1. UNCHANGED <<reg, pc, resp, entry>>
    BY <1>9 DEF StartCancel, client
  <2> QED BY <2>1 DEF AccessInv, Known, Answered
<1>10. ASSUME CallCancel PROVE Answered'
  <2>1. UNCHANGED <<reg, pc, resp, entry>>
    BY <1>10 DEF CallCancel, Call, client, canceller
  <2> QED BY <2>1 DEF AccessInv, Known, Answered
<1>11. ASSUME TakeCancelAnswer PROVE Answered'
  <2>1. UNCHANGED <<reg, pc, resp, entry>>
    BY <1>11 DEF TakeCancelAnswer, Hangup, Outcome, CancelCount, Progress, client
  <2> QED BY <2>1 DEF AccessInv, Known, Answered
<1>12. ASSUME NEW m \in net, Serve(m) PROVE Answered'
  <2>1. UNCHANGED <<pc, resp, entry>> BY <1>12 DEF Serve, AdvanceCheckpoint, client
  <2>2. \A v \in Witnesses :
          /\ reg[entry][v] \in Terminals => reg'[entry][v] = reg[entry][v]
          /\ resp[v] \in Terminals \cup {"none"}
    BY RecordsKept, EntryTyped DEF AccessInv, Typed
  <2> QED BY <2>1, <2>2 DEF AccessInv, Known, Answered
<1>13. ASSUME NEW w \in Witnesses, AdvanceCheckpoint(w) PROVE Answered'
  <2>1. UNCHANGED <<pc, resp, entry>> BY <1>13 DEF Serve, AdvanceCheckpoint, client
  <2>2. \A v \in Witnesses :
          /\ reg[entry][v] \in Terminals => reg'[entry][v] = reg[entry][v]
          /\ resp[v] \in Terminals \cup {"none"}
    BY RecordsKept, EntryTyped DEF AccessInv, Typed
  <2> QED BY <2>1, <2>2 DEF AccessInv, Known, Answered
<1>14. ASSUME NEW e \in Entries, NEW p \in Paths, NEW d \in {"Approve", "Deny"},
              ApproveRequest(e, p, d) PROVE Answered'
  <2>1. UNCHANGED <<reg, pc, resp, entry>>
    BY <1>14 DEF ApproveRequest, client, canceller
  <2> QED BY <2>1 DEF AccessInv, Known, Answered
<1>15. ASSUME Tick PROVE Answered'
  <2>1. UNCHANGED <<reg, pc, resp, entry>>
    BY <1>15 DEF Tick, client, canceller
  <2> QED BY <2>1 DEF AccessInv, Known, Answered
<1> QED BY StepCases, <1>1, <1>2, <1>3, <1>4, <1>5, <1>6, <1>7, <1>8, <1>9, <1>10, <1>11,
       <1>12, <1>13, <1>14, <1>15

(***************************************************************************)
(* A witness has approved the entry's request only on the approvals that   *)
(* the command collected for it, and no request before it was created.     *)
(***************************************************************************)
LEMMA TalliedStep ==
  ASSUME AccessInv, Next
  PROVE  Tallied'
<1>1. ASSUME Fails PROVE Tallied'
  BY <1>1 DEF AccessInv, Known, Tallied, Undecided, Fails, Fail, idle, canceller
<1>2. ASSUME Starts PROVE Tallied'
  BY <1>2 DEF AccessInv, Known, Tallied, Undecided, Starts, idle, canceller
<1>3. ASSUME CallWitness PROVE Tallied'
  <2>1. UNCHANGED <<reg, pc, approvals, entry>>
    BY <1>3 DEF CallWitness, Call, client, canceller
  <2> QED BY <2>1 DEF AccessInv, Known, Tallied, Undecided, Tally
<1>4. ASSUME TakeAnswer PROVE Tallied'
  BY <1>4 DEF AccessInv, Known, Tallied, Undecided, TakeAnswer, Hangup, Outcome,
       Progress, canceller
<1>5. ASSUME Collects PROVE Tallied'
  BY <1>5 DEF AccessInv, Known, Tallied, Undecided, Collects, idle, canceller
<1>6. ASSUME Opens PROVE Tallied'
  BY <1>6 DEF AccessInv, Known, Tallied, Undecided, Opens, idle, canceller
<1>7. ASSUME Publishes PROVE Tallied'
  <2>1. /\ \/ pc' = "effect" /\ entry' = entry
           \/ pc' = "start" /\ entry' = entry + 1
        /\ pc = "receipt" /\ UNCHANGED <<reg, approvals>>
    BY <1>7 DEF Publishes, NextEntry, idle
  <2> QED BY <2>1, EntryTyped DEF AccessInv, Known, Tallied, Undecided, Tally, Entries
<1>8. ASSUME TakeEffect PROVE Tallied'
  BY <1>8 DEF AccessInv, Known, Tallied, Undecided, TakeEffect, idle, canceller
<1>9. ASSUME StartCancel PROVE Tallied'
  <2>1. UNCHANGED <<reg, pc, approvals, entry>>
    BY <1>9 DEF StartCancel, client
  <2> QED BY <2>1 DEF AccessInv, Known, Tallied, Undecided, Tally
<1>10. ASSUME CallCancel PROVE Tallied'
  <2>1. UNCHANGED <<reg, pc, approvals, entry>>
    BY <1>10 DEF CallCancel, Call, client, canceller
  <2> QED BY <2>1 DEF AccessInv, Known, Tallied, Undecided, Tally
<1>11. ASSUME TakeCancelAnswer PROVE Tallied'
  <2>1. UNCHANGED <<reg, pc, approvals, entry>>
    BY <1>11 DEF TakeCancelAnswer, Hangup, Outcome, CancelCount, Progress, client
  <2> QED BY <2>1 DEF AccessInv, Known, Tallied, Undecided, Tally
<1>12. ASSUME NEW m \in net, Serve(m) PROVE Tallied'
  <2>1. PICK r \in Results(m) :
          /\ m.entry \in Entries /\ m.to \in Witnesses
          /\ reg' = [reg EXCEPT ![m.entry] = [reg[m.entry] EXCEPT ![m.to] = r[1]]]
          /\ r[1] = "Approved" /\ reg[m.entry][m.to] # "Approved" =>
               m.kind = "decide" /\ Tally(m.approvals) = "Approved"
    BY <1>12, ServeSound
  <2>2. UNCHANGED <<pc, entry, approvals>> /\ Tally(approvals)' = Tally(approvals)
    BY <1>12 DEF Serve, client, Tally
  <2>3. Sent(m) BY DEF AccessInv, Calling
  <2>4. ASSUME NEW v \in Witnesses, NEW x \in Entries, reg[x][v] # "Approved",
               reg'[x][v] = "Approved"
        PROVE  x = m.entry /\ m.kind = "decide" /\ Tally(m.approvals) = "Approved"
    BY <2>1, <2>4 DEF AccessInv, Typed
  <2> QED
    BY <2>2, <2>3, <2>4, EntryTyped DEF AccessInv, Known, Tallied, Undecided, Sent
<1>13. ASSUME NEW w \in Witnesses, AdvanceCheckpoint(w) PROVE Tallied'
  BY <1>13 DEF AccessInv, Known, Tallied, Undecided, AdvanceCheckpoint, client,
       canceller
<1>14. ASSUME NEW e \in Entries, NEW p \in Paths, NEW d \in {"Approve", "Deny"},
              ApproveRequest(e, p, d) PROVE Tallied'
  <2>1. UNCHANGED <<reg, pc, approvals, entry>>
    BY <1>14 DEF ApproveRequest, client, canceller
  <2> QED BY <2>1 DEF AccessInv, Known, Tallied, Undecided, Tally
<1>15. ASSUME Tick PROVE Tallied'
  <2>1. UNCHANGED <<reg, pc, approvals, entry>>
    BY <1>15 DEF Tick, client, canceller
  <2> QED BY <2>1 DEF AccessInv, Known, Tallied, Undecided, Tally
<1> QED BY StepCases, <1>1, <1>2, <1>3, <1>4, <1>5, <1>6, <1>7, <1>8, <1>9, <1>10, <1>11,
       <1>12, <1>13, <1>14, <1>15

(***************************************************************************)
(* The approvals the command holds were signed by approvers of the rule    *)
(* for this entry's request, and decision files are never replaced.        *)
(***************************************************************************)
LEMMA SignedStep ==
  ASSUME AccessInv, Next
  PROVE  Signed'
<1>1. ASSUME Fails PROVE Signed'
  BY <1>1 DEF AccessInv, Known, Signed, Backed, ApprovingApprovers, Fails, Fail,
       idle, canceller
<1>2. ASSUME Starts PROVE Signed'
  BY <1>2 DEF AccessInv, Known, Signed, Backed, ApprovingApprovers, Starts, idle,
       canceller
<1>3. ASSUME CallWitness PROVE Signed'
  <2>1. UNCHANGED <<files, pc, approvals, entry>>
    BY <1>3 DEF CallWitness, Call, client, canceller
  <2> QED BY <2>1 DEF AccessInv, Known, Signed, Backed, ApprovingApprovers
<1>4. ASSUME TakeAnswer PROVE Signed'
  BY <1>4 DEF AccessInv, Known, Signed, Backed, ApprovingApprovers, TakeAnswer,
       Hangup, Outcome, Progress, canceller
<1>5. ASSUME Collects PROVE Signed'
  <2>1. pc = "wait" /\ UNCHANGED <<files, entry>>
    BY <1>5 DEF Collects, idle
  <2>2. CASE approvals' = approvals
    BY <2>1, <2>2 DEF AccessInv, Known, Signed, Backed, ApprovingApprovers
  <2>3. CASE approvals' = [a \in Decided |->
                             files[entry][CHOOSE p \in Present : ApproverOf[p] = a]]
    <3>1. ASSUME NEW a \in ApprovingApprovers' PROVE a \in Approvers /\ Backed(entry, a)
      <4>1. a \in Decided /\ approvals'[a] = "Approve"
        BY <2>3, <3>1 DEF ApprovingApprovers
      <4> DEFINE q == CHOOSE p \in Present : ApproverOf[p] = a
      <4>2. q \in Present /\ ApproverOf[q] = a BY <4>1 DEF Decided
      <4>3. files[entry][q] = "Approve" BY <2>3, <4>1
      <4> QED BY <4>2, <4>3, AccessAssumption, Zenon DEF Backed, Present
    <3> QED BY <2>1, <3>1 DEF Signed, Backed
  <2> QED BY <1>5, <2>2, <2>3 DEF Collects
<1>6. ASSUME Opens PROVE Signed'
  BY <1>6 DEF AccessInv, Known, Signed, Backed, ApprovingApprovers, Opens, idle,
       canceller
<1>7. ASSUME Publishes PROVE Signed'
  BY <1>7 DEF AccessInv, Known, Signed, Backed, ApprovingApprovers, Publishes,
       NextEntry, idle, canceller
<1>8. ASSUME TakeEffect PROVE Signed'
  BY <1>8 DEF AccessInv, Known, Signed, Backed, ApprovingApprovers, TakeEffect,
       idle, canceller
<1>9. ASSUME StartCancel PROVE Signed'
  <2>1. UNCHANGED <<files, pc, approvals, entry>>
    BY <1>9 DEF StartCancel, client
  <2> QED BY <2>1 DEF AccessInv, Known, Signed, Backed, ApprovingApprovers
<1>10. ASSUME CallCancel PROVE Signed'
  <2>1. UNCHANGED <<files, pc, approvals, entry>>
    BY <1>10 DEF CallCancel, Call, client, canceller
  <2> QED BY <2>1 DEF AccessInv, Known, Signed, Backed, ApprovingApprovers
<1>11. ASSUME TakeCancelAnswer PROVE Signed'
  <2>1. UNCHANGED <<files, pc, approvals, entry>>
    BY <1>11 DEF TakeCancelAnswer, Hangup, Outcome, CancelCount, Progress, client
  <2> QED BY <2>1 DEF AccessInv, Known, Signed, Backed, ApprovingApprovers
<1>12. ASSUME NEW m \in net, Serve(m) PROVE Signed'
  <2>1. UNCHANGED <<files, pc, approvals, entry>>
    BY <1>12 DEF Serve, client, canceller
  <2> QED BY <2>1 DEF AccessInv, Known, Signed, Backed, ApprovingApprovers
<1>13. ASSUME NEW w \in Witnesses, AdvanceCheckpoint(w) PROVE Signed'
  <2>1. UNCHANGED <<files, pc, approvals, entry>>
    BY <1>13 DEF AdvanceCheckpoint, client, canceller
  <2> QED BY <2>1 DEF AccessInv, Known, Signed, Backed, ApprovingApprovers
<1>14. ASSUME NEW e \in Entries, NEW p \in Paths, NEW d \in {"Approve", "Deny"},
              ApproveRequest(e, p, d) PROVE Signed'
  BY <1>14 DEF AccessInv, Known, Signed, Backed, ApprovingApprovers, ApproveRequest,
       client, canceller
<1>15. ASSUME Tick PROVE Signed'
  <2>1. UNCHANGED <<files, pc, approvals, entry>>
    BY ZenonT(30), <1>15 DEF Tick, client, canceller
  <2> QED BY <2>1 DEF AccessInv, Known, Signed, Backed, ApprovingApprovers
<1> QED BY StepCases, <1>1, <1>2, <1>3, <1>4, <1>5, <1>6, <1>7, <1>8, <1>9, <1>10, <1>11,
       <1>12, <1>13, <1>14, <1>15

\* The parts of a receipt.
LEMMA ReceiptParts ==
    ASSUME NEW r, NEW ws, NEW as, r = [witnesses |-> ws, approvers |-> as]
    PROVE  r.witnesses = ws /\ r.approvers = as
OBVIOUS

(***************************************************************************)
(* An entry's receipt keeps its evidence while that receipt stays and the  *)
(* records and decision files it rests on do.                              *)
(***************************************************************************)
LEMMA ReceiptKept ==
  ASSUME NEW x, Receipted(x), plan' = plan, receipts'[x] = receipts[x], x \in opened',
         \A w \in receipts[x].witnesses : reg[x][w] = "Approved" => reg'[x][w] = "Approved",
         \A p \in Paths : files[x][p] = "Approve" => files'[x][p] = "Approve"
  PROVE  Receipted(x)'
<1>1. \A a : Backed(x, a) => Backed(x, a)' BY DEF Backed
<1> QED BY <1>1 DEF Receipted

(***************************************************************************)
(* A receipt is on disk for every entry the command has left behind, and   *)
(* for all of them before anything takes effect.                           *)
(***************************************************************************)
LEMMA EvidenceStep ==
  ASSUME AccessInv, Next
  PROVE  Evidence'
<1>1. ASSUME Fails PROVE Evidence'
  <2>1. UNCHANGED <<reg, files, plan, entry, opened, receipts, effect>>
    BY <1>1 DEF Fails, Fail, idle, canceller
  <2>2. pc \notin {"effect", "done"} /\ pc' = "failed"
    BY ZenonT(30), <1>1 DEF Fails, Fail
  <2>3. \A x : Receipted(x) => Receipted(x)'
    BY <2>1, ReceiptKept DEF Receipted
  <2> QED BY <2>1, <2>2, <2>3 DEF AccessInv, Evidence
<1>2. ASSUME Starts PROVE Evidence'
  <2>1. UNCHANGED <<reg, files, plan, entry, opened, receipts, effect>>
    BY <1>2 DEF Starts, idle, canceller
  <2>2. pc = "start" /\ pc' = "reserve"
    BY <1>2 DEF Starts
  <2>3. \A x : Receipted(x) => Receipted(x)'
    BY <2>1, ReceiptKept DEF Receipted
  <2> QED BY <2>1, <2>2, <2>3 DEF AccessInv, Evidence
<1>3. ASSUME CallWitness PROVE Evidence'
  <2>1. UNCHANGED <<reg, files, plan, pc, entry, opened, counted, receipts, effect>>
    BY ZenonT(30), <1>3 DEF CallWitness, Call, client, canceller
  <2>2. \A x : Receipted(x) => Receipted(x)'
    BY <2>1, ReceiptKept DEF Receipted
  <2> QED BY <2>1, <2>2 DEF AccessInv, Evidence
<1>4. ASSUME TakeAnswer PROVE Evidence'
  <2>1. UNCHANGED <<reg, files, plan, entry, opened, receipts, effect>>
    BY <1>4 DEF TakeAnswer, Hangup, Outcome, Progress, canceller
  <2>2. pc \in {"reserve", "decide"} /\ pc' \in {pc, "wait", "open"}
    BY <1>4 DEF TakeAnswer
  <2>3. \A x : Receipted(x) => Receipted(x)'
    BY <2>1, ReceiptKept DEF Receipted
  <2> QED BY <2>1, <2>2, <2>3 DEF AccessInv, Evidence
<1>5. ASSUME Collects PROVE Evidence'
  <2>1. UNCHANGED <<reg, files, plan, entry, opened, receipts, effect>>
    BY <1>5 DEF Collects, idle, canceller
  <2>2. pc = "wait" /\ pc' = "decide"
    BY <1>5 DEF Collects
  <2>3. \A x : Receipted(x) => Receipted(x)'
    BY <2>1, ReceiptKept DEF Receipted
  <2> QED BY <2>1, <2>2, <2>3 DEF AccessInv, Evidence
<1>6. ASSUME Opens PROVE Evidence'
  <2>1. \A w \in Shares : reg[entry][w] = "Approved" /\ w \notin plan.damaged
    BY <1>6 DEF AccessInv, Known, Answered, Opens, Shares, Usable, Approving
  <2>2. /\ pc = "open" /\ pc' = "receipt" /\ counted' = Shares
        /\ Cardinality(Shares) = WitnessThreshold
        /\ opened' = opened \cup {entry}
        /\ UNCHANGED <<reg, files, plan, entry, receipts, effect>>
    BY ZenonT(30), <1>6 DEF Opens, idle
  <2>3. \A x : Receipted(x) => Receipted(x)'
    BY <2>2, ReceiptKept DEF Receipted
  <2> QED BY <2>1, <2>2, <2>3 DEF AccessInv, Evidence
<1>7. ASSUME Publishes PROVE Evidence'
  <2>1. /\ pc = "receipt" /\ Cardinality(ApprovingApprovers) >= ApprovalThreshold
        /\ receipts' = [receipts EXCEPT ![entry] =
             [witnesses |-> counted, approvers |-> ApprovingApprovers]]
        /\ \/ entry = plan.last /\ pc' = "effect" /\ entry' = entry
           \/ entry # plan.last /\ pc' = "start" /\ entry' = entry + 1
        /\ UNCHANGED <<reg, files, plan, opened, counted, effect>>
    BY <1>7 DEF Publishes, NextEntry, idle
  <2>2. \A x \in {entry} : Receipted(x)'
    <3>1. receipts'[entry] = [witnesses |-> counted, approvers |-> ApprovingApprovers]
      BY <2>1, EntryTyped DEF AccessInv, Typed
    <3>2. \A a \in ApprovingApprovers : Backed(entry, a)
      BY <2>1 DEF AccessInv, Known, Signed
    <3>3. /\ entry \in opened /\ Cardinality(counted) = WitnessThreshold
          /\ \A w \in counted : reg[entry][w] = "Approved" /\ w \notin plan.damaged
      BY <2>1 DEF AccessInv, Evidence
    <3>4. \A x, a : Backed(x, a) => Backed(x, a)' BY <2>1 DEF Backed
    <3> SUFFICES ASSUME NEW x, x = entry PROVE Receipted(x)' OBVIOUS
    <3>5. /\ receipts'[x].witnesses = counted
          /\ receipts'[x].approvers = ApprovingApprovers
      BY ZenonT(30), <3>1, ReceiptParts
    <3> QED BY ZenonT(30), <2>1, <3>2, <3>3, <3>4, <3>5 DEF Receipted
  <2>3. ASSUME NEW x \in Entries, x # entry, Receipted(x) PROVE Receipted(x)'
    <3>1. receipts'[x] = receipts[x] /\ x \in opened'
      BY ZenonT(30), <2>1, <2>3 DEF AccessInv, Typed, Receipted
    <3> QED BY ZenonT(30), <2>1, <2>3, <3>1, ReceiptKept
  <2> QED BY <2>1, <2>2, <2>3, EntryTyped, AccessAssumption DEF AccessInv, Evidence, Entries
<1>8. ASSUME TakeEffect PROVE Evidence'
  <2>1. /\ UNCHANGED <<reg, files, plan, entry, opened, receipts>>
        /\ pc = "effect" /\ pc' = "done"
    BY ZenonT(30), <1>8 DEF TakeEffect, idle
  <2>2. \A x : Receipted(x) => Receipted(x)'
    BY <2>1, ReceiptKept DEF Receipted
  <2> QED BY <2>1, <2>2 DEF AccessInv, Evidence
<1>9. ASSUME StartCancel PROVE Evidence'
  <2>1. UNCHANGED <<reg, files, plan, pc, entry, opened, counted, receipts, effect>>
    BY <1>9 DEF StartCancel, client
  <2>2. \A x : Receipted(x) => Receipted(x)'
    BY <2>1, ReceiptKept DEF Receipted
  <2> QED BY <2>1, <2>2 DEF AccessInv, Evidence
<1>10. ASSUME CallCancel PROVE Evidence'
  <2>1. UNCHANGED <<reg, files, plan, pc, entry, opened, counted, receipts, effect>>
    BY <1>10 DEF CallCancel, Call, client, canceller
  <2>2. \A x : Receipted(x) => Receipted(x)'
    BY <2>1, ReceiptKept DEF Receipted
  <2> QED BY <2>1, <2>2 DEF AccessInv, Evidence
<1>11. ASSUME TakeCancelAnswer PROVE Evidence'
  <2>1. UNCHANGED <<reg, files, plan, pc, entry, opened, counted, receipts, effect>>
    BY ZenonT(30), <1>11 DEF TakeCancelAnswer, Hangup, Outcome, CancelCount, Progress, client
  <2>2. \A x : Receipted(x) => Receipted(x)'
    BY <2>1, ReceiptKept DEF Receipted
  <2> QED BY <2>1, <2>2 DEF AccessInv, Evidence
<1>12. ASSUME NEW m \in net, Serve(m) PROVE Evidence'
  <2>1. UNCHANGED <<files, plan, pc, entry, opened, counted, receipts, effect>>
    BY <1>12 DEF Serve, AdvanceCheckpoint, client
  <2>2. \A x \in Entries, v \in Witnesses :
          reg[x][v] = "Approved" => reg'[x][v] = "Approved"
    BY RecordsKept DEF Terminals
  <2>3. ASSUME NEW x \in 1 .. plan.last, Receipted(x) PROVE Receipted(x)'
    <3>1. x \in Entries /\ x \in opened
      BY <2>3, EntryTyped, AccessAssumption DEF AccessInv, Entries, Receipted
    <3>2. receipts[x].witnesses \subseteq Witnesses
      BY <3>1 DEF AccessInv, Typed, Receipts
    <3> QED BY <2>1, <2>2, <2>3, <3>1, <3>2, ReceiptKept
  <2>4. counted \subseteq Witnesses /\ entry \in Entries
    BY EntryTyped DEF AccessInv, Typed
  <2> QED BY <2>1, <2>2, <2>3, <2>4 DEF AccessInv, Evidence
<1>13. ASSUME NEW w \in Witnesses, AdvanceCheckpoint(w) PROVE Evidence'
  <2>1. UNCHANGED <<files, plan, pc, entry, opened, counted, receipts, effect>>
    BY <1>13 DEF Serve, AdvanceCheckpoint, client
  <2>2. \A x \in Entries, v \in Witnesses :
          reg[x][v] = "Approved" => reg'[x][v] = "Approved"
    BY RecordsKept DEF Terminals
  <2>3. ASSUME NEW x \in 1 .. plan.last, Receipted(x) PROVE Receipted(x)'
    <3>1. x \in Entries /\ x \in opened
      BY <2>3, EntryTyped, AccessAssumption DEF AccessInv, Entries, Receipted
    <3>2. receipts[x].witnesses \subseteq Witnesses
      BY <3>1 DEF AccessInv, Typed, Receipts
    <3> QED BY <2>1, <2>2, <2>3, <3>1, <3>2, ReceiptKept
  <2>4. counted \subseteq Witnesses /\ entry \in Entries
    BY EntryTyped DEF AccessInv, Typed
  <2> QED BY <2>1, <2>2, <2>3, <2>4 DEF AccessInv, Evidence
<1>14. ASSUME NEW e \in Entries, NEW p \in Paths, NEW d \in {"Approve", "Deny"},
              ApproveRequest(e, p, d) PROVE Evidence'
  <2>1. /\ \A x \in Entries, q \in Paths : files[x][q] = "Approve" => files'[x][q] = "Approve"
        /\ UNCHANGED <<reg, plan, pc, entry, opened, counted, receipts, effect>>
    BY ZenonT(30), <1>14 DEF AccessInv, Typed, ApproveRequest, client
  <2>2. ASSUME NEW x \in Entries, Receipted(x) PROVE Receipted(x)'
    BY ZenonT(30), <2>1, <2>2, ReceiptKept DEF Receipted
  <2>3. \A x \in 1 .. plan.last : x \in Entries
    BY EntryTyped, AccessAssumption DEF AccessInv, Entries
  <2> QED BY ZenonT(30), <2>1, <2>2, <2>3 DEF AccessInv, Evidence
<1>15. ASSUME Tick PROVE Evidence'
  <2>1. UNCHANGED <<reg, files, plan, pc, entry, opened, counted, receipts, effect>>
    BY <1>15 DEF Tick, client, canceller
  <2>2. \A x : Receipted(x) => Receipted(x)'
    BY <2>1, ReceiptKept DEF Receipted
  <2> QED BY <2>1, <2>2 DEF AccessInv, Evidence
<1> QED BY StepCases, <1>1, <1>2, <1>3, <1>4, <1>5, <1>6, <1>7, <1>8, <1>9, <1>10, <1>11,
       <1>12, <1>13, <1>14, <1>15

(***************************************************************************)
(* What was opened rests on a quorum of approvals, and a preclusion on     *)
(* more cancellations than a quorum can spare.                             *)
(***************************************************************************)
LEMMA QuorumsStep ==
  ASSUME AccessInv, Next
  PROVE  Quorums'
<1>1. /\ \A x \in opened, Q \in SUBSET Witnesses : Approves(x, Q) => Approves(x, Q)'
      /\ \A Q \in SUBSET Witnesses : Cancels(Q) => Cancels(Q)'
      /\ \A v \in Witnesses : reg[1][v] = "Cancelled" => reg'[1][v] = "Cancelled"
  <2>1. \A x \in Entries, v \in Witnesses, t \in {"Approved", "Cancelled"} :
          reg[x][v] = t => reg'[x][v] = t
    BY RecordsKept DEF Terminals
  <2>2. opened \subseteq Entries /\ 1 \in Entries
    <3>1. opened \subseteq Entries BY DEF AccessInv, Typed
    <3>2. 1 \in Entries BY AccessAssumption DEF Entries
    <3> QED BY <3>1, <3>2
  <2>3. \A x \in opened, Q \in SUBSET Witnesses : Approves(x, Q) => Approves(x, Q)'
    BY <2>1, <2>2 DEF Approves
  <2>4. \A Q \in SUBSET Witnesses : Cancels(Q) => Cancels(Q)'
    BY ZenonT(30), <2>1, <2>2 DEF Cancels
  <2> QED BY <2>1, <2>2, <2>3, <2>4
<1>2. CASE Opens
  <2>1. /\ pc = "open" /\ opened' = opened \cup {entry}
        /\ Cardinality(Shares) = WitnessThreshold
        /\ UNCHANGED <<reg, kresult, phase>>
    BY <1>2 DEF Opens, idle, canceller
  <2>2. Shares \in SUBSET Witnesses /\ \A w \in Shares : reg[entry][w] = "Approved"
    BY <2>1 DEF AccessInv, Known, Answered, Shares, Usable, Approving
  <2>3. \A x \in {entry}, Q \in {Shares} : Approves(x, Q)'
    BY ZenonT(30), <2>1, <2>2 DEF Approves
  <2> QED BY <1>1, <2>1, <2>2, <2>3 DEF AccessInv, Quorums
<1>3. CASE TakeCancelAnswer
  <2>1. /\ out["canceller"] # NoCall /\ UNCHANGED <<reg, opened>>
        /\ kresult' = [kresult EXCEPT ![kat] = CancelCount(Outcome("canceller"))]
        /\ phase' \in {phase, Phase(kresult')}
    BY <1>3 DEF TakeCancelAnswer, Hangup, client
  <2>2. CancelCount(Outcome("canceller")) = "cancelled" => reg[1][kat] = "Cancelled"
    BY <2>1, AnswerOnRecord DEF AccessInv, Calling, Outstanding, CancelCount, Callers
  <2>3. \A w \in Witnesses : kresult'[w] = "cancelled" => reg[1][w] = "Cancelled"
    BY <2>1, <2>2 DEF AccessInv, Typed, Quorums
  <2> PICK Q : Q = {w \in Witnesses : kresult'[w] = "cancelled"} BY Zenon
  <2>4. Phase(kresult') \in {"cancelled", "quorum-precluded"}
          => Cardinality(Q) > N - WitnessThreshold
    BY AccessAssumption DEF Phase, CountOf
  <2>5. Q \in SUBSET Witnesses /\ Cancels(Q)' BY ZenonT(30), <2>1, <2>3 DEF Cancels
  <2> QED BY ZenonT(30), <1>1, <2>1, <2>3, <2>4, <2>5 DEF AccessInv, Quorums
<1>4. CASE UNCHANGED <<opened, kresult, phase>>
  BY <1>1, <1>4 DEF AccessInv, Quorums
<1>5. \/ Opens \/ TakeCancelAnswer \/ UNCHANGED <<opened, kresult, phase>>
  BY StepCases, Zenon DEF Fails, Fail, Starts, CallWitness, TakeAnswer, Collects, Publishes,
     TakeEffect, StartCancel, CallCancel, Call, Serve, AdvanceCheckpoint, ApproveRequest,
     Tick, idle, client, canceller
<1> QED BY <1>2, <1>3, <1>4, <1>5

-----------------------------------------------------------------------------
\* A command starts with nothing asked, collected or opened.
LEMMA InitInv ==
  ASSUME Init
  PROVE  AccessInv
<1>1. Typed
  <2>1. /\ reg \in [Entries -> [Witnesses -> Records]]
        /\ files \in [Entries -> [Paths -> {"none", "Approve", "Deny"}]]
        /\ resp \in [Witnesses -> Terminals \cup {"none"}]
        /\ kresult \in [Witnesses -> {"none", "cancelled", "too-late", "failed"}]
    BY DEF Init, Records
  <2>2. receipts \in [Entries -> Receipts] BY DEF Init, Receipts, NoReceipt
  <2>3. plan \in Plans /\ pc \in Steps /\ opened \subseteq Entries /\ counted \subseteq Witnesses
    BY DEF Init, Steps
  <2>4. entry \in 1 .. plan.last /\ at \in Witnesses /\ kat \in Witnesses
    <3>1. plan.last \in 1 .. MaxEntries BY <2>3, AccessAssumption
    <3> QED BY <3>1, AccessAssumption DEF Init, Witnesses
  <2>5. DOMAIN out = Callers /\ DOMAIN answer = Callers BY ZenonT(30) DEF Init
  <2> QED BY <2>1, <2>2, <2>3, <2>4, <2>5 DEF Typed
<1>2. Calling
  BY DEF Init, Calling, Outstanding, Told, Callers, NoAnswer
<1>3. Known
  BY DEF Init, Known, Answered, Tallied, Signed
<1>4. Evidence
  <2>1. \A e \in 1 .. plan.last : ~(e < entry) BY <1>1, EntryTyped DEF Init
  <2>2. pc = "start" /\ effect = FALSE BY DEF Init
  <2> QED BY <2>1, <2>2 DEF Evidence
<1>5. Quorums
  BY DEF Init, Quorums
<1> QED BY <1>1, <1>2, <1>3, <1>4, <1>5 DEF AccessInv

\* A step that changes no variable keeps the invariant.
LEMMA StutterInv ==
  ASSUME AccessInv, UNCHANGED vars
  PROVE  AccessInv'
<1> USE DEF vars, client, canceller
<1>1. Typed' BY ZenonT(30) DEF AccessInv, Typed
<1>2. Calling' BY ZenonT(30) DEF AccessInv, Calling, Sent, Undecided, Outstanding, Told
<1>3. Answered' BY ZenonT(30) DEF AccessInv, Known, Answered
<1>4. Tallied' BY DEF AccessInv, Known, Tallied, Undecided, Tally
<1>5. Signed' BY ZenonT(30) DEF AccessInv, Known, Signed, Backed, ApprovingApprovers
<1>6. \A x : Receipted(x) => Receipted(x)' BY ReceiptKept DEF Receipted
<1>7. Evidence' BY <1>6 DEF AccessInv, Evidence
<1>8. \A x, Q : (Approves(x, Q) => Approves(x, Q)') /\ (Cancels(Q) => Cancels(Q)')
  BY ZenonT(30) DEF Approves, Cancels
<1>9. Quorums' BY <1>8 DEF AccessInv, Quorums
<1> QED BY ZenonT(30), <1>1, <1>2, <1>3, <1>4, <1>5, <1>7, <1>9 DEF AccessInv, Known

(***************************************************************************)
(* The invariant holds of every behaviour.                                 *)
(***************************************************************************)
LEMMA InvAlways == Spec => []AccessInv
<1>1. AccessInv /\ [Next]_vars => AccessInv'
  <2>1. ASSUME AccessInv, Next PROVE AccessInv'
    BY <2>1, TypedStep, CallingStep, AnsweredStep, TalliedStep, SignedStep, EvidenceStep,
       QuorumsStep DEF AccessInv, Known
  <2> QED BY <2>1, StutterInv
<1> QED BY <1>1, InitInv, PTL DEF Spec

(***************************************************************************)
(* For every number of witnesses and every threshold: once request_cancel  *)
(* reports "cancelled" or "quorum-precluded", the content is not opened    *)
(* and never will be, whatever calls are still under way, since a quorum   *)
(* of approvals and the cancellations would have a witness in common.      *)
(***************************************************************************)
THEOREM PreclusionIsFinal == Spec => []PrecludedNeverOpens
<1>1. AccessInv => PrecludedNeverOpens
  <2> SUFFICES ASSUME AccessInv, phase \in {"cancelled", "quorum-precluded"}, 1 \in opened
               PROVE  FALSE
    BY DEF PrecludedNeverOpens
  <2>1. PICK A \in SUBSET Witnesses :
          Cardinality(A) = WitnessThreshold /\ Approves(1, A)
    BY DEF AccessInv, Quorums
  <2>2. PICK C \in SUBSET Witnesses :
          Cardinality(C) > N - WitnessThreshold /\ Cancels(C)
    BY DEF AccessInv, Quorums
  <2>3. A \cap C = {} BY <2>1, <2>2 DEF Approves, Cancels
  <2>4. IsFiniteSet(Witnesses) /\ Cardinality(Witnesses) = N
    BY FS_Interval, AccessAssumption DEF Witnesses
  <2>5. IsFiniteSet(A) /\ IsFiniteSet(C) /\ Cardinality(A \cup C) <= N
    BY <2>4, FS_Subset
  <2>6. Cardinality(A) \in Nat /\ Cardinality(C) \in Nat
    BY <2>5, FS_CardinalityType
  <2>7. Cardinality(A \cup C) = Cardinality(A) + Cardinality(C)
    <3>1. Cardinality(A \cap C) = 0 BY <2>3, FS_EmptySet
    <3>2. Cardinality(A \cup C) = Cardinality(A) + Cardinality(C) - Cardinality(A \cap C)
      BY <2>5, FS_Union
    <3> QED BY <2>6, <3>1, <3>2
  <2> QED BY <2>1, <2>2, <2>5, <2>6, <2>7, AccessAssumption
<1> QED BY <1>1, InvAlways, PTL

(***************************************************************************)
(* For every number of witnesses, approvers and contents: an opened        *)
(* content can be accounted for by a receipt, and nothing is written out,  *)
(* run or committed unless each content was opened by a quorum of          *)
(* witnesses that approved that request on enough approvals, with a        *)
(* receipt that names them on disk (access_revision and                    *)
(* publish_witness_receipt).                                               *)
(***************************************************************************)
THEOREM OpeningsEvidenced == Spec => []OpeningEvidenced
<1>1. AccessInv => OpenedIsAccountable
  <2> SUFFICES ASSUME AccessInv, pc = "receipt", now < ExpiresAt PROVE Assembles
    BY DEF OpenedIsAccountable
  <2>1. /\ Cardinality(counted) = WitnessThreshold /\ counted \subseteq Witnesses
        /\ \A w \in counted : reg[entry][w] = "Approved"
    BY DEF AccessInv, Evidence, Typed
  <2>2. counted # {}
    <3>1. WitnessThreshold # 0 BY AccessAssumption
    <3> QED BY <2>1, <3>1, FS_EmptySet
  <2>3. Tally(approvals) = "Approved"
    BY <2>1, <2>2, EntryTyped DEF AccessInv, Known, Tallied
  <2>4. Cardinality(ApprovingApprovers) >= ApprovalThreshold
    BY <2>3 DEF Tally, ApprovingApprovers
  <2> QED BY <2>1, <2>4, AccessAssumption DEF Assembles
<1>2. AccessInv => EffectEvidenced
  <2> SUFFICES ASSUME AccessInv, effect, NEW e \in 1 .. plan.last
               PROVE  /\ e \in opened
                      /\ Cardinality(receipts[e].witnesses) = WitnessThreshold
                      /\ \A w \in receipts[e].witnesses :
                           reg[e][w] = "Approved" /\ w \notin plan.damaged
                      /\ Cardinality({a \in receipts[e].approvers : Backed(e, a)})
                         >= ApprovalThreshold
    BY DEF EffectEvidenced, Backed
  <2>1. Receipted(e) BY DEF AccessInv, Evidence
  <2>2. {a \in receipts[e].approvers : Backed(e, a)} = receipts[e].approvers
    BY <2>1 DEF Receipted
  <2> QED BY ZenonT(30), <2>1, <2>2 DEF Receipted
<1> QED BY <1>1, <1>2, InvAlways, PTL DEF OpeningEvidenced
-----------------------------------------------------------------------------
(***************************************************************************)
(* What a failed opening reports.  The failures a command merges are those *)
(* of refused and unanswered calls; the responses add what was recorded.   *)
(***************************************************************************)
Causes == {"none", "Expired", "Stale", "Unavailable"}
Reasons == {"Expired", "StalePolicy", "Invalid", "Timeout"}

Refused == /\ failure \in Causes
           /\ \A c \in Callers : answer[c].kind = "refused" => answer[c].value \in Reasons

\* The order of WitnessedAccessStatus, for the statuses that meet in an opening.
LEMMA Priorities ==
  /\ StatusPriority("Unavailable") = 3 /\ StatusPriority("Denied") = 4
  /\ StatusPriority("Stale") = 6 /\ StatusPriority("Expired") = 7
  /\ StatusPriority("Cancelled") = 8
<1>1. DOMAIN Statuses = 1 .. 8 BY DEF Statuses
<1>2. /\ Statuses[1] = "Pending" /\ Statuses[2] = "InsufficientQuorum"
      /\ Statuses[3] = "Unavailable" /\ Statuses[4] = "Denied" /\ Statuses[5] = "Replay"
      /\ Statuses[6] = "Stale" /\ Statuses[7] = "Expired" /\ Statuses[8] = "Cancelled"
  BY DEF Statuses
<1>3. \A i \in DOMAIN Statuses : i \in {1, 2, 3, 4, 5, 6, 7, 8} BY <1>1
<1>4. \A i \in DOMAIN Statuses : /\ Statuses[i] = "Unavailable" <=> i = 3
                                 /\ Statuses[i] = "Denied" <=> i = 4
                                 /\ Statuses[i] = "Stale" <=> i = 6
                                 /\ Statuses[i] = "Expired" <=> i = 7
                                 /\ Statuses[i] = "Cancelled" <=> i = 8
  BY <1>2, <1>3
<1>5. {3, 4, 6, 7, 8} \subseteq DOMAIN Statuses BY <1>1
<1> QED BY <1>4, <1>5 DEF StatusPriority

\* A cancellation wins over whatever it is merged with, the rest of a set too.
LEMMA CancelledWins ==
  ASSUME NEW S, S \subseteq {"Expired", "Stale", "Denied", "Cancelled"}, "Cancelled" \in S
  PROVE  MergeAll(S) = "Cancelled"
<1>1. \A t \in S : Merge("Cancelled", t) = "Cancelled" BY Priorities DEF Merge
<1>2. ASSUME NEW s \in S, Merge(s, "Cancelled") = s PROVE s = "Cancelled"
  BY <1>2, Priorities DEF Merge
<1>3. (CHOOSE s \in S : \A t \in S : Merge(s, t) = s) = "Cancelled"
  BY ZenonT(30), <1>1, <1>2
<1> QED BY <1>3 DEF MergeAll

\* A cancellation outranks a missing answer.
LEMMA CancelledFirst == Merge("Cancelled", "Unavailable") = "Cancelled"
BY Priorities DEF Merge

\* One cancelled response makes the outcome a cancellation.
LEMMA TerminalCancelled ==
  ASSUME Typed, NEW w \in Witnesses, resp[w] = "Cancelled"
  PROVE  Terminal = "Cancelled"
<1> DEFINE S == {StatusOf[resp[v]] : v \in {v \in Witnesses : resp[v] \notin {"none", "Approved"}}}
<1>1. \A v \in Witnesses : resp[v] \notin {"none", "Approved"} =>
        resp[v] \in {"ApprovalDenied", "Expired", "StalePolicy", "Cancelled"}
  BY DEF Typed, Terminals
<1>2. S \subseteq {"Expired", "Stale", "Denied", "Cancelled"}
  BY <1>1 DEF StatusOf
<1>3. "Cancelled" \in S BY DEF StatusOf
<1>4. MergeAll(S) = "Cancelled" BY <1>2, <1>3, CancelledWins
<1> QED BY <1>4 DEF Terminal

\* A witness refuses for a reason that the command knows (ProtocolError's codes).
LEMMA RefusalsKnown ==
  ASSUME Typed, NEW m, Sent(m), NEW r \in Results(m), r[2].kind = "refused"
  PROVE  r[2].value \in Reasons
<1>1. CASE m.kind = "reserve"
  BY <1>1 DEF Results, ReserveResults, Refusals, MayExpire, Progress, Reasons
<1>2. CASE m.kind = "decide"
  BY <1>2 DEF Results, DecideResults, MayExpire, Progress, Reasons
<1>3. CASE m.kind = "cancel"
  BY <1>3 DEF Results, CancelResults, Refusals, MayExpire, Progress, Reasons
<1> QED BY <1>1, <1>2, <1>3 DEF Sent

\* Every step keeps the failures that are remembered among the known ones.
LEMMA RefusedStep ==
  ASSUME AccessInv, Refused, Next
  PROVE  Refused'
<1>1. ASSUME NEW status, Fail(status), UNCHANGED idle PROVE Refused'
  BY <1>1 DEF Refused, Fail, idle
<1>2. CASE StartEntry
  BY ZenonT(30), <1>1, <1>2 DEF StartEntry, Refused, Causes, idle
<1>3. CASE CallWitness \/ CallCancel
  BY <1>3 DEF CallWitness, CallCancel, Call, Refused, client
<1>4. CASE BatchDeadline
  BY <1>1, <1>4 DEF BatchDeadline
<1>5. CASE TakeAnswer
  <2> DEFINE a == Outcome("client")
  <2>1. a.kind = "refused" => a.value \in Reasons
    BY DEF Outcome, Progress, Refused, Reasons, Callers
  <2>2. a.kind = "refused" => RefusalStatus[a.value] \in Causes
    BY <2>1 DEF RefusalStatus, Reasons, Causes
  <2>3. failure' = IF a.kind = "refused" THEN Merge(failure, RefusalStatus[a.value])
                   ELSE failure
    BY <1>5, Zenon DEF TakeAnswer
  <2>4. failure' \in Causes BY <2>2, <2>3 DEF Refused, Merge
  <2>5. answer' = [answer EXCEPT !["client"] = NoAnswer] BY <1>5, Zenon DEF TakeAnswer, Hangup
  <2> QED BY ZenonT(30), <2>4, <2>5 DEF Refused, NoAnswer, Callers, AccessInv, Typed
<1>6. CASE WaitForApprovals
  BY <1>1, <1>6 DEF WaitForApprovals, Refused, idle
<1>7. CASE OpenContent
  BY ZenonT(30), <1>1, <1>7 DEF OpenContent, Refused, idle
<1>8. CASE PublishReceipt
  BY ZenonT(30), <1>1, <1>8 DEF PublishReceipt, Refused, idle
<1>9. CASE TakeEffect \/ StartCancel \/ Tick
  BY <1>9 DEF TakeEffect, StartCancel, Tick, Refused, idle, client
<1>10. CASE TakeCancelAnswer
  <2>1. answer' = [answer EXCEPT !["canceller"] = NoAnswer] /\ failure' = failure
    BY <1>10, Zenon DEF TakeCancelAnswer, Hangup, client
  <2> QED BY <2>1 DEF Refused, NoAnswer, Callers, AccessInv, Typed
<1>11. ASSUME NEW m \in net, Serve(m) PROVE Refused'
  <2>1. Sent(m) BY DEF AccessInv, Calling
  <2>2. PICK r \in Results(m) :
          answer' = IF out[m.from] = m THEN [answer EXCEPT ![m.from] = r[2]] ELSE answer
    BY <1>11, Zenon DEF Serve
  <2>3. r[2].kind = "refused" => r[2].value \in Reasons
    BY <2>1, <2>2, RefusalsKnown DEF AccessInv
  <2>4. failure' = failure BY <1>11 DEF Serve, client
  <2> QED BY <2>1, <2>2, <2>3, <2>4 DEF Refused, Sent, AccessInv, Typed
<1>12. CASE \/ \E w \in Witnesses : AdvanceCheckpoint(w)
            \/ \E e \in Entries, p \in Paths, d \in {"Approve", "Deny"} : ApproveRequest(e, p, d)
  BY <1>12 DEF AdvanceCheckpoint, ApproveRequest, Refused, client
<1> QED BY <1>2, <1>3, <1>4, <1>5, <1>6, <1>7, <1>8, <1>9, <1>10, <1>11, <1>12
        DEF Next, Command

(***************************************************************************)
(* For every number of witnesses and every combination of refusals,        *)
(* timeouts and responses: a failed opening of a request that some witness *)
(* recorded as cancelled is reported as cancelled, unless the request      *)
(* expired first (merge_failure_status, terminal_status).                  *)
(***************************************************************************)
THEOREM CancellationsReported == Spec => CancellationReported
<1> DEFINE Reported ==
      pc = "open" /\ pc' = "failed" /\ (\E w \in Witnesses : resp[w] = "Cancelled")
        => report' \in {"Cancelled"} \union (IF now >= ExpiresAt THEN {"Expired"} ELSE {})
<1>1. Init => Refused
  BY DEF Init, Refused, Causes, Callers, NoAnswer
<1>2. AccessInv /\ Refused /\ [Next]_vars => Refused'
  <2>1. CASE Next BY <2>1, RefusedStep
  <2>2. CASE UNCHANGED vars BY <2>2 DEF vars, client, Refused
  <2> QED BY <2>1, <2>2
<1>3. AccessInv /\ Refused /\ [Next]_vars => [Reported]_vars
  <2> SUFFICES ASSUME AccessInv, Refused, Next, pc = "open", pc' = "failed",
                      NEW w \in Witnesses, resp[w] = "Cancelled"
               PROVE  report' \in {"Cancelled"} \union
                                  (IF now >= ExpiresAt THEN {"Expired"} ELSE {})
    BY ZenonT(30)
  <2>1. OpenContent
    BY ZenonT(30) DEF Next, Command, StartEntry, CallWitness, BatchDeadline, TakeAnswer,
           WaitForApprovals, PublishReceipt, TakeEffect, StartCancel, CallCancel,
           TakeCancelAnswer, Serve, AdvanceCheckpoint, ApproveRequest, Tick, client
  <2>2. Terminal = "Cancelled" BY TerminalCancelled DEF AccessInv
  <2>3. Merge("Cancelled", failure) = "Cancelled" /\ Merge("Expired", failure) = "Expired"
    BY Priorities DEF Merge, Refused, Causes
  <2>4. Merge("Cancelled", "Unavailable") = "Cancelled" BY Zenon, CancelledFirst
  <2>5. \/ now >= ExpiresAt /\ report' = Merge("Expired", failure)
        \/ report' = Merge("Cancelled", failure)
    BY ZenonT(30), <2>1, <2>2, <2>4 DEF OpenContent, Fail
  <2> QED BY <2>3, <2>5
<1>4. Spec => [][Reported]_vars
  BY <1>1, <1>2, <1>3, InvAlways, PTL DEF Spec
<1> QED BY <1>4 DEF CancellationReported
=============================================================================
