------------------------ MODULE WitnessEngineProofs ------------------------
(***************************************************************************)
(* Proofs about WitnessEngine for every set of requests, checkpoints and   *)
(* approvals and every clock skew not larger than the retention.           *)
(*                                                                         *)
(* That a request gets one decision is not inductive: after compaction     *)
(* nothing in the replay table remembers the decision.  What remembers it  *)
(* is the clock.  Compaction runs at a time later than the expiry plus the *)
(* retention, and commits that time as the last accepted one; the clock    *)
(* test then keeps every later handler after the expiry.  The invariant    *)
(* IInv says so: a decided request is still in the table, or the last      *)
(* accepted time is past its retention.                                    *)
(***************************************************************************)
EXTENDS WitnessEngine, FiniteSetTheorems, WellFoundedInduction, TLAPS

Formed(k, e) ==
  /\ e \in Entry /\ Key(e.request) = k
  /\ e.retain_through = e.request.expires_at + Retention
  /\ IF e.state = "Reserved" THEN e.response = NoResponse
     ELSE e.response.decision = e.state

Typed == /\ now \in Time /\ last \in Time
         /\ acks \subseteq Checkpoints
         /\ DOMAIN vaults \subseteq Vaults
         /\ \A v \in DOMAIN vaults : vaults[v] \in Checkpoints /\ vaults[v].vault = v
         /\ DOMAIN replay \subseteq Keys
         /\ \A k \in DOMAIN replay : Formed(k, replay[k])
         /\ responses \in [Requests -> Seq(Response)]

\* The history of an entry's request is exactly what the entry records.
Faithful == \A k \in DOMAIN replay :
  responses[replay[k].request] = IF replay[k].response = NoResponse THEN <<>>
                                 ELSE <<replay[k].response>>

\* A decision is remembered by the table or, after compaction, by the clock.
Remembered == \A q \in Requests :
  \/ responses[q] = <<>>
  \/ Holds(replay, q)
  \/ last > q.expires_at + Retention /\ Len(responses[q]) = 1

\* Responses bear times that have been accepted.
Bounded == \A q \in Requests : \A i \in DOMAIN responses[q] :
  responses[q][i].issued_at =< last

IInv == Typed /\ Faithful /\ Remembered /\ Bounded

(***************************************************************************)
(* What every handler does to the table: it keeps the request of an entry, *)
(* records a response, dated now, only in an entry without one, adds       *)
(* entries, never approved ones, only for requests never decided, and      *)
(* removes entries only after their retention.                             *)
(***************************************************************************)
Legal(r) ==
  /\ DOMAIN r \subseteq Keys
  /\ \A k \in DOMAIN r : Formed(k, r[k])
  /\ \A k \in DOMAIN r \intersect DOMAIN replay :
       /\ r[k].request = replay[k].request
       /\ \/ r[k].response = replay[k].response
          \/ replay[k].response = NoResponse /\ r[k].response.issued_at = now
  /\ \A k \in DOMAIN r \ DOMAIN replay :
       /\ responses[r[k].request] = <<>>
       /\ r[k].response = NoResponse \/ r[k].response.issued_at = now
       /\ r[k].state # "Approved"
  /\ \A k \in DOMAIN replay \ DOMAIN r : now > replay[k].retain_through

Moved(r) == /\ replay' = r /\ last' = LastAccepted /\ now' = now
            /\ responses' = [q \in Requests |->
                 IF Recorded(r, q) \in {NoResponse, Recorded(replay, q)}
                 THEN responses[q] ELSE Append(responses[q], Recorded(r, q))]

\* What is shown of every handler.
Kept == IInv' /\ TimesStep /\ Register!Next

-----------------------------------------------------------------------------
\* NoResponse is not a response; a settled entry has one.
LEMMA NoResponseApart == NoResponse \notin Response
BY DEF NoResponse, Response

\* Instants are numbers.
LEMMA TimeNat == Time \subseteq Nat /\ Time \subseteq Int
BY TimesAssumption DEF Time

\* A well-formed entry is reserved exactly while it has no response.
LEMMA FormedResponse ==
  ASSUME NEW k, NEW e, Formed(k, e)
  PROVE  /\ e.request \in Requests
         /\ e.response \in Response \union {NoResponse}
         /\ (e.state = "Reserved") <=> (e.response = NoResponse)
BY DEF Formed, Entry, NoResponse

\* The last accepted time never goes back and covers the present one.
LEMMA LastGrows ==
  ASSUME now \in Time, last \in Time
  PROVE  LastAccepted \in Time /\ LastAccepted >= now /\ LastAccepted >= last
BY TimeNat DEF LastAccepted

(***************************************************************************)
(* A legal commit adds at most one response to a request, and one dated    *)
(* now; the history of a request that is not in the new table is unchanged.*)
(***************************************************************************)
LEMMA RecordsNow ==
  ASSUME IInv, NEW r, Legal(r), Moved(r), NEW q \in Requests
  PROVE  \/ responses'[q] = responses[q]
         \/ /\ responses[q] = <<>> /\ Holds(r, q)
            /\ responses'[q] = <<r[Key(q)].response>>
            /\ r[Key(q)].response \in Response
            /\ r[Key(q)].response.issued_at = now
<1>. DEFINE k == Key(q)
<1>1. CASE Recorded(r, q) \in {NoResponse, Recorded(replay, q)}
  BY <1>1 DEF Moved
<1>2. CASE Recorded(r, q) \notin {NoResponse, Recorded(replay, q)}
  <2>1. Holds(r, q) /\ k \in DOMAIN r /\ r[k].request = q
        /\ Recorded(r, q) = r[k].response
    BY <1>2 DEF Recorded, Holds
  <2>2. r[k].response \in Response
    BY <1>2, <2>1, FormedResponse DEF Legal
  <2>3. responses[q] = <<>> /\ r[k].response.issued_at = now
    <3>1. CASE k \notin DOMAIN replay
      BY <1>2, <2>1, <3>1 DEF Legal
    <3>2. CASE k \in DOMAIN replay
      <4>1. replay[k].request = q /\ Recorded(replay, q) = replay[k].response
        BY <2>1, <3>2 DEF Legal, Recorded, Holds
      <4>2. replay[k].response = NoResponse /\ r[k].response.issued_at = now
        BY <1>2, <2>1, <3>2, <4>1 DEF Legal
      <4>. QED  BY <3>2, <4>1, <4>2, Zenon DEF IInv, Faithful
    <3>. QED  BY <3>1, <3>2
  <2>4. responses'[q] = Append(responses[q], r[k].response)
    BY <1>2, <2>1 DEF Moved
  <2>5. responses'[q] = <<r[k].response>>
    BY <2>2, <2>3, <2>4
  <2>. QED  BY <2>1, <2>2, <2>3, <2>5
<1>. QED  BY <1>1, <1>2

\* A committed table orders the response times, because the clock was safe.
LEMMA CommitOrdered ==
  ASSUME IInv, NEW r, Legal(r), Moved(r), RequireSafeClock
  PROVE  Bounded' /\ TimesStep
<1>0. last' >= now /\ last' >= last /\ now \in Int /\ last \in Int /\ last' \in Int
      /\ Skew \in Int /\ now + Skew >= last
  <2>1. now \in Time /\ last \in Time /\ last' = LastAccepted
    BY DEF IInv, Typed, Moved
  <2>2. last' \in Time /\ last' >= now /\ last' >= last
    BY <2>1, LastGrows
  <2>3. now \in Int /\ last \in Int /\ last' \in Int
    BY <2>1, <2>2, TimeNat
  <2>. QED  BY <2>2, <2>3, TimesAssumption DEF RequireSafeClock
<1>1. ASSUME NEW q \in Requests, NEW i \in DOMAIN responses[q]
      PROVE  responses[q][i].issued_at \in Int /\ responses[q][i].issued_at =< last
  <2>1. responses[q] \in Seq(Response)
    BY DEF IInv, Typed
  <2>2. responses[q][i] \in Response
    BY <2>1
  <2>. QED  BY <2>2, TimeNat, Zenon DEF IInv, Bounded, Response
<1>2. ASSUME NEW q \in Requests, NEW i \in DOMAIN responses'[q]
      PROVE  responses'[q][i].issued_at =< last'
  <2>1. CASE responses'[q] = responses[q]
    BY <1>0, <1>1, <1>2, <2>1
  <2>2. CASE responses'[q] # responses[q]
    <3>1. responses'[q] = <<r[Key(q)].response>> /\ r[Key(q)].response.issued_at = now
      BY <2>2, RecordsNow
    <3>2. i = 1
      BY <1>2, <3>1
    <3>. QED  BY <1>0, <3>1, <3>2
  <2>. QED  BY <2>1, <2>2
<1>3. ASSUME NEW q \in Requests, NEW p \in Requests, responses'[q] # responses[q],
             NEW i \in DOMAIN responses[p]
      PROVE  responses[p][i].issued_at
               =< responses'[q][Len(responses'[q])].issued_at + Skew
  <2>1. responses'[q] = <<r[Key(q)].response>> /\ r[Key(q)].response.issued_at = now
    BY <1>3, RecordsNow
  <2>2. responses'[q][Len(responses'[q])].issued_at = now
    BY <2>1
  <2>3. responses[p][i].issued_at \in Int /\ responses[p][i].issued_at =< last
    BY <1>1, <1>3
  <2>. QED  BY <1>0, <2>2, <2>3
<1>. QED  BY <1>2, <1>3 DEF Bounded, TimesStep

(***************************************************************************)
(* A legal commit is a step of DecisionRegister: request by request it     *)
(* takes up, decides, drops or keeps.                                      *)
(***************************************************************************)
HeldNow == {q \in Requests : Holds(replay, q) /\ Recorded(replay, q) = NoResponse}
DecidedNow == [q \in Requests |-> IF responses[q] = <<>> THEN "none"
                                  ELSE responses[q][Len(responses[q])].decision]

\* An entry of a request without a recorded response has none.
LEMMA FaithfulEmpty ==
  ASSUME IInv, NEW k \in DOMAIN replay, responses[replay[k].request] = <<>>
  PROVE  replay[k].response = NoResponse
<1>1. responses[replay[k].request] = IF replay[k].response = NoResponse THEN <<>>
                                     ELSE <<replay[k].response>>
  BY Zenon DEF IInv, Faithful
<1>2. <<replay[k].response>> # <<>>
  OBVIOUS
<1>. QED  BY <1>1, <1>2, Zenon

\* A legal change of the table is a step of DecisionRegister.
LEMMA CommitRefines ==
  ASSUME IInv, NEW r, Legal(r), Moved(r)
  PROVE  Register!Next
<1>0. responses \in [Requests -> Seq(Response)] /\ replay' = r
  BY DEF IInv, Typed, Moved
<1>1. \A x \in Response : x.decision \in Register!Outcomes
  BY DEF Response, Register!Outcomes
<1>2. ASSUME NEW q \in Requests
      PROVE  /\ responses'[q] = responses[q] => DecidedNow'[q] = DecidedNow[q]
             /\ responses'[q] # responses[q] =>
                  /\ DecidedNow[q] = "none"
                  /\ DecidedNow'[q] = r[Key(q)].response.decision
                  /\ DecidedNow'[q] \in Register!Outcomes
                  /\ Holds(r, q) /\ r[Key(q)].response # NoResponse
             /\ DecidedNow[q] \in Register!Outcomes \union {"none"}
             /\ DecidedNow[q] = "none" <=> responses[q] = <<>>
  <2>1. DecidedNow[q] \in Register!Outcomes \union {"none"}
        /\ (DecidedNow[q] = "none" <=> responses[q] = <<>>)
    <3>1. CASE responses[q] = <<>>
      BY <3>1 DEF DecidedNow
    <3>2. CASE responses[q] # <<>>
      <4>1. responses[q] \in Seq(Response) /\ responses[q] # <<>>
        BY <1>0, <3>2
      <4>2. responses[q][Len(responses[q])] \in Response
        BY <4>1
      <4>3. DecidedNow[q] = responses[q][Len(responses[q])].decision
        BY <3>2 DEF DecidedNow
      <4>. QED  BY <1>1, <3>2, <4>2, <4>3 DEF Register!Outcomes
    <3>. QED  BY <3>1, <3>2
  <2>2. CASE responses'[q] = responses[q]
    BY <2>1, <2>2 DEF DecidedNow
  <2>3. CASE responses'[q] # responses[q]
    <3>1. /\ responses[q] = <<>> /\ Holds(r, q)
          /\ responses'[q] = <<r[Key(q)].response>>
          /\ r[Key(q)].response \in Response
      BY <2>3, RecordsNow
    <3>2. DecidedNow'[q] = r[Key(q)].response.decision
      BY SMTT(40), <3>1 DEF DecidedNow
    <3>. QED  BY <1>1, <2>1, <2>3, <3>1, <3>2, NoResponseApart
  <2>. QED  BY <2>2, <2>3
<1>3. ASSUME NEW q \in Requests
      PROVE  \/ Register!Hold(q) \/ Register!Decide(q)
             \/ Register!Drop(q) \/ Register!Keep(q)
  <2>. DEFINE k == Key(q)
  <2>0. Register!Hold(q) <=> /\ DecidedNow[q] = "none"
                             /\ q \notin HeldNow /\ q \in HeldNow'
                             /\ DecidedNow'[q] = "none"
    BY DEF Register!Hold, HeldNow, DecidedNow
  <2>1. Register!Decide(q) <=> /\ DecidedNow[q] = "none"
                               /\ DecidedNow'[q] \in Register!Outcomes
                               /\ DecidedNow'[q] = "Approved" => q \in HeldNow
                               /\ q \notin HeldNow'
    BY DEF Register!Decide, HeldNow, DecidedNow
  <2>2. Register!Drop(q) <=> /\ q \in HeldNow /\ q \notin HeldNow'
                             /\ DecidedNow'[q] = DecidedNow[q]
    BY DEF Register!Drop, HeldNow, DecidedNow
  <2>3. Register!Keep(q) <=> /\ q \in HeldNow' <=> q \in HeldNow
                             /\ DecidedNow'[q] = DecidedNow[q]
    BY DEF Register!Keep, HeldNow, DecidedNow
  <2>4. q \in HeldNow <=> /\ k \in DOMAIN replay /\ replay[k].request = q
                          /\ replay[k].response = NoResponse
    BY DEF HeldNow, Holds, Recorded
  <2>5. q \in HeldNow' <=> /\ k \in DOMAIN r /\ r[k].request = q
                           /\ r[k].response = NoResponse
    BY <1>0 DEF HeldNow, Holds, Recorded
  <2>6. CASE responses'[q] # responses[q]
    <3>1. q \notin HeldNow'
      BY <1>2, <2>5, <2>6
    <3>2. ASSUME DecidedNow'[q] = "Approved" PROVE q \in HeldNow
      <4>1. k \in DOMAIN r /\ r[k].request = q /\ r[k].response # NoResponse
            /\ r[k].response.decision = "Approved" /\ responses[q] = <<>>
        BY <1>2, <2>6, <3>2 DEF Holds
      <4>2. r[k].state = "Approved"
        BY <4>1 DEF Legal, Formed
      <4>3. k \in DOMAIN replay /\ replay[k].request = q
        BY <4>1, <4>2 DEF Legal
      <4>4. replay[k].response = NoResponse
        BY <4>1, <4>3, FaithfulEmpty
      <4>. QED  BY <2>4, <4>3, <4>4
    <3>. QED  BY <1>2, <2>1, <2>6, <3>1, <3>2
  <2>7. CASE responses'[q] = responses[q]
    <3>1. DecidedNow'[q] = DecidedNow[q]
      BY <1>2, <2>7
    <3>2. ASSUME q \in HeldNow', q \notin HeldNow
          PROVE  DecidedNow[q] = "none"
      <4>1. k \in DOMAIN r /\ r[k].request = q /\ r[k].response = NoResponse
        BY <2>5, <3>2
      <4>2. CASE k \notin DOMAIN replay
        BY <1>2, <4>1, <4>2 DEF Legal
      <4>3. CASE k \in DOMAIN replay
        BY <2>4, <3>2, <4>1, <4>3 DEF Legal
      <4>. QED  BY <4>2, <4>3
    <3>. QED  BY <2>0, <2>2, <2>3, <3>1, <3>2
  <2>. QED  BY <2>6, <2>7
<1>4. HeldNow' \subseteq Requests
  BY DEF HeldNow
<1>5. DecidedNow' \in [Requests -> Register!Outcomes \union {"none"}]
  <2>1. \A q \in Requests : DecidedNow'[q] \in Register!Outcomes \union {"none"}
    BY <1>2
  <2>2. DecidedNow' = [q \in Requests |-> DecidedNow'[q]]
    BY DEF DecidedNow
  <2>. QED  BY <2>1, <2>2
<1>. QED  BY <1>3, <1>4, <1>5 DEF Register!Next, HeldNow, DecidedNow

(***************************************************************************)
(* The step every handler shares: a legal change of the table, committed   *)
(* by commit_and_publish, keeps the invariant.                             *)
(***************************************************************************)
LEMMA CommitKeeps ==
  ASSUME IInv, NEW r, Legal(r), Moved(r), RequireSafeClock,
         acks' \subseteq Checkpoints, DOMAIN vaults' \subseteq Vaults,
         \A v \in DOMAIN vaults' : vaults'[v] \in Checkpoints /\ vaults'[v].vault = v
  PROVE  Kept
<1>0. last' \in Time /\ last' >= now /\ last' >= last
      /\ now \in Int /\ last \in Int /\ last' \in Int
  BY LastGrows, TimeNat, Zenon DEF IInv, Typed, Moved
<1>1. ASSUME NEW q \in Requests
      PROVE  Recorded(r, q) \in Response \union {NoResponse}
  BY FormedResponse DEF Recorded, Holds, Legal
<1>2. responses' \in [Requests -> Seq(Response)]
  <2>. SUFFICES ASSUME NEW q \in Requests
                PROVE  (IF Recorded(r, q) \in {NoResponse, Recorded(replay, q)}
                        THEN responses[q] ELSE Append(responses[q], Recorded(r, q)))
                       \in Seq(Response)
    BY DEF Moved
  <2>1. responses[q] \in Seq(Response)
    BY DEF IInv, Typed
  <2>. QED  BY <1>1, <2>1
<1>3. Typed'
  BY <1>0, <1>2 DEF IInv, Typed, Legal, Moved, Formed
<1>4. ASSUME NEW k \in DOMAIN r
      PROVE  responses'[r[k].request] = IF r[k].response = NoResponse THEN <<>>
                                        ELSE <<r[k].response>>
  <2>. DEFINE q == r[k].request
  <2>1. /\ q \in Requests /\ Key(q) = k /\ Recorded(r, q) = r[k].response
        /\ r[k].response \in Response \union {NoResponse}
    BY FormedResponse DEF Legal, Formed, Recorded, Holds
  <2>2. responses'[q] = IF r[k].response \in {NoResponse, Recorded(replay, q)}
                        THEN responses[q] ELSE Append(responses[q], r[k].response)
    BY <2>1 DEF Moved
  <2>3. CASE k \notin DOMAIN replay
    <3>1. responses[q] = <<>> /\ Recorded(replay, q) = NoResponse
      BY <2>1, <2>3 DEF Legal, Recorded, Holds
    <3>. QED  BY <2>1, <2>2, <3>1
  <2>4. CASE k \in DOMAIN replay
    <3>1. q = replay[k].request /\ Recorded(replay, q) = replay[k].response
      BY <2>1, <2>4 DEF Legal, Recorded, Holds
    <3>2. responses[q] = IF replay[k].response = NoResponse THEN <<>>
                         ELSE <<replay[k].response>>
      BY <2>4, <3>1 DEF IInv, Faithful
    <3>3. replay[k].response = NoResponse \/ r[k].response = replay[k].response
      BY <2>4 DEF Legal
    <3>4. CASE replay[k].response = NoResponse
      <4>1. responses[q] = <<>> /\ Recorded(replay, q) = NoResponse
        BY <3>1, <3>2, <3>4
      <4>. QED  BY <2>1, <2>2, <4>1
    <3>5. CASE replay[k].response # NoResponse
      <4>1. r[k].response = replay[k].response
        BY <3>3, <3>5
      <4>. QED  BY <2>1, <2>2, <3>1, <3>2, <3>5, <4>1
    <3>. QED  BY <3>4, <3>5
  <2>. QED  BY <2>3, <2>4
<1>5. Faithful'
  BY <1>4 DEF Faithful, Moved
<1>6. ASSUME NEW q \in Requests, responses'[q] # <<>>, ~Holds(r, q)
      PROVE  last' > q.expires_at + Retention /\ Len(responses'[q]) = 1
  <2>1. responses'[q] = responses[q]
    BY <1>6 DEF Moved, Recorded
  <2>2. CASE Holds(replay, q)
    <3>. DEFINE k == Key(q)
    <3>1. k \in DOMAIN replay /\ replay[k].request = q
      BY <2>2 DEF Holds
    <3>2. k \notin DOMAIN r
      BY <1>6, <3>1 DEF Legal, Holds
    <3>3. now > q.expires_at + Retention
      BY <3>1, <3>2 DEF Legal, IInv, Typed, Formed
    <3>4. Len(responses[q]) = 1
      <4>1. responses[q] = <<replay[k].response>>
        BY <1>6, <2>1, <3>1, Zenon DEF IInv, Faithful
      <4>. QED  BY <4>1
    <3>. QED
      BY <1>0, <2>1, <3>3, <3>4, TimesAssumption, RequestsAssumption
  <2>3. CASE ~Holds(replay, q)
    <3>1. last > q.expires_at + Retention /\ Len(responses[q]) = 1
      BY <1>6, <2>1, <2>3 DEF IInv, Remembered
    <3>. QED
      BY <1>0, <2>1, <3>1, TimesAssumption, RequestsAssumption
  <2>. QED  BY <2>2, <2>3
<1>7. Remembered'
  BY <1>6 DEF Remembered, Moved, Holds
<1>8. Bounded' /\ TimesStep
  BY CommitOrdered
<1>9. Register!Next
  BY CommitRefines
<1>. QED  BY <1>3, <1>5, <1>7, <1>8, <1>9 DEF IInv, Kept

-----------------------------------------------------------------------------
Dated == {x \in Response : x.issued_at = now}

\* Denials and approvals created now are responses.
LEMMA ResponsesTyped ==
  ASSUME now \in Time
  PROVE  /\ \A reason \in Reasons : Denial(reason) \in Dated
         /\ [decision |-> "Approved", reason |-> "ok", issued_at |-> now] \in Dated
BY DEF Denial, Response, Reasons, Dated

\* An entry that is settled keeps its request and holds the response.
LEMMA SettleFormed ==
  ASSUME NEW k, NEW e, Formed(k, e), NEW response \in Response
  PROVE  /\ Formed(k, Settle(e, response))
         /\ Settle(e, response).request = e.request
         /\ Settle(e, response).response = response
BY Zenon DEF Formed, Settle, Entry, Response

\* Rewriting the entry of an undecided request is legal.
LEMMA RewriteLegal ==
  ASSUME IInv, NEW k \in DOMAIN replay, NEW e, Formed(k, e),
         e.request = replay[k].request, replay[k].response = NoResponse,
         e.response = NoResponse \/ e.response.issued_at = now
  PROVE  Legal(With(k, e))
<1>1. DOMAIN With(k, e) = DOMAIN replay
  BY DEF With
<1>2. \A j \in DOMAIN replay : With(k, e)[j] = IF j = k THEN e ELSE replay[j]
  BY DEF With
<1>. QED  BY <1>1, <1>2 DEF Legal, IInv, Typed

(***************************************************************************)
(* Adding an entry is legal: the request has not expired, so the clock     *)
(* test rules out that it was decided and compacted away.                  *)
(***************************************************************************)
LEMMA AddLegal ==
  ASSUME IInv, NEW q \in Requests, Key(q) \notin DOMAIN replay,
         RequireSafeClock, NotExpired(q), NEW state, NEW response,
         \/ state = "Reserved" /\ response = NoResponse
         \/ /\ response \in Response /\ state = response.decision
            /\ response.issued_at = now /\ state # "Approved"
  PROVE  Legal(With(Key(q), NewEntry(q, state, response)))
<1>. DEFINE e == NewEntry(q, state, response)
            r == With(Key(q), e)
<1>1. DOMAIN r = DOMAIN replay \union {Key(q)}
  BY DEF With
<1>2. \A j \in DOMAIN r : r[j] = IF j = Key(q) THEN e ELSE replay[j]
  BY DEF With
<1>3. Formed(Key(q), e) /\ e.request = q
  BY TimesAssumption, RequestsAssumption
     DEF Formed, NewEntry, Entry, Response, NoResponse
<1>4. responses[q] = <<>>
  <2>1. ~Holds(replay, q)
    BY DEF Holds
  <2>2. ~(last > q.expires_at + Retention)
    <3>1. now \in Int /\ last \in Int /\ q.expires_at \in Int
          /\ Skew \in Int /\ Retention \in Int /\ Skew =< Retention
      BY TimeNat, TimesAssumption, RequestsAssumption DEF IInv, Typed
    <3>2. now + Skew >= last /\ now < q.expires_at
      BY DEF RequireSafeClock, NotExpired
    <3>. QED  BY <3>1, <3>2
  <2>. QED  BY <2>1, <2>2 DEF IInv, Remembered
<1>5. Key(q) \in Keys
  BY DEF Keys
<1>. HIDE DEF e, r
<1>6. \A j \in DOMAIN r : Formed(j, r[j])
  BY <1>1, <1>2, <1>3 DEF IInv, Typed
<1>7. \A j \in DOMAIN r \intersect DOMAIN replay : r[j] = replay[j]
  BY <1>1, <1>2
<1>8. \A j \in DOMAIN r \ DOMAIN replay :
        /\ responses[r[j].request] = <<>>
        /\ r[j].response = NoResponse \/ r[j].response.issued_at = now
        /\ r[j].state # "Approved"
  <2>1. e.state = state /\ e.response = response
    BY DEF e, NewEntry
  <2>. QED  BY <1>1, <1>2, <1>3, <1>4, <2>1
<1>. QED  BY <1>1, <1>5, <1>6, <1>7, <1>8 DEF Legal, IInv, Typed, r, e

\* normalize_approvals only drops decisions.
LEMMA NormalizeKeeps == \A A : NormalizeApprovals(A) \subseteq A
BY DEF NormalizeApprovals

-----------------------------------------------------------------------------
\* What a handler that leaves checkpoints alone proves about its table.
LEMMA ServeKeeps ==
  ASSUME IInv, NEW r, Legal(r), CommitAndPublish(vaults, r), UNCHANGED acks,
         RequireSafeClock
  PROVE  Kept
<1>1. Moved(r) /\ vaults' = vaults
  BY DEF CommitAndPublish, Moved
<1>. QED  BY <1>1, CommitKeeps DEF IInv, Typed

\* register_vault leaves the table alone.
LEMMA RegisterKeeps ==
  ASSUME IInv, NEW c \in Checkpoints, RegisterVault(c)
  PROVE  Kept
<1>1. Legal(replay)
  BY DEF Legal, IInv, Typed
<1>2. Moved(replay) /\ RequireSafeClock /\ acks' = acks \union {c}
      /\ vaults' = [v \in DOMAIN vaults \union {c.vault} |->
                      IF v = c.vault THEN c ELSE vaults[v]]
  BY DEF RegisterVault, CommitAndPublish, Moved
<1>3. DOMAIN vaults' \subseteq Vaults
      /\ \A v \in DOMAIN vaults' : vaults'[v] \in Checkpoints /\ vaults'[v].vault = v
  BY <1>2 DEF IInv, Typed, Vaults
<1>4. acks' \subseteq Checkpoints
  BY <1>2 DEF IInv, Typed
<1>. QED  BY <1>1, <1>2, <1>3, <1>4, CommitKeeps

\* Denying what is reserved settles each of these requests once.
LEMMA DenyLegal ==
  ASSUME IInv, NEW v
  PROVE  Legal(DenyReserved(v))
<1>. DEFINE r == DenyReserved(v)
            hit(k) == k[1] = v /\ replay[k].state = "Reserved"
<1>1. DOMAIN r = DOMAIN replay
  BY DEF DenyReserved
<1>2. ASSUME NEW k \in DOMAIN replay
      PROVE  /\ hit(k) => r[k] = Settle(replay[k], Denial("StalePolicy"))
             /\ ~hit(k) => r[k] = replay[k]
  BY DEF DenyReserved
<1>3. Denial("StalePolicy") \in Response /\ Denial("StalePolicy").issued_at = now
  BY ResponsesTyped DEF IInv, Typed, Reasons, Dated
<1>. HIDE DEF r
<1>4. ASSUME NEW k \in DOMAIN replay
      PROVE  /\ Formed(k, r[k]) /\ r[k].request = replay[k].request
             /\ \/ r[k].response = replay[k].response
                \/ replay[k].response = NoResponse /\ r[k].response.issued_at = now
  <2>1. Formed(k, replay[k])
    BY DEF IInv, Typed
  <2>2. CASE hit(k)
    BY <1>2, <1>3, <2>1, <2>2, SettleFormed, FormedResponse
  <2>3. CASE ~hit(k)
    BY <1>2, <2>1, <2>3
  <2>. QED  BY <2>2, <2>3
<1>. QED  BY <1>1, <1>4 DEF Legal, IInv, Typed, r

\* advance_checkpoint denies what the old checkpoint had reserved.
LEMMA AdvanceKeeps ==
  ASSUME IInv, NEW c \in Checkpoints, AdvanceCheckpoint(c)
  PROVE  Kept
<1>1. Moved(DenyReserved(c.vault)) /\ RequireSafeClock /\ acks' = acks \union {c}
      /\ vaults' = [vaults EXCEPT ![c.vault] = c] /\ c.vault \in DOMAIN vaults
  BY DEF AdvanceCheckpoint, CommitAndPublish, Moved
<1>2. DOMAIN vaults' \subseteq Vaults
      /\ \A v \in DOMAIN vaults' : vaults'[v] \in Checkpoints /\ vaults'[v].vault = v
  BY <1>1 DEF IInv, Typed
<1>3. acks' \subseteq Checkpoints
  BY <1>1 DEF IInv, Typed
<1>. QED  BY <1>1, <1>2, <1>3, DenyLegal, CommitKeeps

\* reserve adds an entry or repeats what it has.
LEMMA ReserveKeeps ==
  ASSUME IInv, NEW policy, NEW q \in Requests, Reserve(policy, q)
  PROVE  Kept
<1>1. CASE Key(q) \notin DOMAIN replay
  <2>1. RequireSafeClock /\ NotExpired(q)
    BY <1>1 DEF Reserve, ValidateRequest
  <2>2. Legal(With(Key(q), NewEntry(q, "Reserved", NoResponse)))
    BY <1>1, <2>1, AddLegal
  <2>. QED  BY <1>1, <2>1, <2>2, ServeKeeps DEF Reserve
<1>2. CASE Key(q) \in DOMAIN replay
  <2>. DEFINE k == Key(q)
              e == Settle(replay[k], Denial("ReplayConflict"))
  <2>1. Formed(k, replay[k]) /\ replay[k].response = NoResponse
    BY <1>2, FormedResponse DEF IInv, Typed, Reserve
  <2>2. Denial("ReplayConflict") \in Response
        /\ Denial("ReplayConflict").issued_at = now /\ RequireSafeClock
    BY ResponsesTyped DEF IInv, Typed, Reasons, Dated, Reserve
  <2>3. Legal(With(k, e))
    BY <1>2, <2>1, <2>2, SettleFormed, RewriteLegal
  <2>. QED  BY <1>2, <2>2, <2>3, ServeKeeps DEF Reserve
<1>. QED  BY <1>1, <1>2

\* decide settles a reserved request, or adds decisions to it.
LEMMA DecideKeeps ==
  ASSUME IInv, NEW policy, NEW q \in Requests, NEW new \in SUBSET Approvals,
         Decide(policy, q, new)
  PROVE  Kept
<1>. DEFINE k == Key(q)
            accepted == Accepted(q, new)
            entry == [replay[k] EXCEPT !.approvals = accepted]
<1>1. k \in DOMAIN replay /\ replay[k].response = NoResponse /\ UNCHANGED acks
      /\ RequireSafeClock
  BY DEF Decide, Holds
<1>2. Formed(k, replay[k])
  BY <1>1 DEF IInv, Typed
<1>3. accepted \subseteq Approvals
  BY <1>2, NormalizeKeeps DEF Accepted, Formed, Entry
<1>4. Formed(k, entry) /\ entry.request = replay[k].request
      /\ entry.response = replay[k].response
  <2>. HIDE DEF accepted
  <2>. QED  BY <1>2, <1>3 DEF Formed, Entry
<1>5. \E response \in Dated, e \in {entry, replay[k]} :
        \/ CommitAndPublish(vaults, With(k, Settle(e, response)))
        \/ CommitAndPublish(vaults, With(k, e))
  <2>1. \A reason \in Reasons : Denial(reason) \in Dated
    BY ResponsesTyped DEF IInv, Typed
  <2>2. [decision |-> "Approved", reason |-> "ok", issued_at |-> now] \in Dated
    BY ResponsesTyped DEF IInv, Typed
  <2>3. CASE CommitAndPublish(vaults, With(k, Settle(replay[k], Denial("Expired"))))
    BY <2>1, <2>3 DEF Reasons
  <2>4. CASE CommitAndPublish(vaults, With(k, Settle(entry,
               [decision |-> "Approved", reason |-> "ok", issued_at |-> now])))
    BY <2>2, <2>4
  <2>5. CASE \E reason \in Reasons :
               CommitAndPublish(vaults, With(k, Settle(entry, Denial(reason))))
    BY <2>1, <2>5
  <2>6. CASE CommitAndPublish(vaults, With(k, entry))
    BY <2>2, <2>6
  <2>7. (IF Conflicted(accepted) THEN "ApprovalConflict" ELSE "ApprovalDenied") \in Reasons
    BY DEF Reasons
  <2>. HIDE DEF accepted, entry
  <2>. QED  BY <2>3, <2>4, <2>5, <2>6, <2>7 DEF Decide, accepted, entry
<1>6. PICK response \in Dated, e \in {entry, replay[k]} :
        \/ CommitAndPublish(vaults, With(k, Settle(e, response)))
        \/ CommitAndPublish(vaults, With(k, e))
  BY <1>5
<1>7. Formed(k, e) /\ e.request = replay[k].request /\ e.response = NoResponse
  BY <1>1, <1>2, <1>4, <1>6, Zenon
<1>. HIDE DEF k, entry, accepted
<1>8. Legal(With(k, e))
  BY <1>1, <1>7, RewriteLegal
<1>9. Legal(With(k, Settle(e, response)))
  BY <1>1, <1>7, SettleFormed, RewriteLegal DEF Dated
<1>. QED  BY <1>1, <1>6, <1>8, <1>9, ServeKeeps

\* cancel settles a request, known or unknown.
LEMMA CancelKeeps ==
  ASSUME IInv, NEW policy, NEW c, c.request \in Requests, Cancel(policy, c)
  PROVE  Kept
<1>. DEFINE q == c.request
            k == Key(q)
            response == Denial("Cancelled")
<1>1. response \in Response /\ response.decision = "Cancelled"
      /\ response.issued_at = now /\ RequireSafeClock
  BY ResponsesTyped DEF IInv, Typed, Reasons, Denial, Dated, Cancel
<1>. HIDE DEF response
<1>2. CASE k \in DOMAIN replay
  <2>1. Formed(k, replay[k]) /\ replay[k].response = NoResponse
    BY <1>2 DEF IInv, Typed, Cancel, Uncancellable
  <2>2. Legal(With(k, Settle(replay[k], response)))
    BY SMTT(40), <1>1, <1>2, <2>1, SettleFormed, RewriteLegal
  <2>. QED  BY <1>1, <1>2, <2>2, ServeKeeps DEF Cancel, response
<1>3. CASE k \notin DOMAIN replay
  <2>1. RequireSafeClock /\ NotExpired(q)
    BY DEF Cancel, ValidateRequest
  <2>2. Legal(With(k, NewEntry(q, "Cancelled", response)))
    BY <1>1, <1>3, <2>1, AddLegal
  <2>. QED  BY <1>3, <2>2, ServeKeeps DEF Cancel, response
<1>. QED  BY <1>2, <1>3

\* compact_replay drops only what can no longer be reserved.
LEMMA CompactKeeps ==
  ASSUME IInv, CompactReplay
  PROVE  Kept
<1>. DEFINE kept == {k \in DOMAIN replay : Retained(k)}
            r == [k \in kept |-> replay[k]]
<1>1. \A k \in DOMAIN replay \ kept : now > replay[k].retain_through
  <2>. SUFFICES ASSUME NEW k \in DOMAIN replay \ kept
                PROVE  now > replay[k].retain_through
    OBVIOUS
  <2>1. now \in Int /\ replay[k].retain_through \in Int
    BY TimeNat DEF IInv, Typed, Formed, Entry
  <2>. QED  BY <2>1 DEF Retained
<1>2. DOMAIN r = kept /\ kept \subseteq DOMAIN replay
      /\ \A k \in kept : r[k] = replay[k]
  OBVIOUS
<1>3. CommitAndPublish(vaults, r) /\ UNCHANGED acks /\ RequireSafeClock
  BY DEF CompactReplay
<1>. HIDE DEF r, kept
<1>4. Legal(r)
  BY <1>1, <1>2 DEF Legal, IInv, Typed
<1>. QED  BY <1>3, <1>4, ServeKeeps

-----------------------------------------------------------------------------
\* The host clock moves without touching what the witness stores.
LEMMA ClockKeeps ==
  ASSUME IInv, NEW t \in Time, SetClock(t)
  PROVE  IInv' /\ UNCHANGED <<replay, responses, vaults, acks, last>>
BY DEF SetClock, IInv, Typed, Faithful, Remembered, Bounded, Formed, Holds

\* Nothing changes without a step.
LEMMA StutterKeeps ==
  ASSUME IInv, UNCHANGED vars
  PROVE  IInv' /\ UNCHANGED <<replay, responses, vaults, acks, last>>
BY DEF vars, IInv, Typed, Faithful, Remembered, Bounded, Formed, Holds

(***************************************************************************)
(* One step: a handler keeps the invariant, orders its responses and is a  *)
(* step of DecisionRegister; any other step leaves the stored state alone. *)
(***************************************************************************)
LEMMA StepKeeps ==
  ASSUME IInv, [Next]_vars
  PROVE  \/ Kept
         \/ IInv' /\ UNCHANGED <<replay, responses, vaults, acks, last>>
<1>1. ASSUME NEW t \in Time, SetClock(t)
      PROVE  IInv' /\ UNCHANGED <<replay, responses, vaults, acks, last>>
  BY <1>1, ClockKeeps
<1>2. CASE Advance
  BY <1>2, RegisterKeeps, AdvanceKeeps DEF Advance
<1>3. CASE Serve
  <2>1. PICK policy \in acks, q \in Requests :
          \/ Reserve(policy, q)
          \/ \E new \in SUBSET {d \in Approvals : d.request = q} :
               Decide(policy, q, new)
          \/ \E c \in Cancellations : c.request = q /\ Cancel(policy, c)
    BY <1>3 DEF Serve
  <2>2. CASE Reserve(policy, q)
    BY <2>2, ReserveKeeps
  <2>3. ASSUME NEW new \in SUBSET {d \in Approvals : d.request = q},
               Decide(policy, q, new)
        PROVE  Kept
    <3>1. new \in SUBSET Approvals
      OBVIOUS
    <3>. QED  BY <2>3, <3>1, DecideKeeps
  <2>4. ASSUME NEW c \in Cancellations, c.request = q, Cancel(policy, c)
        PROVE  Kept
    BY <2>4, CancelKeeps
  <2>. QED  BY <2>1, <2>2, <2>3, <2>4
<1>4. CASE CompactReplay
  BY <1>4, CompactKeeps
<1>5. CASE UNCHANGED vars
  BY <1>5, StutterKeeps
<1>. QED  BY <1>1, <1>2, <1>3, <1>4, <1>5 DEF Next

\* A new witness has nothing to remember.
LEMMA InitKeeps ==
  ASSUME Init
  PROVE  IInv
<1>1. Typed
  BY TimesAssumption DEF Init, Typed, Time, Formed, Keys, Vaults
<1>. QED  BY <1>1 DEF Init, IInv, Faithful, Remembered, Bounded

\* The invariant of the request life cycle holds in every behaviour.
THEOREM EngineInvariance == Spec => []IInv
<1>1. Init => IInv
  BY InitKeeps
<1>2. IInv /\ [Next]_vars => IInv'
  BY StepKeeps DEF Kept
<1>. QED  BY <1>1, <1>2, PTL DEF Spec

\* Type correctness of the clock, checkpoints, entries and history.
THEOREM EngineTyped == Spec => []TypeOK
<1>1. IInv => TypeOK
  BY DEF IInv, Typed, TypeOK, Formed
<1>. QED  BY <1>1, EngineInvariance, PTL

(***************************************************************************)
(* reserve, decide, cancel, advance_checkpoint and compact_replay record   *)
(* at most one response for a request, for every clock behaviour.          *)
(***************************************************************************)
THEOREM AtMostOneDecision == Spec => []OneDecision
<1>1. IInv => OneDecision
  <2>. SUFFICES ASSUME IInv, NEW q \in Requests
                PROVE  Len(responses[q]) =< 1
    BY DEF OneDecision
  <2>1. CASE responses[q] = <<>>
    BY <2>1
  <2>2. CASE Holds(replay, q) /\ responses[q] # <<>>
    <3>1. responses[q] = <<replay[Key(q)].response>>
      BY <2>2, Zenon DEF Holds, IInv, Faithful
    <3>. QED  BY <3>1
  <2>3. CASE Len(responses[q]) = 1
    BY <2>3
  <2>. QED  BY <2>1, <2>2, <2>3 DEF IInv, Remembered
<1>. QED  BY <1>1, EngineInvariance, PTL

(***************************************************************************)
(* The times of recorded responses never go back by more than the skew     *)
(* (require_safe_clock and the highest accepted time).                     *)
(***************************************************************************)
THEOREM ResponseTimes == Spec => TimesOrdered
<1>1. IInv /\ [Next]_vars => [TimesStep]_vars
  <2>. SUFFICES ASSUME IInv, [Next]_vars  PROVE TimesStep
    OBVIOUS
  <2>1. CASE UNCHANGED responses
    BY <2>1 DEF TimesStep
  <2>. QED  BY <2>1, StepKeeps DEF Kept
<1>. QED  BY <1>1, EngineInvariance, PTL DEF Spec, TimesOrdered

\* The engine implements DecisionRegister.
THEOREM EngineRefinement == Spec => ImplementsDecisionRegister
<1>1. Init => Register!Init
  BY DEF Init, Register!Init, Holds
<1>2. IInv /\ [Next]_vars =>
        [Register!Next]_<<HeldNow, DecidedNow>>
  <2>. SUFFICES ASSUME IInv, [Next]_vars, ~Register!Next
                PROVE  UNCHANGED <<HeldNow, DecidedNow>>
    OBVIOUS
  <2>1. UNCHANGED <<replay, responses>>
    BY StepKeeps DEF Kept
  <2>. QED  BY <2>1 DEF HeldNow, DecidedNow, Holds, Recorded
<1>. QED
  BY <1>1, <1>2, EngineInvariance, PTL
     DEF Spec, ImplementsDecisionRegister, Register!Spec, HeldNow, DecidedNow

-----------------------------------------------------------------------------
(***************************************************************************)
(* Pending requests and checkpoints.  A handler that leaves checkpoints    *)
(* alone keeps ReservedIsCurrent when each entry it leaves reserved was    *)
(* reserved before or is of the current checkpoint.                        *)
(***************************************************************************)
LEMMA ReservedKept ==
  ASSUME ReservedIsCurrent, NEW r, CommitAndPublish(vaults, r),
         \A k \in DOMAIN r : r[k].state = "Reserved" =>
           \/ /\ k \in DOMAIN replay /\ replay[k].state = "Reserved"
              /\ r[k].request = replay[k].request
           \/ k[1] \in DOMAIN vaults /\ r[k].request.checkpoint = vaults[k[1]].digest
  PROVE  ReservedIsCurrent'
BY DEF ReservedIsCurrent, CommitAndPublish

\* Adding an entry to the table leaves the others as they are.
LEMMA WithIs ==
  ASSUME NEW k, NEW e, NEW j \in DOMAIN With(k, e)
  PROVE  \/ With(k, e)[j] = e /\ j = k
         \/ With(k, e)[j] = replay[j] /\ j \in DOMAIN replay
BY DEF With

\* What reserve, decide and cancel leave reserved is of the current checkpoint.
LEMMA ServeReserved ==
  ASSUME IInv, ReservedIsCurrent, Serve
  PROVE  ReservedIsCurrent'
<1>1. PICK policy \in acks, q \in Requests :
        \/ Reserve(policy, q)
        \/ \E new \in SUBSET {d \in Approvals : d.request = q} :
             Decide(policy, q, new)
        \/ \E c \in Cancellations : c.request = q /\ Cancel(policy, c)
  BY DEF Serve
<1>. DEFINE k == Key(q)
<1>2. k[1] = q.vault
  BY DEF Key
<1>3. ASSUME NEW e, CommitAndPublish(vaults, With(k, e)),
             e.state = "Reserved" =>
               \/ /\ k \in DOMAIN replay /\ replay[k].state = "Reserved"
                  /\ e.request = replay[k].request
               \/ k[1] \in DOMAIN vaults /\ e.request.checkpoint = vaults[k[1]].digest
      PROVE  ReservedIsCurrent'
  <2>. HIDE DEF k
  <2>1. \A j \in DOMAIN With(k, e) :
          \/ With(k, e)[j] = e /\ j = k
          \/ With(k, e)[j] = replay[j] /\ j \in DOMAIN replay
    BY WithIs
  <2>. QED  BY <1>3, <2>1, ReservedKept
<1>4. ASSUME NEW e, NEW response \in Response,
             CommitAndPublish(vaults, With(k, Settle(e, response))),
             e \in Entry
      PROVE  ReservedIsCurrent'
  <2>1. Settle(e, response).state # "Reserved"
    BY DEF Settle, Entry, Response
  <2>. QED  BY <1>3, <1>4, <2>1
<1>5. /\ \A reason \in Reasons : Denial(reason) \in Response
      /\ [decision |-> "Approved", reason |-> "ok", issued_at |-> now] \in Response
  BY ResponsesTyped DEF Dated, IInv, Typed
<1>6. \A j \in DOMAIN replay : Formed(j, replay[j]) /\ replay[j] \in Entry
  BY DEF IInv, Typed, Formed
<1>7. CASE Reserve(policy, q)
  <2>1. CASE k \notin DOMAIN replay
    <3>. DEFINE e == NewEntry(q, "Reserved", NoResponse)
    <3>1. CommitAndPublish(vaults, With(k, e)) /\ Registered(policy, q)
      BY <1>7, <2>1 DEF Reserve, ValidateRequest
    <3>2. e.request = q
      BY DEF NewEntry
    <3>. HIDE DEF e, k
    <3>. QED  BY <1>2, <1>3, <3>1, <3>2 DEF Registered
  <2>2. CASE k \in DOMAIN replay
    <3>1. CommitAndPublish(vaults, With(k, Settle(replay[k], Denial("ReplayConflict"))))
      BY <1>7, <2>2 DEF Reserve
    <3>2. Denial("ReplayConflict") \in Response
      BY <1>5 DEF Reasons
    <3>. HIDE DEF k
    <3>. QED  BY <1>4, <1>6, <2>2, <3>1, <3>2
  <2>. QED  BY <2>1, <2>2
<1>8. ASSUME NEW new \in SUBSET {d \in Approvals : d.request = q},
             Decide(policy, q, new)
      PROVE  ReservedIsCurrent'
  <2>. DEFINE accepted == Accepted(q, new)
              entry == [replay[k] EXCEPT !.approvals = accepted]
  <2>1. k \in DOMAIN replay
    BY <1>8 DEF Decide, Holds
  <2>2. accepted \subseteq Approvals
    BY <1>6, <2>1, NormalizeKeeps DEF Accepted, Entry
  <2>3. /\ entry \in Entry /\ entry.request = replay[k].request
        /\ entry.state = replay[k].state
    <3>. HIDE DEF accepted
    <3>. QED  BY <1>6, <2>1, <2>2 DEF Entry
  <2>4. CASE CommitAndPublish(vaults, With(k, Settle(replay[k], Denial("Expired"))))
    BY <1>4, <1>5, <1>6, <2>1, <2>4 DEF Reasons
  <2>. HIDE DEF accepted, entry
  <2>5. CASE CommitAndPublish(vaults, With(k, Settle(entry,
               [decision |-> "Approved", reason |-> "ok", issued_at |-> now])))
    BY <1>4, <1>5, <2>3, <2>5
  <2>6. CASE \E reason \in Reasons :
               CommitAndPublish(vaults, With(k, Settle(entry, Denial(reason))))
    BY <1>4, <1>5, <2>3, <2>6
  <2>7. CASE CommitAndPublish(vaults, With(k, entry))
    BY <1>3, <2>1, <2>3, <2>7
  <2>8. (IF Conflicted(accepted) THEN "ApprovalConflict" ELSE "ApprovalDenied") \in Reasons
    BY DEF Reasons
  <2>. QED  BY <1>8, <2>4, <2>5, <2>6, <2>7, <2>8 DEF Decide, accepted, entry
<1>9. ASSUME NEW c \in Cancellations, c.request = q, Cancel(policy, c)
      PROVE  ReservedIsCurrent'
  <2>1. Denial("Cancelled") \in Response
    BY <1>5 DEF Reasons
  <2>2. CASE k \in DOMAIN replay
    BY <1>4, <1>6, <1>9, <2>1, <2>2 DEF Cancel
  <2>3. CASE k \notin DOMAIN replay
    <3>. DEFINE e == NewEntry(q, "Cancelled", Denial("Cancelled"))
    <3>1. CommitAndPublish(vaults, With(k, e)) /\ e.state # "Reserved"
      BY <1>9, <2>3 DEF Cancel, NewEntry
    <3>. HIDE DEF e, k
    <3>. QED  BY <1>3, <3>1
  <2>. QED  BY <2>2, <2>3
<1>. QED  BY <1>1, <1>7, <1>8, <1>9

\* Every step keeps reserved requests to the current checkpoint.
LEMMA ReservedStep ==
  ASSUME IInv, ReservedIsCurrent, [Next]_vars
  PROVE  ReservedIsCurrent'
<1>1. CASE UNCHANGED <<vaults, replay>>
  BY <1>1 DEF ReservedIsCurrent
<1>2. ASSUME NEW c \in Checkpoints, RegisterVault(c)
      PROVE  ReservedIsCurrent'
  <2>1. replay' = replay /\ vaults' = [v \in DOMAIN vaults \union {c.vault} |->
                                         IF v = c.vault THEN c ELSE vaults[v]]
        /\ c.vault \notin DOMAIN vaults
    BY <1>2 DEF RegisterVault, CommitAndPublish
  <2>. QED  BY <2>1 DEF ReservedIsCurrent
<1>3. ASSUME NEW c \in Checkpoints, AdvanceCheckpoint(c)
      PROVE  ReservedIsCurrent'
  <2>. DEFINE r == DenyReserved(c.vault)
  <2>1. replay' = r /\ vaults' = [vaults EXCEPT ![c.vault] = c]
    BY <1>3 DEF AdvanceCheckpoint, CommitAndPublish
  <2>2. DOMAIN r = DOMAIN replay
    BY DEF DenyReserved
  <2>3. ASSUME NEW k \in DOMAIN replay, r[k].state = "Reserved"
        PROVE  k[1] # c.vault /\ r[k] = replay[k]
    <3>1. CASE k[1] = c.vault /\ replay[k].state = "Reserved"
      <4>1. r[k] = Settle(replay[k], Denial("StalePolicy")) /\ replay[k] \in Entry
        BY <3>1 DEF DenyReserved, IInv, Typed, Formed
      <4>2. r[k].state = "Denied"
        BY <4>1 DEF Settle, Denial, Entry
      <4>. QED  BY <2>3, <4>2
    <3>2. CASE ~(k[1] = c.vault /\ replay[k].state = "Reserved")
      BY <2>3, <3>2 DEF DenyReserved
    <3>. QED  BY <3>1, <3>2
  <2>. HIDE DEF r
  <2>. QED  BY <2>1, <2>2, <2>3 DEF ReservedIsCurrent
<1>4. CASE CompactReplay
  BY <1>4 DEF CompactReplay, CommitAndPublish, ReservedIsCurrent
<1>5. CASE \E t \in Time : SetClock(t)
  BY <1>1, <1>5 DEF SetClock
<1>6. CASE UNCHANGED vars
  BY <1>1, <1>6 DEF vars
<1>. QED  BY <1>2, <1>3, <1>4, <1>5, <1>6, ServeReserved DEF Next, Advance

(***************************************************************************)
(* No request of a replaced checkpoint stays pending (advance_checkpoint   *)
(* denies them in the commit that replaces it).                            *)
(***************************************************************************)
THEOREM PendingIsCurrent == Spec => []ReservedIsCurrent
<1>1. Init => ReservedIsCurrent
  BY DEF Init, ReservedIsCurrent
<1>2. IInv /\ ReservedIsCurrent /\ [Next]_vars => ReservedIsCurrent'
  BY ReservedStep
<1>. QED  BY <1>1, <1>2, EngineInvariance, PTL DEF Spec

(***************************************************************************)
(* What CheckpointsLinear rests on: the current checkpoint of a vault is   *)
(* the acknowledged one of the highest sequence number.                    *)
(***************************************************************************)
Chain ==
  /\ acks \subseteq Checkpoints
  /\ \A v \in DOMAIN vaults : vaults[v] \in Checkpoints /\ vaults[v].vault = v
  /\ \A c \in acks : /\ c.vault \in DOMAIN vaults
                     /\ c.seq =< vaults[c.vault].seq
                     /\ c.seq = vaults[c.vault].seq => c = vaults[c.vault]
  /\ CheckpointsLinear

\* The request handlers commit a table and leave the checkpoints alone.
LEMMA ServeCommits ==
  ASSUME Serve
  PROVE  UNCHANGED acks /\ \E r : CommitAndPublish(vaults, r)
<1>1. PICK policy \in acks, q \in Requests :
        \/ Reserve(policy, q)
        \/ \E new \in SUBSET {d \in Approvals : d.request = q} :
             Decide(policy, q, new)
        \/ \E c \in Cancellations : c.request = q /\ Cancel(policy, c)
  BY DEF Serve
<1>2. CASE Reserve(policy, q)
  BY <1>2 DEF Reserve
<1>3. CASE \E new \in SUBSET {d \in Approvals : d.request = q} :
             Decide(policy, q, new)
  BY <1>3 DEF Decide
<1>4. CASE \E c \in Cancellations : c.request = q /\ Cancel(policy, c)
  BY <1>4 DEF Cancel
<1>. QED  BY <1>1, <1>2, <1>3, <1>4

\* Every step keeps the acknowledged checkpoints in one chain.
LEMMA ChainStep ==
  ASSUME Chain, [Next]_vars
  PROVE  Chain'
<1>1. CASE UNCHANGED <<vaults, acks>>
  BY <1>1 DEF Chain, CheckpointsLinear
<1>2. ASSUME NEW c \in Checkpoints, RegisterVault(c)
      PROVE  Chain'
  <2>1. acks' = acks \union {c} /\ c.vault \notin DOMAIN vaults
        /\ vaults' = [v \in DOMAIN vaults \union {c.vault} |->
                        IF v = c.vault THEN c ELSE vaults[v]]
    BY <1>2 DEF RegisterVault, CommitAndPublish
  <2>2. \A d \in acks : d.vault # c.vault
    BY <2>1 DEF Chain
  <2>3. c.seq \in Nat
    BY CheckpointsAssumption
  <2>4. \A d \in acks' : /\ d.vault \in DOMAIN vaults'
                         /\ d.seq =< vaults'[d.vault].seq
                         /\ d.seq = vaults'[d.vault].seq => d = vaults'[d.vault]
    BY <2>1, <2>2, <2>3 DEF Chain
  <2>5. CheckpointsLinear'
    BY <2>1, <2>2, <2>3 DEF Chain, CheckpointsLinear
  <2>6. \A v \in DOMAIN vaults' : vaults'[v] \in Checkpoints /\ vaults'[v].vault = v
    BY <2>1 DEF Chain
  <2>. QED  BY <2>1, <2>4, <2>5, <2>6, Zenon DEF Chain
<1>3. ASSUME NEW c \in Checkpoints, AdvanceCheckpoint(c)
      PROVE  Chain'
  <2>. DEFINE current == vaults[c.vault]
  <2>1. acks' = acks \union {c} /\ c.vault \in DOMAIN vaults
        /\ vaults' = [vaults EXCEPT ![c.vault] = c]
        /\ c.seq = current.seq + 1 /\ c.predecessor = current.digest
        /\ c.issued_at > current.issued_at
    BY <1>3 DEF AdvanceCheckpoint, CommitAndPublish, Descends
  <2>2. /\ current \in Checkpoints /\ c.seq \in Nat /\ current.seq \in Nat
        /\ \A d \in acks : d.seq \in Nat
    BY <2>1, CheckpointsAssumption DEF Chain
  <2>3. \A d \in acks : d.vault = c.vault =>
          /\ d.seq < c.seq
          /\ c.seq = d.seq + 1 => d = current
    BY <2>1, <2>2 DEF Chain
  <2>4. \A d \in acks' : /\ d.vault \in DOMAIN vaults'
                         /\ d.seq =< vaults'[d.vault].seq
                         /\ d.seq = vaults'[d.vault].seq => d = vaults'[d.vault]
    <3>. SUFFICES ASSUME NEW d \in acks'
                  PROVE  /\ d.vault \in DOMAIN vaults'
                         /\ d.seq =< vaults'[d.vault].seq
                         /\ d.seq = vaults'[d.vault].seq => d = vaults'[d.vault]
      OBVIOUS
    <3>1. CASE d.vault = c.vault
      BY <2>1, <2>2, <2>3, <3>1 DEF Chain
    <3>2. CASE d.vault # c.vault
      BY <2>1, <3>2 DEF Chain
    <3>. QED  BY <3>1, <3>2
  <2>5. ASSUME NEW d \in acks, d.vault = c.vault
        PROVE  /\ d.seq # c.seq /\ d.seq # c.seq + 1
               /\ c.seq = d.seq + 1 => c.predecessor = d.digest /\ c.issued_at > d.issued_at
    BY <2>1, <2>2, <2>3, <2>5
  <2>6. c.seq # c.seq + 1
    BY <2>2
  <2>7. CheckpointsLinear'
    BY <2>1, <2>5, <2>6 DEF Chain, CheckpointsLinear
  <2>8. \A v \in DOMAIN vaults' : vaults'[v] \in Checkpoints /\ vaults'[v].vault = v
    BY <2>1 DEF Chain
  <2>. QED  BY <2>1, <2>4, <2>7, <2>8 DEF Chain
<1>4. CASE Serve
  <2>1. UNCHANGED <<vaults, acks>>
    BY <1>4, ServeCommits DEF CommitAndPublish
  <2>. QED  BY <1>1, <2>1
<1>5. CASE CompactReplay
  BY <1>1, <1>5 DEF CompactReplay, CommitAndPublish
<1>6. CASE \E t \in Time : SetClock(t)
  BY <1>1, <1>6 DEF SetClock
<1>7. CASE UNCHANGED vars
  BY <1>1, <1>7 DEF vars
<1>. QED  BY <1>2, <1>3, <1>4, <1>5, <1>6, <1>7 DEF Next, Advance

\* The checkpoints acknowledged for a vault form one chain.
THEOREM AcknowledgedChain == Spec => []CheckpointsLinear
<1>1. Init => Chain
  BY DEF Init, Chain, CheckpointsLinear
<1>2. Chain /\ [Next]_vars => Chain'
  BY ChainStep
<1>3. Chain => CheckpointsLinear
  BY DEF Chain
<1>. QED  BY <1>1, <1>2, <1>3, PTL DEF Spec

\* No handler lets the replay table outgrow the service bound.
THEOREM TableBounded == Spec => []ServiceBound
<1>1. Init => ServiceBound
  BY FS_EmptySet, BoundsAssumption DEF Init, ServiceBound
<1>2. ServiceBound /\ [Next]_vars => ServiceBound'
  <2>. SUFFICES ASSUME ServiceBound, [Next]_vars  PROVE ServiceBound'
    OBVIOUS
  <2>1. CASE UNCHANGED replay
    BY <2>1 DEF ServiceBound
  <2>2. CASE \E v, r : CommitAndPublish(v, r)
    BY <2>2 DEF CommitAndPublish, ServiceBound
  <2>3. CASE Advance
    BY <2>2, <2>3 DEF Advance, RegisterVault, AdvanceCheckpoint
  <2>4. CASE Serve
    BY <2>2, <2>4, ServeCommits
  <2>5. CASE CompactReplay
    BY <2>2, <2>5 DEF CompactReplay
  <2>6. CASE (\E t \in Time : SetClock(t)) \/ UNCHANGED vars
    BY <2>1, <2>6 DEF SetClock, vars
  <2>. QED  BY <2>3, <2>4, <2>5, <2>6 DEF Next
<1>. QED  BY <1>1, <1>2, PTL DEF Spec
-----------------------------------------------------------------------------
(***************************************************************************)
(* Approved entries.  The one step that approves the entry k: decide, on   *)
(* the approvals recorded for q that are still current and the new ones.   *)
(***************************************************************************)
Approves(k, q, new) ==
  /\ k = Key(q) /\ k \in DOMAIN replay /\ replay[k].request = q
  /\ now < q.expires_at
  /\ \A d \in replay[k].approvals \cup new : ValidateApprovalStatic(d, q)
  /\ \A d \in new : ApprovalIsCurrent(d)
  /\ Cardinality(Approving(Accepted(q, new))) >= q.threshold
  /\ replay'[k] = Settle([replay[k] EXCEPT !.approvals = Accepted(q, new)],
                         [decision |-> "Approved", reason |-> "ok", issued_at |-> now])

ApprovedNow(k) ==
  \E q \in Requests, new \in SUBSET Approvals : Approves(k, q, new)

\* A settled entry has the state of the response it was settled with.
LEMMA SettleState ==
  ASSUME NEW e \in Entry, NEW response
  PROVE  /\ Settle(e, response).state = response.decision
         /\ Settle(e, response).response = response
         /\ Settle(e, response).request = e.request
         /\ Settle(e, response).approvals = e.approvals
BY DEF Settle, Entry

\* A denial settles an entry as denied or cancelled.
LEMMA DenialState ==
  ASSUME NEW e \in Entry, NEW reason
  PROVE  Settle(e, Denial(reason)).state # "Approved"
BY SettleState DEF Denial

\* In the handlers of requests only decide approves, and only the entry of
\* the request it decides.
LEMMA ServeApproves ==
  ASSUME IInv, Serve, NEW j \in DOMAIN replay', replay'[j].state = "Approved"
  PROVE  (j \in DOMAIN replay /\ replay'[j] = replay[j]) \/ ApprovedNow(j)
<1>1. PICK policy \in acks, q \in Requests :
        \/ Reserve(policy, q)
        \/ \E new \in SUBSET {d \in Approvals : d.request = q} :
             Decide(policy, q, new)
        \/ \E c \in Cancellations : c.request = q /\ Cancel(policy, c)
  BY DEF Serve
<1>. DEFINE k == Key(q)
<1>2. \A i \in DOMAIN replay : replay[i] \in Entry
  BY DEF IInv, Typed, Formed
<1>3. ASSUME NEW e, CommitAndPublish(vaults, With(k, e)),
             e.state # "Approved" \/ (replay'[k] = e => ApprovedNow(k))
      PROVE  (j \in DOMAIN replay /\ replay'[j] = replay[j]) \/ ApprovedNow(j)
  <2>. HIDE DEF k
  <2>1. replay' = With(k, e)
    BY <1>3 DEF CommitAndPublish
  <2>. QED  BY <1>3, <2>1, WithIs
<1>4. ASSUME NEW e \in Entry, NEW reason,
             CommitAndPublish(vaults, With(k, Settle(e, Denial(reason))))
      PROVE  (j \in DOMAIN replay /\ replay'[j] = replay[j]) \/ ApprovedNow(j)
  <2>1. Settle(e, Denial(reason)).state # "Approved"
    BY DenialState
  <2>. HIDE DEF k
  <2>. QED  BY <1>3, <1>4, <2>1
<1>5. CASE Reserve(policy, q)
  <2>1. CASE k \notin DOMAIN replay
    <3>. DEFINE e == NewEntry(q, "Reserved", NoResponse)
    <3>1. CommitAndPublish(vaults, With(k, e)) /\ e.state # "Approved"
      BY <1>5, <2>1 DEF Reserve, NewEntry
    <3>. HIDE DEF e, k
    <3>. QED  BY <1>3, <3>1
  <2>2. CASE k \in DOMAIN replay
    <3>1. CommitAndPublish(vaults, With(k, Settle(replay[k], Denial("ReplayConflict"))))
      BY <1>5, <2>2 DEF Reserve
    <3>. HIDE DEF k
    <3>. QED  BY <1>2, <1>4, <2>2, <3>1
  <2>. QED  BY <2>1, <2>2
<1>6. ASSUME NEW new \in SUBSET {d \in Approvals : d.request = q},
             Decide(policy, q, new)
      PROVE  (j \in DOMAIN replay /\ replay'[j] = replay[j]) \/ ApprovedNow(j)
  <2>. DEFINE accepted == Accepted(q, new)
              entry == [replay[k] EXCEPT !.approvals = accepted]
              yes == [decision |-> "Approved", reason |-> "ok", issued_at |-> now]
  <2>1. k \in DOMAIN replay /\ replay[k].request = q /\ replay[k].response = NoResponse
    BY <1>6 DEF Decide, Holds
  <2>2. accepted \subseteq Approvals
    BY <1>2, <2>1, NormalizeKeeps DEF Accepted, Entry
  <2>3. entry \in Entry /\ entry.state # "Approved"
    <3>1. replay[k] \in Entry /\ replay[k].state # "Approved"
      BY <2>1 DEF IInv, Typed, Formed, NoResponse
    <3>. HIDE DEF accepted
    <3>. QED  BY <2>2, <3>1 DEF Entry
  <2>4. CASE CommitAndPublish(vaults, With(k, Settle(replay[k], Denial("Expired"))))
    <3>. HIDE DEF k
    <3>. QED  BY <1>2, <1>4, <2>1, <2>4
  <2>5. CASE /\ NotExpired(q)
             /\ \A d \in replay[k].approvals : ValidateApprovalStatic(d, q)
             /\ \A d \in new : ValidateApprovalStatic(d, q) /\ ApprovalIsCurrent(d)
             /\ Cardinality(Approving(accepted)) >= q.threshold
             /\ CommitAndPublish(vaults, With(k, Settle(entry, yes)))
    <3>1. ASSUME replay'[k] = Settle(entry, yes) PROVE Approves(k, q, new)
      BY <2>1, <2>5, <3>1 DEF Approves, NotExpired
    <3>2. new \in SUBSET Approvals
      OBVIOUS
    <3>3. replay'[k] = Settle(entry, yes) => ApprovedNow(k)
      BY <3>1, <3>2, Zenon DEF ApprovedNow
    <3>. HIDE DEF k, entry, yes, accepted
    <3>. QED  BY <1>3, <2>5, <3>3
  <2>6. CASE \E reason : CommitAndPublish(vaults, With(k, Settle(entry, Denial(reason))))
    <3>. HIDE DEF k, entry
    <3>. QED  BY <1>4, <2>3, <2>6
  <2>7. CASE CommitAndPublish(vaults, With(k, entry))
    <3>. HIDE DEF k, entry
    <3>. QED  BY <1>3, <2>3, <2>7
  <2>. QED  BY <1>6, <2>4, <2>5, <2>6, <2>7 DEF Decide
<1>7. ASSUME NEW c \in Cancellations, c.request = q, Cancel(policy, c)
      PROVE  (j \in DOMAIN replay /\ replay'[j] = replay[j]) \/ ApprovedNow(j)
  <2>1. CASE k \in DOMAIN replay
    <3>1. CommitAndPublish(vaults, With(k, Settle(replay[k], Denial("Cancelled"))))
      BY <1>7, <2>1 DEF Cancel
    <3>. HIDE DEF k
    <3>. QED  BY <1>2, <1>4, <2>1, <3>1
  <2>2. CASE k \notin DOMAIN replay
    <3>. DEFINE e == NewEntry(q, "Cancelled", Denial("Cancelled"))
    <3>1. CommitAndPublish(vaults, With(k, e)) /\ e.state # "Approved"
      BY <1>7, <2>2 DEF Cancel, NewEntry
    <3>. HIDE DEF e, k
    <3>. QED  BY <1>3, <3>1
  <2>. QED  BY <2>1, <2>2
<1>. QED  BY <1>1, <1>5, <1>6, <1>7

\* An approved entry was approved before or is approved by this step.
LEMMA ApprovedSteps ==
  ASSUME IInv, [Next]_vars, NEW j \in DOMAIN replay', replay'[j].state = "Approved"
  PROVE  (j \in DOMAIN replay /\ replay'[j] = replay[j]) \/ ApprovedNow(j)
<1>1. CASE UNCHANGED replay
  BY <1>1
<1>2. ASSUME NEW c \in Checkpoints, RegisterVault(c)
      PROVE  UNCHANGED replay
  BY <1>2 DEF RegisterVault, CommitAndPublish
<1>3. ASSUME NEW c \in Checkpoints, AdvanceCheckpoint(c)
      PROVE  j \in DOMAIN replay /\ replay'[j] = replay[j]
  <2>1. replay' = DenyReserved(c.vault)
    BY <1>3 DEF AdvanceCheckpoint, CommitAndPublish
  <2>2. j \in DOMAIN replay
    BY <2>1 DEF DenyReserved
  <2>3. CASE j[1] = c.vault /\ replay[j].state = "Reserved"
    <3>1. replay'[j] = Settle(replay[j], Denial("StalePolicy")) /\ replay[j] \in Entry
      BY <2>1, <2>2, <2>3 DEF DenyReserved, IInv, Typed, Formed
    <3>. QED  BY <3>1, DenialState
  <2>4. CASE ~(j[1] = c.vault /\ replay[j].state = "Reserved")
    BY <2>1, <2>2, <2>4 DEF DenyReserved
  <2>. QED  BY <2>2, <2>3, <2>4
<1>4. CASE CompactReplay
  BY <1>4 DEF CompactReplay, CommitAndPublish
<1>5. CASE \E t \in Time : SetClock(t)
  BY <1>1, <1>5 DEF SetClock
<1>6. CASE UNCHANGED vars
  BY <1>1, <1>6 DEF vars
<1>. QED  BY <1>1, <1>2, <1>3, <1>4, <1>5, <1>6, ServeApproves DEF Next, Advance

\* What an approved entry shows.
Backed(e) ==
  /\ e.response.issued_at < e.request.expires_at
  /\ \E A \in SUBSET Eligible :
       /\ Cardinality(A) >= e.request.threshold
       /\ \A a \in A : \E d \in e.approvals :
            /\ {x \in e.approvals : x.approver = a} = {d}
            /\ d.decision = "Approve" /\ d.request = e.request
            /\ d.issued_at =< e.response.issued_at + Skew
            /\ e.response.issued_at < d.expires_at

\* What decide accepts for a request is valid for it and current.
LEMMA AcceptedValid ==
  ASSUME NEW k, NEW q, NEW new, Approves(k, q, new), NEW d \in Accepted(q, new)
  PROVE  d.request = q /\ ApprovalIsCurrent(d)
<1>1. \/ d \in replay[k].approvals /\ ApprovalIsCurrent(d)
      \/ d \in new
  BY NormalizeKeeps DEF Accepted, Approves
<1>. QED  BY <1>1 DEF Approves, ValidateApprovalStatic

\* The entry after the approval.
LEMMA ApprovedEntry ==
  ASSUME IInv, NEW k, NEW q \in Requests, NEW new \in SUBSET Approvals, Approves(k, q, new)
  PROVE  /\ replay'[k].approvals = Accepted(q, new)
         /\ replay'[k].request = q
         /\ replay'[k].response.issued_at = now
<1>. DEFINE accepted == Accepted(q, new)
            entry == [replay[k] EXCEPT !.approvals = accepted]
            yes == [decision |-> "Approved", reason |-> "ok", issued_at |-> now]
<1>1. replay[k] \in Entry /\ replay[k].request = q
  BY DEF Approves, IInv, Typed, Formed
<1>2. accepted \subseteq Approvals
  BY <1>1, NormalizeKeeps DEF Accepted, Approves, Entry
<1>3. replay'[k] = Settle(entry, yes)
  BY DEF Approves
<1>4. yes.issued_at = now
  OBVIOUS
<1>. HIDE DEF accepted, yes
<1>5. entry \in Entry /\ entry.approvals = accepted /\ entry.request = q
  BY <1>1, <1>2 DEF Entry
<1>. HIDE DEF entry
<1>6. /\ replay'[k].approvals = accepted /\ replay'[k].request = q
      /\ replay'[k].response = yes
  BY <1>3, <1>5, SettleState
<1>. QED  BY <1>4, <1>6 DEF accepted

\* The approval shows what justifies it.
LEMMA ApprovalBacked ==
  ASSUME IInv, NEW k, NEW q \in Requests, NEW new \in SUBSET Approvals, Approves(k, q, new)
  PROVE  Backed(replay'[k])
<1>. DEFINE accepted == Accepted(q, new)
<1>1. /\ replay'[k].approvals = accepted /\ replay'[k].request = q
      /\ replay'[k].response.issued_at = now
  BY ApprovedEntry
<1>2. now < q.expires_at /\ Cardinality(Approving(accepted)) >= q.threshold
  BY DEF Approves
<1>3. \A d \in accepted : d.request = q /\ d.issued_at =< now + Skew /\ now < d.expires_at
  BY AcceptedValid DEF ApprovalIsCurrent, Begun
<1>. HIDE DEF accepted
<1>4. Approving(accepted) \in SUBSET Eligible
  BY DEF Approving
<1>5. ASSUME NEW a \in Approving(accepted)
      PROVE  \E d \in accepted : /\ {x \in accepted : x.approver = a} = {d}
                                 /\ d.decision = "Approve" /\ d.request = q
                                 /\ d.issued_at =< now + Skew /\ now < d.expires_at
  BY <1>3 DEF Approving, DecisionsOf
<1>. QED  BY <1>1, <1>2, <1>4, <1>5 DEF Backed

(***************************************************************************)
(* Every approved entry shows, by itself, threshold approvers whose only   *)
(* recorded decision is an approval in force when the response was made    *)
(* (decide, normalize_approvals).                                          *)
(***************************************************************************)
THEOREM ApprovalsJustified == Spec => []ApprovedBacked
<1>. DEFINE AllBacked == \A k \in DOMAIN replay : replay[k].state = "Approved" => Backed(replay[k])
<1>1. Init => AllBacked
  BY DEF Init
<1>2. IInv /\ AllBacked /\ [Next]_vars => AllBacked'
  <2>. SUFFICES ASSUME IInv, AllBacked, [Next]_vars,
                       NEW k \in DOMAIN replay', replay'[k].state = "Approved"
                PROVE  Backed(replay'[k])
    OBVIOUS
  <2>1. CASE k \in DOMAIN replay /\ replay'[k] = replay[k]
    BY <2>1
  <2>2. CASE ApprovedNow(k)
    BY <2>2, ApprovalBacked DEF ApprovedNow
  <2>. QED  BY <2>1, <2>2, ApprovedSteps
<1>3. AllBacked => ApprovedBacked
  BY DEF Backed, ApprovedBacked
<1>. QED  BY <1>1, <1>2, <1>3, EngineInvariance, PTL DEF Spec

-----------------------------------------------------------------------------
(***************************************************************************)
(* A denial that is in force.  Of the decisions of one approver the two of *)
(* lowest rank are kept, so that an approver who denied and also approved  *)
(* is left with two decisions, or with the denial.                         *)
(***************************************************************************)
LEMMA LowestRank ==
  ASSUME NEW S \in SUBSET Approvals, S # {}
  PROVE  \E m \in S : \A e \in S : m.rank =< e.rank
<1>. DEFINE R == OpToRel(<, Nat)
            T == {d.rank : d \in S}
<1>1. T \subseteq Nat /\ T # {}
  BY ApprovalsAssumption
<1>2. \A x, y \in Nat : x < y => <<x, y>> \in R
  BY DEF OpToRel
<1>3. IsWellFoundedOn(R, Nat)
  BY NatLessThanWellFounded
<1>. HIDE DEF R, T
<1>4. PICK x \in T : \A y \in T : <<y, x>> \notin R
  BY <1>1, <1>3, WFMin
<1>5. PICK m \in S : x = m.rank
  BY DEF T
<1>6. ASSUME NEW e \in S PROVE m.rank =< e.rank
  <2>1. e.rank \in T /\ e.rank \in Nat /\ m.rank \in Nat
    BY ApprovalsAssumption DEF T
  <2>2. ~(e.rank < m.rank)
    BY <1>2, <1>4, <1>5, <2>1, Zenon
  <2>. QED  BY <2>1, <2>2
<1>. QED  BY <1>6

\* An approver with a denial among the decisions does not count as approving.
LEMMA DenierOut ==
  ASSUME NEW B \in SUBSET Approvals, NEW d \in B, d.decision = "Deny"
  PROVE  d.approver \notin Approving(NormalizeApprovals(B))
<1>. DEFINE a == d.approver
            N == NormalizeApprovals(B)
            Lower(x) == {e \in B : e.approver = x.approver /\ e.rank < x.rank}
<1>1. IsFiniteSet(B)
  BY ApprovalsAssumption, FS_Subset
<1>2. \A x \in B : IsFiniteSet(Lower(x)) /\ Cardinality(Lower(x)) \in Nat
  BY <1>1, FS_Subset, FS_CardinalityType
<1>3. N \subseteq B /\ \A x \in B : x \in N <=> Cardinality(Lower(x)) < 2
  BY DEF NormalizeApprovals
<1>. SUFFICES ASSUME a \in Approving(N) PROVE FALSE
  OBVIOUS
<1>4. PICK e \in N : DecisionsOf(a, N) = {e} /\ e.decision = "Approve"
  BY DEF Approving
<1>. HIDE DEF N
<1>5. e \in B /\ e # d /\ e.approver = a
  BY <1>3, <1>4 DEF DecisionsOf
<1>6. d \notin N
  BY <1>4, <1>5 DEF DecisionsOf
<1>7. Cardinality(Lower(d)) >= 2
  <2>1. ~(Cardinality(Lower(d)) < 2)
    BY <1>3, <1>6, Zenon
  <2>2. Cardinality(Lower(d)) \in Nat
    BY <1>2, Zenon
  <2>. HIDE DEF Lower
  <2>. QED  BY <2>1, <2>2
<1>8. Lower(d) \ {e} # {}
  <2>1. Lower(d) \subseteq {e} => Cardinality(Lower(d)) =< 1
    <3>1. IsFiniteSet({e}) /\ Cardinality({e}) = 1
      BY FS_Singleton
    <3>. HIDE DEF Lower
    <3>. QED  BY <3>1, FS_Subset
  <2>2. Cardinality(Lower(d)) \in Nat
    BY <1>2
  <2>. HIDE DEF Lower
  <2>. QED  BY <1>7, <2>1, <2>2
<1>9. PICK m \in Lower(d) \ {e} : \A x \in Lower(d) \ {e} : m.rank =< x.rank
  BY <1>8, LowestRank
<1>10. m \in B /\ m.approver = a /\ m # e /\ m.rank < d.rank
  OBVIOUS
<1>11. Lower(m) \subseteq {e}
  <2>1. ASSUME NEW x \in Lower(m) PROVE x = e
    <3>1. /\ x \in B /\ x.approver = a /\ x.rank < m.rank
          /\ x.rank \in Nat /\ m.rank \in Nat /\ d.rank \in Nat
      BY <1>10, ApprovalsAssumption
    <3>2. x.rank < d.rank
      BY <1>10, <3>1
    <3>3. x \in Lower(d)
      BY <3>1, <3>2
    <3>. QED  BY <1>9, <3>1, <3>3
  <2>. QED  BY <2>1
<1>12. Cardinality(Lower(m)) < 2
  <2>1. IsFiniteSet({e}) /\ Cardinality({e}) = 1
    BY FS_Singleton
  <2>2. Cardinality(Lower(m)) \in Nat
    BY <1>2, <1>10
  <2>. HIDE DEF Lower
  <2>. QED  BY <1>11, <2>1, <2>2, FS_Subset
<1>13. m \in N
  BY <1>3, <1>10, <1>12
<1>. QED  BY <1>4, <1>10, <1>13 DEF DecisionsOf

(***************************************************************************)
(* A recorded denial that is still in force keeps its approver out of the  *)
(* count, whatever else the approver signs, for every set of approvals and *)
(* approvers (normalize_approvals keeps two decisions of each).            *)
(***************************************************************************)
THEOREM DenialsKept == Spec => DenialKept
<1>. DEFINE Counted(k, d) == {a \in Eligible \ {d.approver} :
              \E e \in replay'[k].approvals : e.approver = a /\ e.decision = "Approve"}
            InForce(k, d) == /\ replay[k].state = "Reserved" /\ replay'[k].state = "Approved"
                             /\ d.decision = "Deny" /\ now < d.expires_at
                             /\ d.issued_at =< now + Skew /\ d.not_before =< now + Skew
            Step == \A k \in DOMAIN replay \intersect DOMAIN replay' :
              \A d \in replay[k].approvals :
                replay[k].state = "Reserved" /\ replay'[k].state = "Approved"
                /\ d.decision = "Deny" /\ now < d.expires_at
                /\ d.issued_at =< now + Skew /\ d.not_before =< now + Skew
                => Cardinality({a \in Eligible \ {d.approver} :
                     \E e \in replay'[k].approvals :
                       e.approver = a /\ e.decision = "Approve"})
                   >= replay'[k].request.threshold
<1>1. ASSUME IInv, [Next]_vars PROVE Step
  <2>. SUFFICES ASSUME NEW k \in DOMAIN replay \intersect DOMAIN replay',
                       NEW d \in replay[k].approvals, InForce(k, d)
                PROVE  Cardinality(Counted(k, d)) >= replay'[k].request.threshold
    OBVIOUS
  <2>1. ApprovedNow(k)
    BY <1>1, ApprovedSteps
  <2>2. PICK q \in Requests, new \in SUBSET Approvals : Approves(k, q, new)
    BY <2>1 DEF ApprovedNow
  <2>. DEFINE B == {x \in replay[k].approvals : ApprovalIsCurrent(x)} \cup new
              A == Approving(NormalizeApprovals(B))
  <2>3. replay[k] \in Entry
    BY <1>1 DEF IInv, Typed, Formed
  <2>4. B \in SUBSET Approvals /\ d \in B
    BY <2>3 DEF Entry, ApprovalIsCurrent, Begun
  <2>5. Accepted(q, new) = NormalizeApprovals(B)
    BY <2>2 DEF Accepted, Approves
  <2>6. /\ replay'[k].approvals = NormalizeApprovals(B) /\ replay'[k].request = q
        /\ Cardinality(A) >= q.threshold
    BY <1>1, <2>2, <2>5, ApprovedEntry DEF Approves
  <2>7. d.approver \notin A
    BY <2>4, DenierOut
  <2>8. A \subseteq Counted(k, d)
    <3>. HIDE DEF B
    <3>. QED  BY <2>6, <2>7 DEF Approving, DecisionsOf
  <2>9. IsFiniteSet(Counted(k, d)) /\ Cardinality(Counted(k, d)) \in Nat
    BY ApprovalsAssumption, FS_Subset, FS_CardinalityType
  <2>10. Cardinality(A) \in Nat /\ Cardinality(A) =< Cardinality(Counted(k, d))
    <3>. HIDE DEF A, Counted
    <3>. QED  BY <2>8, <2>9, FS_Subset, FS_CardinalityType
  <2>11. q.threshold \in Nat
    BY RequestsAssumption
  <2>. HIDE DEF A, B, Counted
  <2>. QED  BY <2>6, <2>9, <2>10, <2>11
<1>2. IInv /\ [Next]_vars => [Step]_vars
  BY <1>1
<1>3. Spec => [][Step]_vars
  BY <1>2, EngineInvariance, PTL DEF Spec
<1>. QED  BY <1>3, PTL DEF DenialKept
=============================================================================
