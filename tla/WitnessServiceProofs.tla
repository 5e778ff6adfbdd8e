------------------------ MODULE WitnessServiceProofs ------------------------
(***************************************************************************)
(* Proofs about the witness service and about what its answers are         *)
(* evidence of.  The service keeps its account for every finite set of     *)
(* calls, every concurrency limit, timeout and shutdown grace, and         *)
(* whatever the rate limiter decides.                                      *)
(***************************************************************************)
EXTENDS WitnessService, RequestEvidence, FiniteSetTheorems, TLAPS

Stages == {"new", "reading", "waiting", "done"}
Replies == {None, "ok", "expired", "unavailable", "internal"}
Refusals == {"unauthorized", "rate-limited", "invalid-request", "expired"}
Answers == Replies \cup Refusals
             \cup {"live", "ready", "not-ready", "timeout", "gone", "dropped"}

Typed == /\ stage \in [Calls -> Stages]
         /\ left \in [Calls -> 0 .. RequestTimeout]
         /\ reply \in [Calls -> Replies]
         /\ told \in [Calls -> Answers]
         /\ permits \in Nat /\ grace \in Nat
         /\ lease \in Calls \cup {None} /\ running \in Calls \cup {None}
         /\ queue \in Seq(Calls)
         /\ performed \subseteq Calls
         /\ status \in {"serving", "draining", "stopping", "stopped"}

\* Permits are out for open calls, and for no other.
Counted == permits + Cardinality(OpenCalls) = MaximumConcurrency

\* The lease is with the one probe that waits.
Leased == /\ lease # None => stage[lease] = "waiting"
          /\ \A c \in Calls : KindOf[c] = "ready" /\ stage[c] = "waiting" => lease = c

\* A call is with the worker once at most.
Ordered == /\ Len(queue) <= MaximumConcurrency
           /\ \A i, j \in 1 .. Len(queue) : queue[i] = queue[j] => i = j
           /\ \A i \in 1 .. Len(queue) : queue[i] # running

WithWorker(c) == c = running \/ \E i \in 1 .. Len(queue) : queue[i] = c

\* What a call's place says about its command.
Tracked(c) ==
  /\ stage[c] \in {"new", "reading"} =>
       /\ reply[c] = None /\ told[c] \notin Refusals
       /\ c \notin performed /\ ~WithWorker(c)
  /\ WithWorker(c) => reply[c] = None /\ c \notin performed /\ told[c] \notin Refusals
  /\ told[c] \in Refusals \/ reply[c] = "expired" => c \notin performed

\* While the listener or the grace lasts, an open call has no more time left
\* than the grace has, unless it came after the signal.
Graced ==
  /\ status = "serving" => RequestTimeout <= grace
  /\ \A c \in Calls \ late :
       /\ told[c] # "dropped"
       /\ status \in {"serving", "draining"} /\ Underway(c) => left[c] <= grace
  /\ status \in {"stopping", "stopped"} => \A c \in Calls : ~Underway(c)
  /\ status = "stopped" => running = None /\ queue = <<>>

ServiceInv == /\ Typed /\ Counted /\ Leased /\ Ordered /\ Graced
              /\ \A c \in Calls : Tracked(c)

-----------------------------------------------------------------------------
(***************************************************************************)
(* Every step is one of these: a call that the gate turns away or lets in, *)
(* a call that ends, a submission, a step of the worker, of the shutdown   *)
(* or of time.  An end never answers "dropped".                            *)
(***************************************************************************)
Ends(c, why) == /\ Underway(c) /\ End(c, why) /\ UNCHANGED worker
                /\ why \in Answers \ {"dropped"}
                /\ why \in Refusals =>
                     stage[c] = "reading" \/ (reply[c] = why /\ why = "expired")

Turned(c, why) == /\ Arrives(c) /\ Refuse(c, why) /\ why \in {"unauthorized", "rate-limited"}
                  /\ UNCHANGED <<left, reply, permits, lease, worker, status, grace, late>>

Sent(r) == /\ running # None /\ Send(running, r) /\ r \in Replies \ {None}
           /\ performed' \in {performed, performed \cup {running}}
           /\ r = "expired" => performed' = performed

(***************************************************************************)
(* The steps of Next fall into those cases.                                *)
(***************************************************************************)
LEMMA StepCases ==
  ASSUME Typed, ServiceNext
  PROVE  \/ \E c \in Calls : \/ \E why \in Answers : Turned(c, why) \/ Ends(c, why)
                             \/ Admit(c) \/ Submit(c)
         \/ Take \/ Panic \/ \E r \in Replies : Sent(r)
         \/ Signal \/ ServeReturns \/ Join \/ TimersTick
<1>1. ASSUME NEW c \in Calls, Unauthorized(c) \/ RateLimited(c)
      PROVE  \E why \in Answers : Turned(c, why)
  <2>1. CASE Unauthorized(c)
    BY <2>1 DEF Unauthorized, Turned, Answers, Refusals, gate
  <2>2. CASE RateLimited(c)
    BY <2>2 DEF RateLimited, Turned, Answers, Refusals
  <2> QED BY <1>1, <2>1, <2>2
<1>2. ASSUME NEW c \in Calls, AnswerAtOnce(c)
      PROVE  \E why \in Answers : Ends(c, why)
  <2>1. Underway(c) /\ UNCHANGED worker /\ stage[c] = "reading" BY <1>2 DEF AnswerAtOnce, Underway
  <2>2. \E why \in {"invalid-request", "live", "ready", "not-ready"} : End(c, why)
    BY <1>2 DEF AnswerAtOnce
  <2> QED BY <2>1, <2>2 DEF Ends, Answers, Refusals
<1>3. ASSUME NEW c \in Calls, SubmitRefused(c)
      PROVE  \E why \in Answers : Ends(c, why)
  <2>1. Underway(c) /\ UNCHANGED worker /\ stage[c] = "reading" BY <1>3 DEF SubmitRefused, Underway
  <2>2. Refused(c) \in Replies BY DEF Refused, Replies
  <2>3. End(c, Refused(c)) BY <1>3 DEF SubmitRefused
  <2> QED BY <2>1, <2>2, <2>3 DEF Ends, Answers, Replies, None
<1>4. ASSUME NEW c \in Calls, Respond(c)
      PROVE  \E why \in Answers : Ends(c, why)
  <2>1. Underway(c) /\ UNCHANGED worker BY <1>4 DEF Respond, Underway
  <2>2. reply[c] \in Replies /\ End(c, reply[c]) BY <1>4 DEF Respond, Typed
  <2>3. reply[c] \in Answers \ {"dropped"} /\ (reply[c] \in Refusals => reply[c] = "expired")
    BY <2>2 DEF Answers, Replies, Refusals, None
  <2> QED BY <2>1, <2>2, <2>3 DEF Ends
<1>5. ASSUME NEW c \in Calls, Timeout(c) \/ Disconnect(c)
      PROVE  \E why \in Answers : Ends(c, why)
  <2>1. Underway(c) /\ UNCHANGED worker /\ \E why \in {"timeout", "gone"} : End(c, why)
    BY <1>5 DEF Timeout, Disconnect
  <2> QED BY <2>1 DEF Ends, Answers, Refusals
<1>6. ASSUME Expire \/ CommandFails \/ Perform
      PROVE  \E r \in Replies : Sent(r)
  <2>1. CASE Expire BY <2>1 DEF Expire, Sent, Replies, None
  <2>2. CASE CommandFails BY <2>2 DEF CommandFails, Effected, Sent, Replies, None
  <2>3. CASE Perform BY <2>3 DEF Perform, Effected, Sent, Replies, None
  <2> QED BY <1>6, <2>1, <2>2, <2>3
<1> QED BY <1>1, <1>2, <1>3, <1>4, <1>5, <1>6 DEF ServiceNext, Handler, Work

-----------------------------------------------------------------------------
(***************************************************************************)
(* Every step keeps the types, and permits never run below zero.           *)
(***************************************************************************)
LEMMA TypedStep ==
  ASSUME ServiceInv, ServiceNext
  PROVE  Typed'
<1>1. ASSUME NEW c \in Calls, NEW why \in Answers, Turned(c, why) PROVE Typed'
  BY <1>1, ServiceConstants DEF ServiceInv, Typed, Stages, Replies, Answers, Turned,
       Refuse, Arrives, worker
<1>2. ASSUME NEW c \in Calls, NEW why \in Answers, Ends(c, why) PROVE Typed'
  BY <1>2, ServiceConstants DEF ServiceInv, Typed, Stages, Replies, Answers, Ends,
       End, Refuse, ReleaseLease, Underway, worker
<1>3. ASSUME NEW c \in Calls, Admit(c) PROVE Typed'
  BY <1>3, ServiceConstants DEF ServiceInv, Typed, Stages, Replies, Answers, Admit,
       Arrives, worker
<1>4. ASSUME NEW c \in Calls, Submit(c) PROVE Typed'
  BY <1>4, ServiceConstants DEF ServiceInv, Typed, Stages, Replies, Answers, Submit,
       gate, Refused, MayProbe
<1>5. ASSUME Take PROVE Typed'
  BY <1>5, ServiceConstants DEF ServiceInv, Typed, Stages, Replies, Answers, Take,
       gate
<1>6. ASSUME Panic PROVE Typed'
  BY <1>6, ServiceConstants DEF ServiceInv, Typed, Stages, Replies, Answers, Panic, Effected,
       Dropped, Queued, gate
<1>7. ASSUME NEW r \in Replies, Sent(r) PROVE Typed'
  BY <1>7, ServiceConstants DEF ServiceInv, Typed, Stages, Replies, Answers, Sent,
       Send, gate
<1>8. ASSUME Signal PROVE Typed'
  BY <1>8, ServiceConstants DEF ServiceInv, Typed, Stages, Replies, Answers, Signal,
       gate, worker
<1>9. ASSUME ServeReturns PROVE Typed'
  BY <1>9, ServiceConstants DEF ServiceInv, Typed, Stages, Replies, Answers,
       ServeReturns, OpenCalls, Underway, worker
<1>10. ASSUME Join PROVE Typed'
  BY <1>10, ServiceConstants DEF ServiceInv, Typed, Stages, Replies, Answers, Join,
       gate
<1>11. ASSUME TimersTick PROVE Typed'
  BY <1>11, ServiceConstants DEF ServiceInv, Typed, Stages, Replies, Answers, TimersTick,
       Due, OpenCalls, Underway, Minus, worker
<1> QED BY StepCases, <1>1, <1>2, <1>3, <1>4, <1>5, <1>6, <1>7, <1>8, <1>9, <1>10, <1>11
       DEF ServiceInv

(***************************************************************************)
(* Whichever way a probe ends, the lease ends with it, and no second probe *)
(* waits (ReadinessLease).                                                 *)
(***************************************************************************)
LEMMA LeasedStep ==
  ASSUME ServiceInv, ServiceNext
  PROVE  Leased'
<1>1. ASSUME NEW c \in Calls, NEW why \in Answers, Turned(c, why) PROVE Leased'
  BY <1>1, ServiceConstants DEF ServiceInv, Typed, Leased, Stages, None, Turned,
       Refuse, Arrives, worker
<1>2. ASSUME NEW c \in Calls, NEW why \in Answers, Ends(c, why) PROVE Leased'
  BY <1>2, ServiceConstants DEF ServiceInv, Typed, Leased, Stages, None, Ends, End,
       Refuse, ReleaseLease, Underway, worker
<1>3. ASSUME NEW c \in Calls, Admit(c) PROVE Leased'
  BY <1>3, ServiceConstants DEF ServiceInv, Typed, Leased, Stages, None, Admit,
       Arrives, worker
<1>4. ASSUME NEW c \in Calls, Submit(c) PROVE Leased'
  BY <1>4, ServiceConstants DEF ServiceInv, Typed, Leased, Stages, None, Submit,
       gate, Refused, MayProbe
<1>5. ASSUME Take PROVE Leased'
  BY <1>5, ServiceConstants DEF ServiceInv, Typed, Leased, Stages, None, Take, gate
<1>6. ASSUME Panic PROVE Leased'
  BY <1>6, ServiceConstants DEF ServiceInv, Typed, Leased, Stages, None, Panic, Effected,
       Dropped, Queued, gate
<1>7. ASSUME NEW r \in Replies, Sent(r) PROVE Leased'
  BY <1>7, ServiceConstants DEF ServiceInv, Typed, Leased, Stages, None, Sent, Send,
       gate
<1>8. ASSUME Signal PROVE Leased'
  BY <1>8, ServiceConstants DEF ServiceInv, Typed, Leased, Stages, None, Signal,
       gate, worker
<1>9. ASSUME ServeReturns PROVE Leased'
  BY <1>9, ServiceConstants DEF ServiceInv, Typed, Leased, Stages, None,
       ServeReturns, OpenCalls, Underway, worker
<1>10. ASSUME Join PROVE Leased'
  BY <1>10, ServiceConstants DEF ServiceInv, Typed, Leased, Stages, None, Join, gate
<1>11. ASSUME TimersTick PROVE Leased'
  BY <1>11, ServiceConstants DEF ServiceInv, Typed, Leased, Stages, None, TimersTick, Due,
       OpenCalls, Underway, Minus, worker
<1> QED BY StepCases, <1>1, <1>2, <1>3, <1>4, <1>5, <1>6, <1>7, <1>8, <1>9, <1>10, <1>11
       DEF ServiceInv

(***************************************************************************)
(* The queue never exceeds its limit, and the worker never meets a call    *)
(* twice (try_send, StateWorker).                                          *)
(***************************************************************************)
LEMMA OrderedStep ==
  ASSUME ServiceInv, ServiceNext
  PROVE  Ordered'
<1>1. ASSUME NEW c \in Calls, NEW why \in Answers, Turned(c, why) PROVE Ordered'
  BY <1>1, ServiceConstants DEF ServiceInv, Typed, Ordered, Tracked, WithWorker,
       None, Turned, Refuse, Arrives, worker
<1>2. ASSUME NEW c \in Calls, NEW why \in Answers, Ends(c, why) PROVE Ordered'
  BY <1>2, ServiceConstants DEF ServiceInv, Typed, Ordered, Tracked, WithWorker,
       None, Ends, End, Refuse, ReleaseLease, Underway, worker
<1>3. ASSUME NEW c \in Calls, Admit(c) PROVE Ordered'
  BY <1>3, ServiceConstants DEF ServiceInv, Typed, Ordered, Tracked, WithWorker,
       None, Admit, Arrives, worker
<1>4. ASSUME NEW c \in Calls, Submit(c) PROVE Ordered'
  BY <1>4, ServiceConstants DEF ServiceInv, Typed, Ordered, Tracked, WithWorker,
       None, Submit, gate, Refused, MayProbe
<1>5. ASSUME Take PROVE Ordered'
  BY <1>5, ServiceConstants DEF ServiceInv, Typed, Ordered, Tracked, WithWorker,
       None, Take, gate
<1>6. ASSUME Panic PROVE Ordered'
  BY <1>6, ServiceConstants DEF ServiceInv, Typed, Ordered, Tracked, WithWorker,
       None, Panic, Effected, Dropped, Queued, gate
<1>7. ASSUME NEW r \in Replies, Sent(r) PROVE Ordered'
  BY <1>7, ServiceConstants DEF ServiceInv, Typed, Ordered, Tracked, WithWorker,
       None, Sent, Send, gate
<1>8. ASSUME Signal PROVE Ordered'
  BY <1>8, ServiceConstants DEF ServiceInv, Typed, Ordered, Tracked, WithWorker,
       None, Signal, gate, worker
<1>9. ASSUME ServeReturns PROVE Ordered'
  BY <1>9, ServiceConstants DEF ServiceInv, Typed, Ordered, Tracked, WithWorker,
       None, ServeReturns, OpenCalls, Underway, worker
<1>10. ASSUME Join PROVE Ordered'
  BY <1>10, ServiceConstants DEF ServiceInv, Typed, Ordered, Tracked, WithWorker,
       None, Join, gate
<1>11. ASSUME TimersTick PROVE Ordered'
  BY <1>11, ServiceConstants DEF ServiceInv, Typed, Ordered, Tracked, WithWorker,
       None, TimersTick, Due, OpenCalls, Underway, Minus, worker
<1> QED BY StepCases, <1>1, <1>2, <1>3, <1>4, <1>5, <1>6, <1>7, <1>8, <1>9, <1>10, <1>11
       DEF ServiceInv

(***************************************************************************)
(* What a call's place says about its command stays true of every call.    *)
(***************************************************************************)
LEMMA TrackedStep ==
  ASSUME ServiceInv, ServiceNext
  PROVE  \A d \in Calls : Tracked(d)'
<1>1. ASSUME NEW c \in Calls, NEW why \in Answers, Turned(c, why) PROVE \A d \in Calls : Tracked(d)'
  BY <1>1, ServiceConstants DEF ServiceInv, Typed, Ordered, Tracked, WithWorker,
       Stages, Replies, Answers, Refusals, None, Turned, Refuse, Arrives, worker
<1>2. ASSUME NEW c \in Calls, NEW why \in Answers, Ends(c, why) PROVE \A d \in Calls : Tracked(d)'
  BY <1>2, ServiceConstants DEF ServiceInv, Typed, Ordered, Tracked, WithWorker,
       Stages, Replies, Answers, Refusals, None, Ends, End, Refuse, ReleaseLease,
       Underway, worker
<1>3. ASSUME NEW c \in Calls, Admit(c) PROVE \A d \in Calls : Tracked(d)'
  BY <1>3, ServiceConstants DEF ServiceInv, Typed, Ordered, Tracked, WithWorker,
       Stages, Replies, Answers, Refusals, None, Admit, Arrives, worker
<1>4. ASSUME NEW c \in Calls, Submit(c) PROVE \A d \in Calls : Tracked(d)'
  <2>1. /\ stage[c] = "reading" /\ stage' = [stage EXCEPT ![c] = "waiting"]
        /\ queue' = Append(queue, c) /\ queue \in Seq(Calls)
        /\ UNCHANGED <<reply, told, running, performed>>
    BY <1>4 DEF ServiceInv, Typed, Submit, gate
  <2>2. \A d \in Calls : WithWorker(d)' => WithWorker(d) \/ d = c
    BY <2>1 DEF WithWorker
  <2> QED
    BY <2>1, <2>2 DEF ServiceInv, Typed, Tracked, Stages
<1>5. ASSUME Take PROVE \A d \in Calls : Tracked(d)'
  BY <1>5, ServiceConstants DEF ServiceInv, Typed, Ordered, Tracked, WithWorker,
       Stages, Replies, Answers, Refusals, None, Take, gate
<1>6. ASSUME Panic PROVE \A d \in Calls : Tracked(d)'
  BY <1>6, ServiceConstants DEF ServiceInv, Typed, Ordered, Tracked, WithWorker,
       Stages, Replies, Answers, Refusals, None, Panic, Effected, Dropped, Queued, gate
<1>7. ASSUME NEW r \in Replies, Sent(r) PROVE \A d \in Calls : Tracked(d)'
  BY <1>7, ServiceConstants DEF ServiceInv, Typed, Ordered, Tracked, WithWorker,
       Stages, Replies, Answers, Refusals, None, Sent, Send, gate
<1>8. ASSUME Signal PROVE \A d \in Calls : Tracked(d)'
  BY <1>8, ServiceConstants DEF ServiceInv, Typed, Ordered, Tracked, WithWorker,
       Stages, Replies, Answers, Refusals, None, Signal, gate, worker
<1>9. ASSUME ServeReturns PROVE \A d \in Calls : Tracked(d)'
  BY <1>9, ServiceConstants DEF ServiceInv, Typed, Ordered, Tracked, WithWorker,
       Stages, Replies, Answers, Refusals, None, ServeReturns, OpenCalls, Underway,
       worker
<1>10. ASSUME Join PROVE \A d \in Calls : Tracked(d)'
  BY <1>10, ServiceConstants DEF ServiceInv, Typed, Ordered, Tracked, WithWorker,
       Stages, Replies, Answers, Refusals, None, Join, gate
<1>11. ASSUME TimersTick PROVE \A d \in Calls : Tracked(d)'
  BY <1>11, ServiceConstants DEF ServiceInv, Typed, Ordered, Tracked, WithWorker,
       Stages, Replies, Answers, Refusals, None, TimersTick, Due, OpenCalls, Underway, Minus,
       worker
<1> QED BY StepCases, <1>1, <1>2, <1>3, <1>4, <1>5, <1>6, <1>7, <1>8, <1>9, <1>10, <1>11
       DEF ServiceInv

(***************************************************************************)
(* The deadline of a call accepted before the signal runs out before the   *)
(* grace does (with_graceful_shutdown, TimeoutLayer).                      *)
(***************************************************************************)
LEMMA GracedStep ==
  ASSUME ServiceInv, ServiceNext
  PROVE  Graced'
<1>1. ASSUME NEW c \in Calls, NEW why \in Answers, Turned(c, why) PROVE Graced'
  BY <1>1, ServiceConstants DEF ServiceInv, Typed, Graced, Stages, Replies, Answers,
       Refusals, Underway, None, Turned, Refuse, Arrives, worker
<1>2. ASSUME NEW c \in Calls, NEW why \in Answers, Ends(c, why) PROVE Graced'
  BY <1>2, ServiceConstants DEF ServiceInv, Typed, Graced, Stages, Replies, Answers,
       Refusals, Underway, None, Ends, End, Refuse, ReleaseLease, Underway, worker
<1>3. ASSUME NEW c \in Calls, Admit(c) PROVE Graced'
  BY <1>3, ServiceConstants DEF ServiceInv, Typed, Graced, Stages, Replies, Answers,
       Refusals, Underway, None, Admit, Arrives, worker
<1>4. ASSUME NEW c \in Calls, Submit(c) PROVE Graced'
  BY <1>4, ServiceConstants DEF ServiceInv, Typed, Graced, Stages, Replies, Answers,
       Refusals, Underway, None, Submit, gate, Refused, MayProbe
<1>5. ASSUME Take PROVE Graced'
  BY <1>5, ServiceConstants DEF ServiceInv, Typed, Graced, Stages, Replies, Answers,
       Refusals, Underway, None, Take, gate
<1>6. ASSUME Panic PROVE Graced'
  BY <1>6, ServiceConstants DEF ServiceInv, Typed, Graced, Stages, Replies, Answers,
       Refusals, Underway, None, Panic, Effected, Dropped, Queued, gate
<1>7. ASSUME NEW r \in Replies, Sent(r) PROVE Graced'
  BY <1>7, ServiceConstants DEF ServiceInv, Typed, Graced, Stages, Replies, Answers,
       Refusals, Underway, None, Sent, Send, gate
<1>8. ASSUME Signal PROVE Graced'
  BY <1>8, ServiceConstants DEF ServiceInv, Typed, Graced, Stages, Replies, Answers,
       Refusals, Underway, None, Signal, gate, worker
<1>9. ASSUME ServeReturns PROVE Graced'
  BY <1>9, ServiceConstants DEF ServiceInv, Typed, Graced, Stages, Replies, Answers,
       Refusals, Underway, None, ServeReturns, OpenCalls, Underway, worker
<1>10. ASSUME Join PROVE Graced'
  BY <1>10, ServiceConstants DEF ServiceInv, Typed, Graced, Stages, Replies,
       Answers, Refusals, Underway, None, Join, gate
<1>11. ASSUME TimersTick PROVE Graced'
  BY <1>11, ServiceConstants DEF ServiceInv, Typed, Graced, Stages, Replies,
       Answers, Refusals, Underway, None, TimersTick, Due, OpenCalls, Underway, Minus, worker
<1> QED BY StepCases, <1>1, <1>2, <1>3, <1>4, <1>5, <1>6, <1>7, <1>8, <1>9, <1>10, <1>11
       DEF ServiceInv

(***************************************************************************)
(* A permit comes back whichever way its call ends (the drop of the        *)
(* permit).                                                                *)
(***************************************************************************)
LEMMA CountedStep ==
  ASSUME ServiceInv, ServiceNext
  PROVE  Counted'
<1>1. ASSUME NEW c \in Calls, NEW why \in Answers, Turned(c, why) PROVE Counted'
  <2>1. OpenCalls' = OpenCalls /\ permits' = permits
    BY <1>1 DEF ServiceInv, Typed, Stages, Underway, OpenCalls, Turned, Refuse, Arrives, worker
  <2> QED BY <2>1 DEF ServiceInv, Counted
<1>2. ASSUME NEW c \in Calls, NEW why \in Answers, Ends(c, why) PROVE Counted'
  <2>1. c \in OpenCalls /\ OpenCalls' = OpenCalls \ {c} /\ permits' = permits + 1
    BY <1>2 DEF ServiceInv, Typed, Stages, OpenCalls,
             Ends, End, Refuse, ReleaseLease, Underway, worker
  <2>2. IsFiniteSet(OpenCalls) /\ Cardinality(OpenCalls) \in Nat
    BY FS_Subset, FS_CardinalityType, ServiceConstants DEF OpenCalls
  <2>3. Cardinality(OpenCalls') = Cardinality(OpenCalls) - 1
    BY <2>1, <2>2, FS_RemoveElement, Zenon
  <2> QED BY <2>1, <2>2, <2>3, ServiceConstants DEF ServiceInv, Typed, Counted
<1>3. ASSUME NEW c \in Calls, Admit(c) PROVE Counted'
  <2>1. c \notin OpenCalls /\ OpenCalls' = OpenCalls \cup {c} /\ permits' = permits - 1
    BY <1>3 DEF ServiceInv, Typed, Stages, OpenCalls,
             Admit, Arrives, worker, Underway
  <2>2. IsFiniteSet(OpenCalls) /\ Cardinality(OpenCalls) \in Nat
    BY FS_Subset, FS_CardinalityType, ServiceConstants DEF OpenCalls
  <2>3. Cardinality(OpenCalls') = Cardinality(OpenCalls) + 1
    BY <2>1, <2>2, FS_AddElement, Zenon
  <2> QED BY <2>1, <2>2, <2>3, ServiceConstants DEF ServiceInv, Typed, Counted
<1>4. ASSUME NEW c \in Calls, Submit(c) PROVE Counted'
  <2>1. OpenCalls' = OpenCalls /\ permits' = permits
    BY <1>4 DEF ServiceInv, Typed, Stages, Underway, OpenCalls, Submit, gate, Refused, MayProbe
  <2> QED BY <2>1 DEF ServiceInv, Counted
<1>5. ASSUME Take PROVE Counted'
  <2>1. OpenCalls' = OpenCalls /\ permits' = permits
    BY <1>5 DEF ServiceInv, Typed, Stages, Underway, OpenCalls, Take, gate
  <2> QED BY <2>1 DEF ServiceInv, Counted
<1>6. ASSUME Panic PROVE Counted'
  <2>1. OpenCalls' = OpenCalls /\ permits' = permits
    BY <1>6 DEF ServiceInv, Typed, Stages, Underway, OpenCalls, Panic, Effected, Dropped, Queued, gate
  <2> QED BY <2>1 DEF ServiceInv, Counted
<1>7. ASSUME NEW r \in Replies, Sent(r) PROVE Counted'
  <2>1. OpenCalls' = OpenCalls /\ permits' = permits
    BY <1>7 DEF ServiceInv, Typed, Stages, Underway, OpenCalls, Sent, Send, gate
  <2> QED BY <2>1 DEF ServiceInv, Counted
<1>8. ASSUME Signal PROVE Counted'
  <2>1. OpenCalls' = OpenCalls /\ permits' = permits
    BY <1>8 DEF ServiceInv, Typed, Stages, Underway, OpenCalls, Signal, gate, worker
  <2> QED BY <2>1 DEF ServiceInv, Counted
<1>9. ASSUME ServeReturns PROVE Counted'
  <2>1. OpenCalls' = {} /\ permits' = MaximumConcurrency
    BY <1>9 DEF ServiceInv, Typed, Stages, ServeReturns, OpenCalls, Underway
  <2> QED BY <2>1, FS_EmptySet, ServiceConstants DEF Counted
<1>10. ASSUME Join PROVE Counted'
  <2>1. OpenCalls' = OpenCalls /\ permits' = permits
    BY <1>10 DEF ServiceInv, Typed, Stages, Underway, OpenCalls, Join, gate
  <2> QED BY <2>1 DEF ServiceInv, Counted
<1>11. ASSUME TimersTick PROVE Counted'
  <2>1. OpenCalls' = OpenCalls /\ permits' = permits
    BY <1>11 DEF ServiceInv, Typed, Stages, Underway, TimersTick, Due, OpenCalls, Minus, worker
  <2> QED BY <2>1 DEF ServiceInv, Counted
<1> QED BY StepCases, <1>1, <1>2, <1>3, <1>4, <1>5, <1>6, <1>7, <1>8, <1>9, <1>10, <1>11
       DEF ServiceInv

(***************************************************************************)
(* The invariant gives the account.  A full queue beside a call that is    *)
(* still reading holds a call that has left: were all of it waiting, one   *)
(* call more than there are permits would be open.                         *)
(***************************************************************************)
LEMMA FullQueue ==
  ASSUME ServiceInv,
         Len(queue) = MaximumConcurrency, NEW c \in Calls, stage[c] = "reading"
  PROVE  \E d \in Queued : Deserted(d)
<1>1. SUFFICES ASSUME \A i \in 1 .. Len(queue) : stage[queue[i]] = "waiting" PROVE FALSE
  BY SMTT(30) DEF ServiceInv, Typed, Queued, Deserted
<1> DEFINE others == OpenCalls \ {c}
<1>2. /\ IsFiniteSet(OpenCalls) /\ Cardinality(OpenCalls) \in Nat
      /\ IsFiniteSet(others) /\ Cardinality(others) = Cardinality(OpenCalls) - 1
  <2>1. IsFiniteSet(OpenCalls) BY FS_Subset, ServiceConstants DEF OpenCalls
  <2>2. c \in OpenCalls BY DEF OpenCalls, Underway
  <2> QED BY <2>1, <2>2, FS_RemoveElement, FS_CardinalityType
<1>3. queue \in Injection(1 .. Len(queue), others)
  <2>1. queue \in [1 .. Len(queue) -> others]
    BY <1>1 DEF ServiceInv, Typed, OpenCalls, Underway
  <2> QED BY <2>1 DEF ServiceInv, Ordered, Injection, IsInjective
<1>4. Cardinality(1 .. Len(queue)) = Len(queue)
  BY FS_Interval DEF ServiceInv, Typed
<1>5. Len(queue) <= Cardinality(others)
  BY <1>2, <1>3, <1>4, FS_Injection
<1> QED BY <1>2, <1>5, ServiceConstants DEF ServiceInv, Typed, Counted

\* The invariant implies what the service promises.
LEMMA InvGivesAccounts ==
  ASSUME ServiceInv
  PROVE  ServiceAccounts
<1>1. RefusedNeverRuns
  <2>1. \A c \in Calls : c \in Queued => WithWorker(c)
    BY DEF ServiceInv, Typed, Queued, WithWorker
  <2> QED BY <2>1 DEF ServiceInv, Tracked, WithWorker, RefusedNeverRuns, Refusals
<1>2. Cardinality({c \in Calls : KindOf[c] = "ready" /\ stage[c] = "waiting"}) <= 1
  <2> DEFINE probes == {c \in Calls : KindOf[c] = "ready" /\ stage[c] = "waiting"}
  <2>1. probes \subseteq {lease} BY DEF ServiceInv, Leased
  <2>2. IsFiniteSet({lease}) /\ Cardinality({lease}) = 1 BY FS_Singleton, Zenon
  <2>3. Cardinality(probes) <= Cardinality({lease}) BY <2>1, <2>2, FS_Subset
  <2> QED BY <2>2, <2>3
<1>3. NothingLeaks
  BY <1>2, FullQueue DEF ServiceInv, Counted, Leased, Ordered, NothingLeaks
<1>4. GraceCoversWork
  BY DEF ServiceInv, Graced, GraceCoversWork, OpenCalls
<1> QED BY <1>1, <1>3, <1>4 DEF ServiceAccounts

\* A service starts with no open call and with all its permits.
LEMMA InitInv ==
  ASSUME ServiceInit
  PROVE  ServiceInv
<1> PICK S \in CallScenes, t \in ShutdownGraces : Start(S, t) BY DEF ServiceInit
<1>1. Typed
  BY ServiceConstants DEF Start, Typed, Stages, Replies, Answers
<1>2. \A c \in Calls : ~Underway(c)
  BY DEF Start, Underway
<1>3. Counted
  <2>1. OpenCalls = {} BY <1>2 DEF OpenCalls
  <2> QED BY <2>1, FS_EmptySet, ServiceConstants DEF Start, Counted
<1>4. Leased /\ Ordered
  BY ServiceConstants DEF Start, Leased, Ordered
<1>5. Graced
  BY <1>2 DEF Start, Graced, ValidateLimits, None
<1>6. \A c \in Calls : Tracked(c)
  BY ServiceConstants DEF Start, Tracked, WithWorker, Refusals, None
<1> QED BY <1>1, <1>3, <1>4, <1>5, <1>6 DEF ServiceInv

\* A step that changes no variable of the service keeps the invariant.
LEMMA StutterInv ==
  ASSUME ServiceInv, UNCHANGED serviceVars
  PROVE  ServiceInv'
BY DEF ServiceInv, Typed, Counted, Leased, Ordered, Graced, Tracked, WithWorker,
       OpenCalls, Underway, serviceVars, gate, worker

(***************************************************************************)
(* However calls come in, time out, are abandoned, or find the worker slow *)
(* or dead, the service keeps its account: a refused command never takes   *)
(* effect, permits and the lease come back, a full queue is due to callers *)
(* that left, and the shutdown grace covers every call accepted before it  *)
(* (admit, submit, StateWorker and serve of juryd).                        *)
(***************************************************************************)
THEOREM ServiceAccountsAlways == ServiceSpec => []ServiceAccounts
<1>1. ServiceInit => ServiceInv BY InitInv
<1>2. ServiceInv /\ [ServiceNext]_serviceVars => ServiceInv'
  <2>1. ASSUME ServiceInv, ServiceNext PROVE ServiceInv'
    BY <2>1, TypedStep, CountedStep, LeasedStep, OrderedStep, GracedStep, TrackedStep
       DEF ServiceInv
  <2> QED BY <2>1, StutterInv
<1>3. ServiceInv => ServiceAccounts BY SMTT(30), InvGivesAccounts
<1> QED BY <1>1, <1>2, <1>3, PTL DEF ServiceSpec

-----------------------------------------------------------------------------
(***************************************************************************)
(* Requests, approvals and receipts, for every vault, every number of      *)
(* approvers and witnesses and every way their documents are put together. *)
(***************************************************************************)
IsList(s) == s \in Seq({s[i] : i \in DOMAIN s})

RuleOK(rule) ==
    /\ rule.approvals \in Nat /\ rule.quorum \in Nat
    /\ rule.eligible \subseteq Approvers /\ rule.witnesses \subseteq Witnesses

PolicyOK(pol) ==
    /\ DOMAIN pol = {"owners", "wp", "revision"}
    /\ DOMAIN pol.wp = Items
    /\ \A i \in Items : /\ "rule" \in DOMAIN pol.wp[i]
                        /\ RuleOK(pol.wp[i].rule)

\* What is on an approver's screen is a target of the request or a place it
\* commits to, and nothing of the request is missing.
ScreenOK(m, presentation) ==
    /\ \A e \in presentation :
         \/ e.commitment = {} /\ e.subject \in TargetSubjects(m)
         \/ \E c \in m.directory \union m.sink :
              e.commitment = {c} /\ e.subject = <<"path", c[1]>> /\ e.display = c[3]
    /\ \A s \in TargetSubjects(m) : \E e \in presentation : e.subject = s
    /\ \A c \in m.directory \union m.sink : \E e \in presentation : e.subject = <<"path", c[1]>>

ArtifactOK(a) ==
    /\ a.request.seq \in DOMAIN journal /\ a.request.item \in Items
    /\ HumanRule(journal[a.request.seq].wp[a.request.item].rule) => ScreenOK(a.manifest, a.presentation)

\* ShownIsSigned, for one signature.
ShownOK(s) ==
    LET r == RequestOf(s.request)
        m == artifacts[s.request].manifest
        places == m.directory \union m.sink
        labels == journal[r.seq].wp[r.item].labels
    IN /\ {d[1] : d \in s.screen} = TargetSubjects(m) \union {ItemSubject(r.item)}
                                      \union {<<"path", c[1]>> : c \in places}
       /\ \A d \in s.screen :
            \/ \E l \in labels : l.subject = d[1] /\ l.text = d[2]
            \/ \E c \in places : d[1] = <<"path", c[1]>> /\ d[2] = c[3]
       /\ s.by \in RuleOf(s.request).eligible

Approving(documents, n, who) == By({d \in documents : d.request = n}, "approve") \cap who

\* ReceiptSound, for one receipt.
SoundOK(rc) ==
    rc.outcome = "Approved" =>
      /\ Cardinality(Approving(signed, rc.request, RuleOf(rc.request).eligible)) >= RuleOf(rc.request).approvals
      /\ Cardinality(Approving(judged, rc.request, RuleOf(rc.request).witnesses)) >= RuleOf(rc.request).quorum

JournalOK == IsList(journal) /\ Len(journal) > 0 /\ \A k \in DOMAIN journal : PolicyOK(journal[k])
ArtifactsOK == IsList(artifacts) /\ \A n \in DOMAIN artifacts : ArtifactOK(artifacts[n])
ReadingOK ==
    /\ DOMAIN desk = Approvers /\ \A ap \in Approvers : desk[ap] # 0 => desk[ap] \in DOMAIN artifacts
    /\ DOMAIN reading = Approvers
    /\ \A ap \in Approvers : \A held \in reading[ap] :
         held.file \in DOMAIN artifacts /\ held.screen = Screen(artifacts[held.file])
SignedOK == \A s \in signed : s.request \in DOMAIN artifacts /\ ShownOK(s)
VerifiedOK == \A rc \in verified : rc.request \in DOMAIN artifacts /\ SoundOK(rc)

\* The inductive invariant.
EvidenceInvariant ==
    /\ scene \in Scenes
    /\ JournalOK /\ ArtifactsOK /\ ReadingOK /\ SignedOK /\ VerifiedOK

\* Nothing that was signed is ever taken back or changed.
DocumentsStay ==
    /\ scene' = scene
    /\ \A k \in DOMAIN journal : k \in DOMAIN journal' /\ journal'[k] = journal[k]
    /\ \A n \in DOMAIN artifacts : n \in DOMAIN artifacts' /\ artifacts'[n] = artifacts[n]
    /\ signed \subseteq signed' /\ judged \subseteq judged'

Appended(s, e, t) ==
    /\ IsList(t) /\ Len(s) \in Nat /\ DOMAIN s = 1..Len(s)
    /\ Len(t) = Len(s) + 1 /\ DOMAIN t = 1..Len(s) + 1
    /\ \A i \in DOMAIN s : t[i] = s[i]
    /\ t[Len(s) + 1] = e

\* What is appended comes last, and the rest stays.
LEMMA AppendList ==
    ASSUME NEW s, IsList(s), NEW e, NEW t, t = Append(s, e)
    PROVE  Appended(s, e, t)
<1> DEFINE S == {s[i] : i \in DOMAIN s}
           T == {t[i] : i \in DOMAIN t}
<1>1. s \in Seq(S)
  BY DEF IsList
<1> HIDE DEF S
<1>2. s \in Seq(S \cup {e})
  BY <1>1
<1>3. /\ t \in Seq(S \cup {e}) /\ Len(s) \in Nat /\ DOMAIN s = 1..Len(s)
      /\ Len(t) = Len(s) + 1 /\ DOMAIN t = 1..Len(t)
      /\ \A i \in DOMAIN s : t[i] = s[i]
      /\ t[Len(s) + 1] = e
  BY <1>2
<1>4. t \in Seq(T)
  BY <1>3
<1> QED BY <1>3, <1>4 DEF Appended, IsList

\* The policies of the vault stay well formed.
LEMMA PolicyExtended ==
    ASSUME JournalOK, NEW pol, PolicyOK(pol), journal' = Append(journal, pol)
    PROVE  JournalOK' /\ \A k \in DOMAIN journal : k \in DOMAIN journal' /\ journal'[k] = journal[k]
<1>1. IsList(journal)
  BY DEF JournalOK
<1>2. /\ IsList(journal') /\ Len(journal) \in Nat /\ DOMAIN journal = 1..Len(journal)
      /\ Len(journal') = Len(journal) + 1 /\ DOMAIN journal' = 1..Len(journal) + 1
      /\ \A i \in DOMAIN journal : journal'[i] = journal[i]
      /\ journal'[Len(journal) + 1] = pol
  <2>1. Appended(journal, pol, journal')
    BY <1>1, AppendList, Zenon
  <2> QED BY <2>1, Zenon DEF Appended
<1>3. \A k \in DOMAIN journal' : k \in DOMAIN journal \/ k = Len(journal) + 1
  BY <1>2
<1>4. \A k \in DOMAIN journal : PolicyOK(journal[k])
  BY DEF JournalOK
<1>5. \A k \in DOMAIN journal' : PolicyOK(journal'[k])
  BY <1>2, <1>3, <1>4, Zenon
<1>6. Len(journal') > 0 /\ \A k \in DOMAIN journal : k \in DOMAIN journal'
  BY <1>2
<1>7. \A k \in DOMAIN journal' : PolicyOK(journal[k])'
  BY <1>5, Zenon DEF PolicyOK
<1> QED BY <1>2, <1>6, <1>7, Zenon DEF JournalOK

\* The current policy is one of the journal's and is well formed.
LEMMA CurrentOK == ASSUME JournalOK PROVE PolicyOK(Current) /\ Len(journal) \in DOMAIN journal
<1>1. IsList(journal) /\ Len(journal) > 0
  BY DEF JournalOK
<1>2. Len(journal) \in DOMAIN journal
  BY <1>1 DEF IsList
<1> QED BY <1>2 DEF JournalOK, Current

\* An owner's revision adds a well-formed policy and touches no earlier one.
LEMMA JournalStep ==
    ASSUME EvidenceInvariant, Change
    PROVE  /\ JournalOK' /\ \A k \in DOMAIN journal : k \in DOMAIN journal' /\ journal'[k] = journal[k]
           /\ UNCHANGED <<scene, artifacts, desk, reading, signed, judged, verified>>
<1>0. JournalOK /\ PolicyOK(Current) /\ scene \in Scenes
  BY CurrentOK DEF EvidenceInvariant
<1>1. ASSUME NEW o \in Principals, NEW i \in Items, NEW text \in scene.texts,
             RequireWitnessed(o, i, scene.rule, scene.fields, text)
      PROVE  /\ JournalOK' /\ \A k \in DOMAIN journal : k \in DOMAIN journal' /\ journal'[k] = journal[k]
             /\ UNCHANGED <<scene, artifacts, desk, reading, signed, judged, verified>>
  <2> DEFINE wp == WitnessPolicyFor(i, scene.rule, scene.fields, text, o)
             pol == [Current EXCEPT !.wp[i] = wp, !.revision[i] = @ + 1]
  <2>1. journal' = Append(journal, pol) /\ UNCHANGED <<scene, artifacts, desk, reading, signed, judged, verified>>
    BY <1>1, ZenonT(30) DEF RequireWitnessed
  <2>2. "rule" \in DOMAIN wp /\ wp.rule = scene.rule
    BY DEF WitnessPolicyFor
  <2>3. RuleOK(scene.rule)
    BY <1>0, ScenesAssumption DEF RuleOK
  <2> HIDE DEF wp
  <2>4. PolicyOK(pol)
    BY <1>0, <2>2, <2>3 DEF PolicyOK
  <2> HIDE DEF pol
  <2> QED BY <1>0, <2>1, <2>4, PolicyExtended
<1>2. ASSUME NEW o \in Principals, NEW p \in scene.candidates, OwnerChange(o, p)
      PROVE  /\ JournalOK' /\ \A k \in DOMAIN journal : k \in DOMAIN journal' /\ journal'[k] = journal[k]
             /\ UNCHANGED <<scene, artifacts, desk, reading, signed, judged, verified>>
  <2> DEFINE seq == Len(journal) + 1
             successor(wp) == IF wp.rev = 0 THEN wp
                              ELSE [wp EXCEPT !.rev = @ + 1, !.from = seq,
                                              !.labels = {Reissue(l, seq, o) : l \in @}]
             pol == [owners |-> IF p \notin Current.owners THEN Current.owners \union {p}
                                ELSE Current.owners \ {p},
                     wp |-> [i \in Items |-> successor(Current.wp[i])],
                     revision |-> [i \in Items |-> Current.revision[i] + 1]]
  <2>1. journal' = Append(journal, pol) /\ UNCHANGED <<scene, artifacts, desk, reading, signed, judged, verified>>
    BY <1>2, Zenon DEF OwnerChange
  <2>2. \A i \in Items : "rule" \in DOMAIN successor(Current.wp[i])
                         /\ successor(Current.wp[i]).rule = Current.wp[i].rule
    BY SMTT(30), <1>0 DEF PolicyOK
  <2> HIDE DEF successor
  <2>3. PolicyOK(pol)
    BY <1>0, <2>2 DEF PolicyOK
  <2> HIDE DEF pol
  <2> QED BY <1>0, <2>1, <2>3, PolicyExtended
<1>3. ASSUME NEW i \in Items, ItemChange(i)
      PROVE  /\ JournalOK' /\ \A k \in DOMAIN journal : k \in DOMAIN journal' /\ journal'[k] = journal[k]
             /\ UNCHANGED <<scene, artifacts, desk, reading, signed, judged, verified>>
  <2> DEFINE pol == [Current EXCEPT !.revision[i] = @ + 1]
  <2>1. journal' = Append(journal, pol) /\ UNCHANGED <<scene, artifacts, desk, reading, signed, judged, verified>>
    BY <1>3, Zenon DEF ItemChange
  <2>2. PolicyOK(pol)
    BY <1>0 DEF PolicyOK
  <2> HIDE DEF pol
  <2> QED BY <1>0, <2>1, <2>2, PolicyExtended
<1>4. ASSUME NEW o \in Principals, CreateCheckpoint(o)
      PROVE  /\ JournalOK' /\ \A k \in DOMAIN journal : k \in DOMAIN journal' /\ journal'[k] = journal[k]
             /\ UNCHANGED <<scene, artifacts, desk, reading, signed, judged, verified>>
  <2>1. UNCHANGED <<journal, scene, artifacts, desk, reading, signed, judged, verified>>
    BY <1>4, ZenonT(30) DEF CreateCheckpoint
  <2> QED BY <1>0, <2>1 DEF JournalOK, PolicyOK, IsList
<1> QED BY <1>1, <1>2, <1>3, <1>4, Zenon DEF Change

\* Whatever a principal asks for, the screen an approver will see is made of
\* the request's own targets and places.
LEMMA ScreenMade ==
    ASSUME NEW ask, NEW wp, NEW rev, NEW id, NEW m, NEW presentation,
           \A s \in Targeted(ask) : LabelsOn(wp, s) # {},
           presentation = HumanPresentation(ask, wp, rev, id),
           TargetSubjects(m) = Targeted(ask),
           m.directory = Committed(presentation, "directory"),
           m.sink = Committed(presentation, "sink")
    PROVE  ScreenOK(m, presentation)
<1> DEFINE labels == {LabelEntry(CHOOSE l \in LabelsOn(wp, s) : TRUE, rev, id) : s \in Targeted(ask)}
           exact(place, ds) == {ExactEntry(place, d, id) : d \in ds}
<1>1. presentation = labels \union exact("directory", ask.directory) \union exact("sink", ask.sink)
  BY Zenon DEF HumanPresentation
<1>2. \A s \in Targeted(ask) : (CHOOSE l \in LabelsOn(wp, s) : TRUE).subject = s
  BY DEF LabelsOn
<1>3. \A e \in labels : e.commitment = {} /\ e.subject \in Targeted(ask)
  BY <1>2 DEF LabelEntry
<1>4. ASSUME NEW s \in Targeted(ask) PROVE \E e \in labels : e.subject = s
  <2> DEFINE e == LabelEntry(CHOOSE l \in LabelsOn(wp, s) : TRUE, rev, id)
  <2>1. e \in labels
    BY ZenonT(30)
  <2>2. e.subject = s
    BY SMTT(30), <1>2, <1>4 DEF LabelEntry
  <2> QED BY <2>1, <2>2, Zenon
<1>5. \A place, ds : \A e \in exact(place, ds) :
        /\ e.subject = <<"path", place>>
        /\ \E d \in ds : e.commitment = {<<place, id, d>>} /\ e.display = d
  BY DEF ExactEntry
<1> HIDE DEF labels, exact
<1>6. ASSUME NEW place, NEW ds, exact(place, ds) \subseteq presentation, NEW e \in exact(place, ds)
      PROVE  \E c \in Committed(presentation, place) :
               e.commitment = {c} /\ e.subject = <<"path", c[1]>> /\ e.display = c[3]
  <2>1. PICK d \in ds : e.commitment = {<<place, id, d>>} /\ e.display = d
    BY <1>5, <1>6
  <2>2. e.subject = <<"path", place>>
    BY <1>5, <1>6, ZenonT(30)
  <2>3. <<place, id, d>> \in Committed(presentation, place)
    BY SMTT(30), <1>6, <2>1, <2>2 DEF Committed
  <2> QED BY SMTT(30), <2>1, <2>2, <2>3
<1>7. ASSUME NEW place \in {"directory", "sink"}, NEW c \in Committed(presentation, place)
      PROVE  \E e \in presentation : e.subject = <<"path", c[1]>>
  <2>1. PICK e \in presentation : e.subject = <<"path", place>> /\ c \in e.commitment
    BY SMTT(30), <1>7 DEF Committed
  <2>2. PICK other, ds : e \in exact(other, ds)
    BY SMTT(30), <1>1, <1>3, <2>1
  <2>3. other = place
    BY SMTT(30), <1>5, <2>1, <2>2
  <2>4. c[1] = other
    BY SMTT(30), <1>5, <2>1, <2>2
  <2> QED BY <2>1, <2>3, <2>4
<1>8. ASSUME NEW e \in presentation
      PROVE  \/ e.commitment = {} /\ e.subject \in TargetSubjects(m)
             \/ \E c \in m.directory \union m.sink :
                  e.commitment = {c} /\ e.subject = <<"path", c[1]>> /\ e.display = c[3]
  <2>1. CASE e \in labels
    BY <1>3, <2>1
  <2>2. CASE e \in exact("directory", ask.directory)
    <3>1. exact("directory", ask.directory) \subseteq presentation
      BY SMTT(30), <1>1
    <3> QED BY SMTT(30), <1>6, <2>2, <3>1
  <2>3. CASE e \in exact("sink", ask.sink)
    <3>1. exact("sink", ask.sink) \subseteq presentation
      BY <1>1
    <3> QED BY SMTT(30), <1>6, <2>3, <3>1
  <2> QED BY ZenonT(30), <1>1, <2>1, <2>2, <2>3
<1>9. \A s \in TargetSubjects(m) : \E e \in presentation : e.subject = s
  BY SMTT(30), <1>1, <1>4
<1>10. \A c \in m.directory \union m.sink : \E e \in presentation : e.subject = <<"path", c[1]>>
  BY ZenonT(30), <1>7
<1> QED BY Zenon, <1>8, <1>9, <1>10 DEF ScreenOK

\* A request that create accepts says what the policy it was made from says.
LEMMA ArtifactMade ==
    ASSUME NEW p, NEW ask, ask.item \in Items, NEW seq \in DOMAIN journal, NEW mark, NEW id,
           Creatable(p, ask, seq, mark, id)
    PROVE  ArtifactOK(ArtifactFor(p, ask, seq, mark, id))
<1> DEFINE a == ArtifactFor(p, ask, seq, mark, id)
           m == ManifestFor(p, ask, seq, id)
           wp == journal[seq].wp[ask.item]
           rev == journal[seq].revision[ask.item]
<1>1. a.request.seq = seq /\ a.request.item = ask.item /\ a.manifest = m /\ a.presentation = m.presentation
  BY ZenonT(30) DEF ArtifactFor, RequestFor, ManifestFor
<1>2. ASSUME HumanRule(wp.rule) PROVE ScreenOK(m, m.presentation)
  <2>1. m.presentation = HumanPresentation(ask, wp, rev, id)
    BY ZenonT(30), <1>2 DEF ManifestFor
  <2>2. m.directory = Committed(m.presentation, "directory") /\ m.sink = Committed(m.presentation, "sink")
    BY ZenonT(30) DEF ManifestFor
  <2>3. m.targets = {[subject |-> s, shown |-> {e \in m.presentation : e.subject = s}] : s \in Targeted(ask)}
    BY ZenonT(30), <1>2 DEF ManifestFor
  <2> HIDE DEF m
  <2>4. TargetSubjects(m) = Targeted(ask)
    <3>1. \A t \in m.targets : t.subject \in Targeted(ask)
      BY <2>3
    <3>2. ASSUME NEW s \in Targeted(ask) PROVE \E t \in m.targets : t.subject = s
      <4> DEFINE t == [subject |-> s, shown |-> {e \in m.presentation : e.subject = s}]
      <4>1. t \in m.targets
        BY <2>3, Zenon
      <4>2. t.subject = s
        OBVIOUS
      <4> QED BY <4>1, <4>2, Zenon
    <3> QED BY <3>1, <3>2, Zenon DEF TargetSubjects
  <2>5. \A s \in Labelled(ask) : LabelsOn(wp, s) # {}
    BY <1>2, ZenonT(30) DEF Creatable
  <2>6. Targeted(ask) \subseteq Labelled(ask)
    BY Zenon DEF Targeted, Labelled, Fieldwise
  <2>7. \A s \in Targeted(ask) : LabelsOn(wp, s) # {}
    BY <2>5, <2>6, Zenon
  <2> HIDE DEF wp, rev
  <2> QED BY <2>1, <2>2, <2>4, <2>7, ScreenMade, Zenon
<1> HIDE DEF a, m
<1> QED BY Zenon, <1>1, <1>2 DEF ArtifactOK, a

\* What the approve command puts on the terminal is what the request that
\* it signs is about.
LEMMA ScreenTells ==
    ASSUME NEW n \in DOMAIN artifacts, ArtifactOK(artifacts[n]), NEW seq, NEW now,
           Renders(seq, artifacts[n], now), HumanRule(RuleOf(n)),
           NEW s, s.request = n, s.screen = Screen(artifacts[n]), s.by \in RuleOf(n).eligible
    PROVE  ShownOK(s)
<1> DEFINE a == artifacts[n]
           r == a.request
           m == a.manifest
           places == m.directory \union m.sink
           labels == journal[r.seq].wp[r.item].labels
           item == ItemSubject(r.item)
<1>1. PresentationAuthentic(seq, a, now)
  BY Zenon DEF Renders
<1>2. r.seq = seq
  BY <1>1, Zenon DEF PresentationAuthentic, PublicRequest, RequestPolicy
<1>3. a.labels = labels /\ \A e \in a.presentation : EntryShape(e) /\ e.label \subseteq a.labels
  BY <1>1, <1>2, Zenon DEF PresentationAuthentic, ManifestPresentation
<1>4. ScreenOK(m, a.presentation)
  BY Zenon DEF ArtifactOK, RuleOf, RequestOf
<1>5. (\E e \in a.presentation : e.subject = item) \/ ItemLabels(a) # {}
  BY <1>2, ZenonT(30) DEF Renders, RuleOf, RequestOf
<1>6. \A l \in ItemLabels(a) : l \in labels /\ l.subject = item
  BY ZenonT(30), <1>3 DEF ItemLabels
<1>7. \A d \in s.screen : \/ \E e \in a.presentation : d = <<e.subject, e.display>>
                          \/ \E l \in ItemLabels(a) : d = <<l.subject, l.text>>
  BY DEF Screen
<1>8. /\ \A e \in a.presentation : <<e.subject, e.display>> \in s.screen
      /\ \A l \in ItemLabels(a) : <<l.subject, l.text>> \in s.screen
  BY DEF Screen
<1>9. /\ \A e \in a.presentation : \/ e.commitment = {} /\ e.subject \in TargetSubjects(m)
                                   \/ \E c \in places : e.commitment = {c} /\ e.subject = <<"path", c[1]>>
                                                        /\ e.display = c[3]
      /\ \A t \in TargetSubjects(m) : \E e \in a.presentation : e.subject = t
      /\ \A c \in places : \E e \in a.presentation : e.subject = <<"path", c[1]>>
  BY <1>4, ZenonT(30) DEF ScreenOK
<1>10. \A e \in a.presentation : e.commitment = {} => \E l \in labels : l.subject = e.subject /\ l.text = e.display
  BY ZenonT(30), <1>3 DEF EntryShape
<1> DEFINE subjects == TargetSubjects(m) \union {item} \union {<<"path", c[1]>> : c \in places}
<1> HIDE DEF a, r, m, places, labels, item
<1>11. ASSUME NEW d \in s.screen
       PROVE  /\ d[1] \in subjects
              /\ \/ \E l \in labels : l.subject = d[1] /\ l.text = d[2]
                 \/ \E c \in places : d[1] = <<"path", c[1]>> /\ d[2] = c[3]
  <2>1. CASE \E e \in a.presentation : d = <<e.subject, e.display>>
    <3>1. PICK e \in a.presentation : d = <<e.subject, e.display>>
      BY <2>1
    <3>2. d[1] = e.subject /\ d[2] = e.display
      BY <3>1
    <3> QED BY ZenonT(30), <1>9, <1>10, <3>2
  <2>2. CASE \E l \in ItemLabels(a) : d = <<l.subject, l.text>>
    <3>1. PICK l \in ItemLabels(a) : d = <<l.subject, l.text>>
      BY <2>2
    <3>2. d[1] = l.subject /\ d[2] = l.text
      BY SMTT(30), <3>1
    <3> QED BY <1>6, <3>2
  <2> QED BY SMTT(30), <1>7, <2>1, <2>2
<1>12. ASSUME NEW x \in subjects PROVE \E d \in s.screen : d[1] = x
  <2>1. CASE \E e \in a.presentation : e.subject = x
    BY ZenonT(30), <1>8, <2>1
  <2>2. CASE x = item /\ ItemLabels(a) # {}
    <3>1. PICK l \in ItemLabels(a) : TRUE
      BY SMTT(30), <2>2
    <3>2. <<l.subject, l.text>> \in s.screen /\ l.subject = x
      BY SMTT(30), <1>6, <1>8, <2>2, <3>1
    <3> QED BY <3>2
  <2> QED BY Zenon, <1>5, <1>9, <2>1, <2>2
<1>13. {d[1] : d \in s.screen} = subjects
  BY <1>11, <1>12
<1> QED BY <1>11, <1>13, Zenon DEF ShownOK, RequestOf, a, r, m, places, labels, item

\* Documents that are added take no approval away.
LEMMA ApprovingGrows ==
    ASSUME NEW S, NEW T, S \subseteq T, NEW who, IsFiniteSet(who), NEW n, NEW x \in Nat,
           Cardinality(Approving(S, n, who)) >= x
    PROVE  Cardinality(Approving(T, n, who)) >= x
<1>1. Approving(S, n, who) \in SUBSET Approving(T, n, who) /\ Approving(T, n, who) \in SUBSET who
  BY DEF Approving, By
<1>2. IsFiniteSet(Approving(T, n, who))
  BY <1>1, FS_Subset
<1>3. IsFiniteSet(Approving(S, n, who)) /\ Cardinality(Approving(S, n, who)) <= Cardinality(Approving(T, n, who))
  BY <1>1, <1>2, FS_Subset
<1>4. Cardinality(Approving(S, n, who)) \in Nat /\ Cardinality(Approving(T, n, who)) \in Nat
  BY <1>2, <1>3, FS_CardinalityType
<1> QED BY <1>3, <1>4

\* The rule a request is judged by is satisfiable and names finitely many people.
LEMMA RuleOfOK ==
    ASSUME JournalOK, ArtifactsOK, NEW n \in DOMAIN artifacts
    PROVE  RuleOK(RuleOf(n)) /\ IsFiniteSet(RuleOf(n).eligible) /\ IsFiniteSet(RuleOf(n).witnesses)
<1>1. ArtifactOK(artifacts[n])
  BY DEF ArtifactsOK
<1>2. RuleOK(RuleOf(n))
  BY SMTT(30), <1>1 DEF ArtifactOK, JournalOK, PolicyOK, RuleOf, RequestOf
<1> QED BY <1>2, PeopleAssumption, FS_Subset DEF RuleOK

\* What was true of a document stays true of it.
LEMMA OldDocuments ==
    ASSUME EvidenceInvariant, DocumentsStay
    PROVE  /\ \A n \in DOMAIN artifacts : ArtifactOK(artifacts[n])' /\ RuleOf(n)' = RuleOf(n)
           /\ \A s \in signed : s.request \in DOMAIN artifacts' /\ ShownOK(s)'
           /\ \A rc \in verified : rc.request \in DOMAIN artifacts' /\ SoundOK(rc)'
<1>1. ASSUME NEW n \in DOMAIN artifacts
      PROVE  /\ ArtifactOK(artifacts[n])' /\ RuleOf(n)' = RuleOf(n) /\ n \in DOMAIN artifacts'
             /\ artifacts'[n] = artifacts[n]
             /\ journal'[artifacts[n].request.seq] = journal[artifacts[n].request.seq]
  <2>1. ArtifactOK(artifacts[n])
    BY DEF EvidenceInvariant, ArtifactsOK
  <2>2. /\ artifacts'[n] = artifacts[n] /\ n \in DOMAIN artifacts'
        /\ journal'[artifacts[n].request.seq] = journal[artifacts[n].request.seq]
        /\ artifacts[n].request.seq \in DOMAIN journal'
    BY <2>1, ZenonT(30) DEF ArtifactOK, DocumentsStay
  <2>3. ArtifactOK(artifacts[n])'
    BY ZenonT(30), <2>1, <2>2 DEF ArtifactOK, ScreenOK
  <2>4. RuleOf(n)' = RuleOf(n)
    BY <2>2 DEF RuleOf, RequestOf
  <2> QED BY <2>2, <2>3, <2>4
<1>2. ASSUME NEW s \in signed PROVE s.request \in DOMAIN artifacts' /\ ShownOK(s)'
  <2>1. s.request \in DOMAIN artifacts /\ ShownOK(s)
    BY DEF EvidenceInvariant, SignedOK
  <2>2. /\ RuleOf(s.request)' = RuleOf(s.request) /\ s.request \in DOMAIN artifacts'
        /\ artifacts'[s.request] = artifacts[s.request]
        /\ journal'[artifacts[s.request].request.seq] = journal[artifacts[s.request].request.seq]
    BY <1>1, <2>1
  <2> QED BY Zenon, <2>1, <2>2 DEF ShownOK, RequestOf
<1>3. ASSUME NEW rc \in verified PROVE rc.request \in DOMAIN artifacts' /\ SoundOK(rc)'
  <2> DEFINE rule == RuleOf(rc.request)
  <2>1. rc.request \in DOMAIN artifacts /\ SoundOK(rc)
    BY DEF EvidenceInvariant, VerifiedOK
  <2>2. rule' = rule /\ rc.request \in DOMAIN artifacts'
    BY <1>1, <2>1
  <2>3. RuleOK(rule) /\ IsFiniteSet(rule.eligible) /\ IsFiniteSet(rule.witnesses)
    BY <2>1, RuleOfOK DEF EvidenceInvariant
  <2>4. rule.approvals \in Nat /\ rule.quorum \in Nat /\ signed \subseteq signed' /\ judged \subseteq judged'
    BY <2>3, Zenon DEF RuleOK, DocumentsStay
  <2> HIDE DEF rule
  <2>5. ASSUME rc.outcome = "Approved"
        PROVE  /\ Cardinality(Approving(signed', rc.request, rule.eligible)) >= rule.approvals
               /\ Cardinality(Approving(judged', rc.request, rule.witnesses)) >= rule.quorum
    <3>1. /\ Cardinality(Approving(signed, rc.request, rule.eligible)) >= rule.approvals
          /\ Cardinality(Approving(judged, rc.request, rule.witnesses)) >= rule.quorum
      BY <2>1, <2>5, Zenon DEF SoundOK, rule
    <3> QED BY <2>3, <2>4, <3>1, ApprovingGrows
  <2> QED BY <2>2, <2>5, Zenon DEF SoundOK, Approving, By, rule
<1> QED BY SMTT(30), <1>1, <1>2, <1>3

\* The next state's desks and screens, spelled out.
LEMMA ReadingNext ==
    ASSUME DOMAIN desk' = Approvers, DOMAIN reading' = Approvers,
           \A ap \in Approvers : desk'[ap] # 0 => desk'[ap] \in DOMAIN artifacts',
           \A ap \in Approvers : \A held \in reading'[ap] :
             held.file \in DOMAIN artifacts' /\ held.screen = Screen(artifacts'[held.file])
    PROVE  ReadingOK'
BY Zenon DEF ReadingOK

\* What the approvers hold stays what it was when it was shown.
LEMMA ReadingStays ==
    ASSUME ReadingOK, DocumentsStay, UNCHANGED <<desk, reading>>
    PROVE  ReadingOK'
<1>1. \A n \in DOMAIN artifacts : n \in DOMAIN artifacts' /\ artifacts'[n] = artifacts[n]
  BY Zenon DEF DocumentsStay
<1>2. DOMAIN desk' = Approvers /\ DOMAIN reading' = Approvers
  BY Zenon DEF ReadingOK
<1>3. \A ap \in Approvers : desk'[ap] # 0 => desk'[ap] \in DOMAIN artifacts'
  BY <1>1, Zenon DEF ReadingOK
<1>4. \A ap \in Approvers : \A held \in reading'[ap] :
        held.file \in DOMAIN artifacts' /\ held.screen = Screen(artifacts'[held.file])
  BY <1>1, Zenon DEF ReadingOK
<1> QED BY <1>2, <1>3, <1>4, ReadingNext, Zenon

\* An approve command that ends drops what it held.
LEMMA ReadingDropped ==
    ASSUME ReadingOK, NEW ap \in Approvers, reading' = [reading EXCEPT ![ap] = {}],
           UNCHANGED <<desk, artifacts>>
    PROVE  ReadingOK'
<1>1. DOMAIN reading' = Approvers /\ \A x \in Approvers : reading'[x] = {} \/ reading'[x] = reading[x]
  BY DEF ReadingOK
<1>2. DOMAIN desk' = Approvers
      /\ \A x \in Approvers : desk'[x] # 0 => desk'[x] \in DOMAIN artifacts'
  BY Zenon DEF ReadingOK
<1>3. ASSUME NEW x \in Approvers, NEW h \in reading'[x]
      PROVE  h.file \in DOMAIN artifacts' /\ h.screen = Screen(artifacts'[h.file])
  <2>1. h \in reading[x]
    BY <1>1, <1>3
  <2> QED BY <2>1, Zenon DEF ReadingOK
<1> QED BY <1>1, <1>2, <1>3, ReadingNext, Zenon

\* A request that is made.
LEMMA AskStep ==
    ASSUME EvidenceInvariant, Ask
    PROVE  EvidenceInvariant'
<1>1. PICK p \in scene.askers, ask \in scene.asks, seq \in DOMAIN journal, mark \in marks :
        CreateRequest(p, ask, seq, mark)
  BY Zenon DEF Ask
<1> DEFINE a == ArtifactFor(p, ask, seq, mark, Len(artifacts) + 1)
<1>2. /\ Creatable(p, ask, seq, mark, Len(artifacts) + 1) /\ artifacts' = Append(artifacts, a)
      /\ UNCHANGED <<scene, journal, desk, reading, signed, judged, verified>>
  BY <1>1, Zenon DEF CreateRequest
<1>3. ArtifactOK(a)
  <2>1. ask.item \in Items
    BY ScenesAssumption DEF EvidenceInvariant
  <2> QED BY <1>2, <2>1, ArtifactMade, Zenon
<1> HIDE DEF a
<1>4. IsList(artifacts)
  BY DEF EvidenceInvariant, ArtifactsOK
<1>5. /\ IsList(artifacts') /\ Len(artifacts) \in Nat /\ DOMAIN artifacts = 1..Len(artifacts)
      /\ DOMAIN artifacts' = 1..Len(artifacts) + 1
      /\ \A n \in DOMAIN artifacts : artifacts'[n] = artifacts[n]
      /\ artifacts'[Len(artifacts) + 1] = a
  <2>1. Appended(artifacts, a, artifacts')
    BY <1>2, <1>4, AppendList, Zenon
  <2> QED BY <2>1, Zenon DEF Appended
<1>6. /\ \A n \in DOMAIN artifacts : n \in DOMAIN artifacts'
      /\ \A n \in DOMAIN artifacts' : n \in DOMAIN artifacts \/ n = Len(artifacts) + 1
  BY <1>5
<1>7. DocumentsStay
  BY <1>2, <1>5, <1>6, Zenon DEF DocumentsStay
<1>8. ArtifactsOK'
  <2>1. ASSUME NEW n \in DOMAIN artifacts' PROVE ArtifactOK(artifacts[n])'
    <3>1. CASE n \in DOMAIN artifacts
      BY <1>7, <3>1, OldDocuments
    <3>2. CASE n = Len(artifacts) + 1
      BY <1>2, <1>3, <1>5, <3>2, Zenon DEF ArtifactOK
    <3> QED BY <1>6, <2>1, <3>1, <3>2
  <2> QED BY <1>5, <2>1 DEF ArtifactsOK
<1>9. ReadingOK'
  BY <1>2, <1>7, ReadingStays DEF EvidenceInvariant
<1>10. SignedOK' /\ VerifiedOK'
  BY <1>2, <1>7, OldDocuments, Zenon DEF SignedOK, VerifiedOK
<1>11. scene' \in Scenes /\ JournalOK'
  BY <1>2, Zenon DEF EvidenceInvariant, JournalOK, IsList, PolicyOK
<1> QED BY <1>8, <1>9, <1>10, <1>11 DEF EvidenceInvariant

\* A step that changes neither the journal nor the requests.
LEMMA PapersStay ==
    ASSUME EvidenceInvariant, UNCHANGED <<scene, journal, artifacts>>,
           signed \subseteq signed', judged \subseteq judged'
    PROVE  /\ DocumentsStay /\ scene' \in Scenes /\ JournalOK' /\ ArtifactsOK'
           /\ \A s \in signed : s.request \in DOMAIN artifacts' /\ ShownOK(s)'
           /\ \A rc \in verified : rc.request \in DOMAIN artifacts' /\ SoundOK(rc)'
<1>1. DocumentsStay
  BY Zenon DEF DocumentsStay
<1>2. scene' \in Scenes /\ JournalOK'
  BY Zenon DEF EvidenceInvariant, JournalOK, IsList, PolicyOK
<1>3. ArtifactsOK'
  <2>1. IsList(artifacts)'
    BY Zenon DEF EvidenceInvariant, ArtifactsOK, IsList
  <2>2. \A n \in DOMAIN artifacts' : ArtifactOK(artifacts[n])'
    BY <1>1, OldDocuments, Zenon
  <2> QED BY <2>1, <2>2 DEF ArtifactsOK
<1> QED BY <1>1, <1>2, <1>3, OldDocuments, Zenon

\* What an approver does keeps the invariant.
LEMMA ApproveStep ==
    ASSUME EvidenceInvariant, Approve
    PROVE  EvidenceInvariant'
<1>0. PICK ap \in scene.rule.eligible :
        \/ \E n \in DOMAIN artifacts : HandOver(ap, n)
        \/ \E seq \in DOMAIN journal, lag \in scene.lags : Show(ap, seq, lag)
        \/ \E verdict \in scene.verdicts : Sign(ap, verdict)
        \/ LeaveReview(ap)
  BY Zenon DEF Approve
<1>1. ap \in Approvers
  BY ScenesAssumption DEF EvidenceInvariant
<1>2. ReadingOK
  BY DEF EvidenceInvariant
<1>3. ASSUME UNCHANGED <<scene, journal, artifacts, signed, judged, verified>>, ReadingOK'
      PROVE  EvidenceInvariant'
  BY <1>3, PapersStay, Zenon DEF EvidenceInvariant, SignedOK, VerifiedOK
<1>4. ASSUME NEW n \in DOMAIN artifacts, HandOver(ap, n) PROVE EvidenceInvariant'
  <2>1. desk' = [desk EXCEPT ![ap] = n] /\ UNCHANGED <<scene, journal, artifacts, reading, signed, judged, verified>>
    BY <1>4, Zenon DEF HandOver
  <2>2. DOMAIN desk' = Approvers /\ \A x \in Approvers : desk'[x] = n \/ desk'[x] = desk[x]
    BY <1>2, <2>1 DEF ReadingOK
  <2>3. ReadingOK'
    BY <1>2, <2>1, <2>2, ZenonT(30) DEF ReadingOK, Screen, ItemLabels
  <2> QED BY <1>3, <2>1, <2>3
<1>5. ASSUME NEW seq \in DOMAIN journal, NEW lag \in scene.lags, Show(ap, seq, lag) PROVE EvidenceInvariant'
  <2> DEFINE held == [file |-> desk[ap], seq |-> seq, lag |-> lag, screen |-> Screen(artifacts[desk[ap]])]
  <2>1. /\ desk[ap] # 0 /\ reading' = [reading EXCEPT ![ap] = {held}]
        /\ UNCHANGED <<scene, journal, artifacts, desk, signed, judged, verified>>
    BY <1>5, Zenon DEF Show
  <2>2. held.file = desk[ap] /\ held.screen = Screen(artifacts[desk[ap]])
    OBVIOUS
  <2> HIDE DEF held
  <2>3. desk[ap] \in DOMAIN artifacts
    BY <1>1, <1>2, <2>1, Zenon DEF ReadingOK
  <2>4. DOMAIN reading' = Approvers /\ \A x \in Approvers : reading'[x] = {held} \/ reading'[x] = reading[x]
    BY SMTT(30), <1>2, <2>1 DEF ReadingOK
  <2>5. ASSUME NEW x \in Approvers, NEW h \in reading'[x]
        PROVE  h.file \in DOMAIN artifacts /\ h.screen = Screen(artifacts[h.file])
    <3>1. CASE h = held
      BY <2>2, <2>3, <3>1, Zenon
    <3>2. CASE h \in reading[x]
      BY <1>2, <3>2, Zenon DEF ReadingOK
    <3> QED BY <2>4, <2>5, <3>1, <3>2
  <2>6. ReadingOK'
    <3>1. DOMAIN desk' = Approvers /\ DOMAIN reading' = Approvers
          /\ \A x \in Approvers : desk'[x] # 0 => desk'[x] \in DOMAIN artifacts'
      BY <1>2, <2>1, <2>4, Zenon DEF ReadingOK
    <3>2. \A x \in Approvers : \A h \in reading'[x] :
            h.file \in DOMAIN artifacts' /\ h.screen = Screen(artifacts'[h.file])
      BY <2>1, <2>5, Zenon
    <3> QED BY <3>1, <3>2, ReadingNext, Zenon
  <2> QED BY <1>3, <2>1, <2>6
<1>6. ASSUME NEW verdict \in scene.verdicts, Sign(ap, verdict) PROVE EvidenceInvariant'
  <2>1. PICK held \in reading[ap] :
          LET n == ReviewedFile(ap, held)
              now == hour - held.lag
              d == [request |-> n, presentation |-> artifacts[n].manifest.presentation,
                    by |-> ap, verdict |-> verdict, issued |-> now,
                    expires |-> RequestOf(n).expires, screen |-> held.screen]
          IN /\ Renders(held.seq, artifacts[n], now)
             /\ HumanRule(RuleOf(n))
             /\ ApprovalValid(n, d)
             /\ signed' = signed \union {d}
             /\ reading' = [reading EXCEPT ![ap] = {}]
             /\ UNCHANGED <<scene, journal, artifacts, desk, judged, verified>>
    BY <1>6, Zenon DEF Sign
  <2> DEFINE n == held.file
             now == hour - held.lag
             document == [request |-> n, presentation |-> artifacts[n].manifest.presentation,
                          by |-> ap, verdict |-> verdict, issued |-> now,
                          expires |-> RequestOf(n).expires, screen |-> held.screen]
  <2>2. PICK d : d = document
    BY ZenonT(30)
  <2>3. /\ d.request = n /\ d.screen = held.screen /\ d.by = ap
        /\ Renders(held.seq, artifacts[n], now) /\ HumanRule(RuleOf(n)) /\ ApprovalValid(n, d)
        /\ signed' = signed \union {d} /\ reading' = [reading EXCEPT ![ap] = {}]
        /\ UNCHANGED <<scene, journal, artifacts, desk, judged, verified>>
    <3>1. d.request = n /\ d.screen = held.screen /\ d.by = ap
      BY <2>2
    <3>2. /\ Renders(held.seq, artifacts[n], now) /\ HumanRule(RuleOf(n)) /\ ApprovalValid(n, document)
          /\ signed' = signed \union {document} /\ reading' = [reading EXCEPT ![ap] = {}]
          /\ UNCHANGED <<scene, journal, artifacts, desk, judged, verified>>
      BY <2>1, Zenon DEF ReviewedFile
    <3> HIDE DEF document, now
    <3> QED BY <2>2, <3>1, <3>2, Zenon
  <2> HIDE DEF now
  <2>4. n \in DOMAIN artifacts /\ held.screen = Screen(artifacts[n])
    BY <1>1, <1>2, <2>1, Zenon DEF ReadingOK
  <2>5. ArtifactOK(artifacts[n])
    BY <2>4 DEF EvidenceInvariant, ArtifactsOK
  <2>6. d.by \in RuleOf(n).eligible
    BY <2>3, Zenon DEF ApprovalValid
  <2>7. ShownOK(d)
    BY <2>3, <2>4, <2>5, <2>6, ScreenTells, Zenon
  <2>8. ShownOK(d)'
    BY <2>3, <2>7, ZenonT(30) DEF ShownOK, RequestOf, RuleOf
  <2>9. ReadingOK'
    BY Zenon, <1>1, <1>2, <2>3, ReadingDropped
  <2>10. /\ scene' \in Scenes /\ JournalOK' /\ ArtifactsOK'
         /\ \A s \in signed : s.request \in DOMAIN artifacts' /\ ShownOK(s)'
         /\ \A rc \in verified : rc.request \in DOMAIN artifacts' /\ SoundOK(rc)'
    <3>1. signed \subseteq signed' /\ judged \subseteq judged' /\ UNCHANGED <<scene, journal, artifacts>>
      BY <2>3
    <3> QED BY <3>1, PapersStay
  <2>11. SignedOK'
    BY <2>3, <2>4, <2>8, <2>10, Zenon DEF SignedOK
  <2>12. VerifiedOK'
    BY <2>3, <2>10, Zenon DEF VerifiedOK
  <2> QED BY <2>9, <2>10, <2>11, <2>12 DEF EvidenceInvariant
<1>7. ASSUME LeaveReview(ap) PROVE EvidenceInvariant'
  <2>1. reading' = [reading EXCEPT ![ap] = {}] /\ UNCHANGED <<scene, journal, artifacts, desk, signed, judged, verified>>
    BY <1>7, Zenon DEF LeaveReview
  <2>3. ReadingOK'
    BY Zenon, <1>1, <1>2, <2>1, ReadingDropped
  <2> QED BY <1>3, <2>1, <2>3
<1> QED BY <1>0, <1>4, <1>5, <1>6, <1>7

\* A receipt that verifies as approved has its quorums.
LEMMA VerifyStep ==
    ASSUME EvidenceInvariant, Verify
    PROVE  EvidenceInvariant'
<1>1. PICK n \in DOMAIN artifacts, approvals \in SUBSET signed, decisions \in SUBSET judged,
           outcome \in {"Approved", "Denied"}, seq \in DOMAIN journal, mark \in marks,
           issued \in {0, scene.hours} :
        VerifyReceipt([request |-> n, approvals |-> approvals, decisions |-> decisions,
                       outcome |-> outcome, seq |-> seq, mark |-> mark, issued |-> issued])
  BY Zenon DEF Verify
<1> DEFINE rc == [request |-> n, approvals |-> approvals, decisions |-> decisions,
                  outcome |-> outcome, seq |-> seq, mark |-> mark, issued |-> issued]
           v == [request |-> n, outcome |-> outcome]
           rule == RuleOf(n)
<1>2. rc.request = n /\ rc.outcome = outcome /\ rc.approvals = approvals /\ rc.decisions = decisions
  OBVIOUS
<1>3. v.request = n /\ v.outcome = outcome
  OBVIOUS
<1>4. /\ ReceiptVerifies(rc) /\ verified' = {[request |-> rc.request, outcome |-> rc.outcome]}
      /\ UNCHANGED <<scene, journal, artifacts, desk, reading, signed, judged>>
  BY <1>1, Zenon DEF VerifyReceipt
<1>5. verified' = {v}
  BY SMTT(30), <1>2, <1>4
<1> HIDE DEF rc, v
<1>6. RuleOK(rule) /\ IsFiniteSet(rule.eligible) /\ IsFiniteSet(rule.witnesses)
  BY RuleOfOK DEF EvidenceInvariant
<1>7. rule.approvals \in Nat /\ rule.quorum \in Nat
  BY SMTT(30), <1>6 DEF RuleOK
<1>8. SoundOK(v)
  <2>1. SUFFICES ASSUME outcome = "Approved"
                 PROVE  /\ Cardinality(Approving(signed, n, rule.eligible)) >= rule.approvals
                        /\ Cardinality(Approving(judged, n, rule.witnesses)) >= rule.quorum
    BY <1>3 DEF SoundOK
  <2>2. Quorum(rc)
    BY <1>2, <1>4, <2>1, Zenon DEF ReceiptVerifies
  <2>3. /\ Cardinality(By(approvals, "approve")) >= rule.approvals
        /\ Cardinality(By(decisions, "approve")) >= rule.quorum
    BY <1>2, <2>2, Zenon DEF Quorum
  <2>4. /\ \A d \in approvals : d.request = n
        /\ \A d \in decisions : d.request = n
        /\ By(approvals, "approve") \subseteq rule.eligible
        /\ By(decisions, "approve") \subseteq rule.witnesses
    BY <1>2, <1>4, Zenon DEF ReceiptVerifies, ApprovalInScope, DecisionInScope, CountedInRule
  <2>5. /\ By(approvals, "approve") = Approving(approvals, n, rule.eligible)
        /\ By(decisions, "approve") = Approving(decisions, n, rule.witnesses)
    BY <2>4 DEF By, Approving
  <2> HIDE DEF rule
  <2> QED BY SMTT(30), <1>6, <1>7, <2>3, <2>5, ApprovingGrows
<1>9. SoundOK(v)'
  BY <1>4, <1>8, Zenon DEF SoundOK, RuleOf, RequestOf
<1>10. /\ scene' \in Scenes /\ JournalOK' /\ ArtifactsOK' /\ DocumentsStay
       /\ \A s \in signed : s.request \in DOMAIN artifacts' /\ ShownOK(s)'
  BY SMTT(30), <1>4, PapersStay
<1>11. ReadingOK'
  BY <1>4, <1>10, ReadingStays DEF EvidenceInvariant
<1>12. SignedOK' /\ VerifiedOK'
  BY <1>3, <1>4, <1>5, <1>9, <1>10, Zenon DEF SignedOK, VerifiedOK
<1> QED BY <1>10, <1>11, <1>12 DEF EvidenceInvariant

\* The invariant holds at first and every step keeps it.
LEMMA EvidenceInductive ==
    /\ EvidenceInit => EvidenceInvariant
    /\ EvidenceInvariant /\ [EvidenceNext]_evidenceVars => EvidenceInvariant'
<1>1. ASSUME EvidenceInit PROVE EvidenceInvariant
  <2> DEFINE pol == [owners |-> FirstOwners, wp |-> [i \in Items |-> Unwitnessed],
                     revision |-> [i \in Items |-> 1]]
  <2>1. /\ scene \in Scenes /\ journal = <<pol>> /\ artifacts = <<>>
        /\ desk = [ap \in Approvers |-> 0] /\ reading = [ap \in Approvers |-> {}]
        /\ signed = {} /\ judged = {} /\ verified = {}
    BY <1>1, ZenonT(30) DEF EvidenceInit
  <2>2. PolicyOK(pol)
    BY Zenon DEF PolicyOK, RuleOK, Unwitnessed
  <2> HIDE DEF pol
  <2>3. JournalOK
    BY <2>1, <2>2 DEF JournalOK, IsList
  <2>4. ArtifactsOK
    BY <2>1 DEF ArtifactsOK, IsList
  <2>5. ReadingOK
    BY <2>1 DEF ReadingOK
  <2> QED BY <2>1, <2>3, <2>4, <2>5 DEF EvidenceInvariant, SignedOK, VerifiedOK
<1>2. ASSUME EvidenceInvariant, [EvidenceNext]_evidenceVars PROVE EvidenceInvariant'
  <2>1. CASE Change
    <3>1. /\ JournalOK' /\ \A k \in DOMAIN journal : k \in DOMAIN journal' /\ journal'[k] = journal[k]
          /\ UNCHANGED <<scene, artifacts, desk, reading, signed, judged, verified>>
      BY <1>2, <2>1, JournalStep
    <3>2. DocumentsStay
      BY <3>1, Zenon DEF DocumentsStay
    <3>3. ArtifactsOK'
      BY <1>2, <3>1, <3>2, OldDocuments, Zenon DEF EvidenceInvariant, ArtifactsOK, IsList
    <3>4. ReadingOK'
      BY <1>2, <3>1, <3>2, ReadingStays DEF EvidenceInvariant
    <3>5. SignedOK' /\ VerifiedOK'
      BY <1>2, <3>1, <3>2, OldDocuments, Zenon DEF SignedOK, VerifiedOK
    <3> QED BY <1>2, <3>1, <3>3, <3>4, <3>5, Zenon DEF EvidenceInvariant
  <2>2. CASE Decide \/ Pass \/ UNCHANGED evidenceVars
    <3>1. UNCHANGED <<scene, journal, artifacts, desk, reading, signed, verified>> /\ judged \subseteq judged'
      BY ZenonT(30), <2>2 DEF Decide, Judge, Pass, evidenceVars
    <3>2. /\ scene' \in Scenes /\ JournalOK' /\ ArtifactsOK' /\ DocumentsStay
          /\ \A s \in signed : s.request \in DOMAIN artifacts' /\ ShownOK(s)'
          /\ \A rc \in verified : rc.request \in DOMAIN artifacts' /\ SoundOK(rc)'
      <4>1. signed \subseteq signed'
        BY <3>1
      <4> QED BY <1>2, <3>1, <4>1, PapersStay
    <3>3. ReadingOK'
      BY <1>2, <3>1, <3>2, ReadingStays DEF EvidenceInvariant
    <3> QED BY <3>1, <3>2, <3>3, ZenonT(30) DEF EvidenceInvariant, SignedOK, VerifiedOK
  <2> QED BY <1>2, <2>1, <2>2, AskStep, ApproveStep, VerifyStep DEF EvidenceNext
<1> QED BY <1>1, <1>2

\* What an approver signs is what the terminal showed: for every number of
\* requests, approvers and changes of the vault while a command waits for an
\* answer (approve_request).
THEOREM ShownIsAlwaysSigned == EvidenceSpec => []ShownIsSigned
<1>1. EvidenceInvariant => ShownIsSigned
  BY ZenonT(30) DEF EvidenceInvariant, SignedOK, ShownOK, ShownIsSigned
<1> QED BY <1>1, EvidenceInductive, PTL DEF EvidenceSpec

\* A receipt that verifies as approved has a quorum of approvals and one of
\* witnesses behind it, whatever documents it was put together from
\* (verify_witness_receipt).
THEOREM ReceiptsSound == EvidenceSpec => []ReceiptSound
<1>1. EvidenceInvariant => ReceiptSound
  BY SMTT(30) DEF EvidenceInvariant, VerifiedOK, SoundOK, Approving, ReceiptSound
<1> QED BY <1>1, EvidenceInductive, PTL DEF EvidenceSpec
=============================================================================
