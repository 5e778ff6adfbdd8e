--------------------------- MODULE WitnessService ---------------------------
(***************************************************************************)
(* The HTTP service around a witness, and around its external anchor: the  *)
(* gate that authenticates, limits the rate and hands out permits; the     *)
(* handler that reads a body, submits a command and waits; the bounded     *)
(* queue and the one thread that owns the state; readiness probes; the end *)
(* of a call by an answer, by its timeout or by a caller that goes away;   *)
(* and a graceful shutdown.  What the command does to the state is modules *)
(* WitnessEngine and WitnessAnchoring; here it takes effect, or fails.     *)
(*                                                                         *)
(* Times are what is left of them, so that no clock has to be bounded.     *)
(***************************************************************************)
EXTENDS Integers, Sequences, FiniteSets

CONSTANTS Calls, CallScenes,     \* the calls of a scene come in at most once
          Peers, PeerOf,
          KindOf,            \* "mutation", "ready" or "live"
          MaximumConcurrency, RequestsPerTick, BurstRequests,
          MaxRateKeys, IdleLimit,
          RequestTimeout, ShutdownGraces   \* the graces that are tried

VARIABLES stage,       \* new, reading, waiting, done
          left,        \* what is left of the call's deadline
          reply,       \* what the worker sent into the call's channel
          told,        \* what the caller got
          buckets,     \* tokens and idle time of the peers that have one
          permits,     \* free permits of the semaphore
          lease,       \* the call that holds the readiness lease
          lastReady,
          queue, running, alive,   \* the worker
          performed,   \* the calls whose command took effect
          status,      \* serving, draining, stopping, stopped
          grace,       \* what is left of the shutdown grace
          late         \* calls that came over an open connection after the signal

gate == <<buckets, permits>>
worker == <<queue, running, alive, performed>>
serviceVars == <<stage, left, reply, told, gate, lease, lastReady, worker, status,
                 grace, late>>

None == "none"

\* Finitely many calls, and times in whole ticks.
ASSUME ServiceConstants ==
  /\ IsFiniteSet(Calls) /\ None \notin Calls
  /\ MaximumConcurrency \in Nat /\ RequestTimeout \in Nat
  /\ ShutdownGraces \subseteq Nat

(***************************************************************************)
(* validate_limits refuses any other configuration.                        *)
(***************************************************************************)
ValidateLimits == /\ MaximumConcurrency >= 1
                  /\ RequestsPerTick >= 1 /\ BurstRequests >= RequestsPerTick
                  /\ grace >= RequestTimeout

Start(S, t) ==
  /\ stage = [c \in Calls |-> IF c \in S THEN "new" ELSE "done"]
  /\ left = [c \in Calls |-> RequestTimeout]
  /\ reply = [c \in Calls |-> None]
  /\ told = [c \in Calls |-> None]
  /\ buckets = <<>> /\ permits = MaximumConcurrency
  /\ lease = None /\ lastReady = FALSE
  /\ queue = <<>> /\ running = None /\ alive = TRUE /\ performed = {}
  /\ grace = t /\ late = {}
  /\ status = IF ValidateLimits THEN "serving" ELSE "stopped"

ServiceInit == \E S \in CallScenes, t \in ShutdownGraces : Start(S, t)

-----------------------------------------------------------------------------
(***************************************************************************)
(* The gate.                                                               *)
(***************************************************************************)
Known(p) == p \in DOMAIN buckets

\* A full table of rate keys first forgets the peers that were idle.
Retained(p) ==
  IF Known(p) \/ Cardinality(DOMAIN buckets) < MaxRateKeys THEN DOMAIN buckets
  ELSE {q \in DOMAIN buckets : buckets[q].idle < IdleLimit}

HasRoom(p) == Known(p) \/ Cardinality(Retained(p)) < MaxRateKeys

Tokens(p) == IF Known(p) THEN buckets[p].tokens ELSE BurstRequests

Allowed(p) == HasRoom(p) /\ Tokens(p) >= 1

Allow(p) ==
  buckets' = [q \in Retained(p) \union (IF HasRoom(p) THEN {p} ELSE {}) |->
                IF q = p THEN [tokens |-> IF Allowed(p) THEN Tokens(p) - 1 ELSE Tokens(p),
                               idle |-> 0]
                ELSE buckets[q]]

Refuse(c, why) == /\ stage' = [stage EXCEPT ![c] = "done"]
                  /\ told' = [told EXCEPT ![c] = why]

\* An open connection may bring one more call after the signal.
Arrives(c) == stage[c] = "new" /\ status \in {"serving", "draining"}

\* The credential is compared before the call costs anything.
Unauthorized(c) ==
  /\ Arrives(c) /\ KindOf[c] = "mutation"
  /\ Refuse(c, "unauthorized")
  /\ UNCHANGED <<left, reply, gate, lease, lastReady, worker, status, grace, late>>

RateLimited(c) ==
  /\ Arrives(c)
  /\ Allow(PeerOf[c])
  /\ ~Allowed(PeerOf[c]) \/ permits = 0
  /\ Refuse(c, "rate-limited")
  /\ UNCHANGED <<left, reply, permits, lease, lastReady, worker, status, grace, late>>

Admit(c) ==
  /\ Arrives(c)
  /\ Allow(PeerOf[c]) /\ Allowed(PeerOf[c])
  /\ permits > 0 /\ permits' = permits - 1
  /\ stage' = [stage EXCEPT ![c] = "reading"]
  /\ late' = IF status = "draining" THEN late \union {c} ELSE late
  /\ UNCHANGED <<left, reply, told, lease, lastReady, worker, status, grace>>

-----------------------------------------------------------------------------
(***************************************************************************)
(* The handler.  A call that ends gives its permit and its lease back.     *)
(***************************************************************************)
MutReleaseLease(c) == lease' = lease

ReleaseLease(c) == lease' = IF lease = c THEN None ELSE lease

End(c, why) == /\ Refuse(c, why)
               /\ permits' = permits + 1
               /\ reply' = [reply EXCEPT ![c] = None]
               /\ ReleaseLease(c)
               /\ UNCHANGED <<left, buckets, status, grace, late>>

Underway(c) == stage[c] \in {"reading", "waiting"}

\* A body that does not parse, a live probe, or a probe beside another one.
AnswerAtOnce(c) ==
  /\ stage[c] = "reading"
  /\ \/ KindOf[c] = "mutation" /\ End(c, "invalid-request")
     \/ KindOf[c] = "live" /\ End(c, "live")
     \/ KindOf[c] = "ready" /\ lease # None
        /\ End(c, IF lastReady THEN "ready" ELSE "not-ready")
  /\ UNCHANGED <<lastReady, worker>>

\* Why submit refuses a command, if it does.
Refused(c) == IF left[c] = 0 THEN "expired"
              ELSE IF ~alive THEN "internal"
              ELSE IF Len(queue) >= MaximumConcurrency THEN "unavailable" ELSE None

\* The readiness lease is taken first, and a refused submission ends it.
MayProbe(c) == KindOf[c] = "ready" => lease = None

Finished(c, ok) == lastReady' = IF lease = c THEN ok ELSE lastReady

SubmitRefused(c) ==
  /\ stage[c] = "reading" /\ KindOf[c] # "live" /\ MayProbe(c)
  /\ Refused(c) # None
  /\ End(c, Refused(c))
  /\ lastReady' = IF KindOf[c] = "ready" THEN FALSE ELSE lastReady
  /\ UNCHANGED worker

Submit(c) ==
  /\ stage[c] = "reading" /\ KindOf[c] # "live" /\ MayProbe(c)
  /\ Refused(c) = None
  /\ stage' = [stage EXCEPT ![c] = "waiting"]
  /\ lease' = IF KindOf[c] = "ready" THEN c ELSE lease
  /\ queue' = Append(queue, c)
  /\ UNCHANGED <<left, reply, told, gate, lastReady, running, alive, performed,
                 status, grace, late>>

Respond(c) ==
  /\ stage[c] = "waiting" /\ reply[c] # None
  /\ Finished(c, reply[c] = "ok")
  /\ End(c, reply[c])
  /\ UNCHANGED worker

\* The timeout covers the wait for the worker only.
MutTimeout(c) == /\ stage[c] = "waiting" /\ left[c] = 0
                 /\ End(c, "timeout")
                 /\ UNCHANGED <<lastReady, worker>>

\* The timeout, or a caller that goes away, drops the handler where it is.
Timeout(c) == /\ Underway(c) /\ left[c] = 0
              /\ End(c, "timeout")
              /\ UNCHANGED <<lastReady, worker>>

Disconnect(c) == /\ Underway(c) /\ End(c, "gone")
                 /\ UNCHANGED <<lastReady, worker>>

-----------------------------------------------------------------------------
(***************************************************************************)
(* The state worker: StateWorker::spawn with the two dispatch functions.   *)
(***************************************************************************)
Deserted(c) == stage[c] # "waiting"

\* A command whose response channel is closed is skipped.
Take == /\ alive /\ running = None /\ queue # <<>>
        /\ queue' = Tail(queue)
        /\ running' = IF Deserted(Head(queue)) THEN None ELSE Head(queue)
        /\ UNCHANGED <<stage, left, reply, told, gate, lease, lastReady, alive,
                       performed, status, grace, late>>

Send(c, r) == /\ reply' = IF stage[c] = "waiting" THEN [reply EXCEPT ![c] = r] ELSE reply
              /\ running' = None
              /\ UNCHANGED <<stage, left, told, gate, lease, lastReady, queue,
                             alive, status, grace, late>>

\* ensure_remaining, before the store is opened and after every step.
Expire == /\ running # None /\ left[running] = 0
          /\ Send(running, "expired") /\ UNCHANGED performed

Effected == IF KindOf[running] = "mutation"
            THEN performed \union {running} ELSE performed

\* A command may fail before its commit or after it.
CommandFails == /\ running # None
                /\ Send(running, "unavailable")
                /\ performed' \in {performed, Effected}

\* The last test of the deadline precedes the commit, which may be slow.
Perform == /\ running # None
           /\ Send(running, "ok")
           /\ performed' = Effected

\* The thread dies, and with it the senders of every queued command.
Dropped(S) == [c \in Calls |-> IF c \in S /\ stage[c] = "waiting" /\ reply[c] = None
                               THEN "internal" ELSE reply[c]]

Queued == {queue[i] : i \in DOMAIN queue}

Panic == /\ alive /\ running # None
         /\ alive' = FALSE /\ running' = None /\ queue' = <<>>
         /\ reply' = Dropped(Queued \union {running})
         /\ performed' \in {performed, Effected}
         /\ UNCHANGED <<stage, left, told, gate, lease, lastReady,
                        status, grace, late>>

-----------------------------------------------------------------------------
(***************************************************************************)
(* Shutdown.  The listener closes; open connections have until the end of  *)
(* the grace; then the worker ends what it is doing and is joined.         *)
(***************************************************************************)
Signal == /\ status = "serving" /\ status' = "draining"
          /\ UNCHANGED <<stage, left, reply, told, gate, lease, lastReady,
                         worker, grace, late>>

OpenCalls == {c \in Calls : Underway(c)}

ServeReturns ==
  /\ status = "draining"
  /\ \/ OpenCalls = {}
     \/ grace = 0 /\ \A c \in OpenCalls : left[c] > 0
  /\ status' = "stopping"
  /\ stage' = [c \in Calls |-> IF Underway(c) THEN "done" ELSE stage[c]]
  /\ told' = [c \in Calls |-> IF Underway(c) THEN "dropped" ELSE told[c]]
  /\ permits' = MaximumConcurrency /\ lease' = None
  /\ UNCHANGED <<left, reply, buckets, lastReady, worker, grace, late>>

Join == /\ status = "stopping" /\ running = None
        /\ status' = "stopped" /\ alive' = FALSE /\ queue' = <<>>
        /\ UNCHANGED <<stage, left, reply, told, gate, lease, lastReady,
                       running, performed, grace, late>>

-----------------------------------------------------------------------------
\* Timers that are due fire before time goes on.
Due == (\E c \in OpenCalls : left[c] = 0) \/ (status = "draining" /\ grace = 0)

Minus(t) == IF t > 0 THEN t - 1 ELSE 0
Least(a, b) == IF a < b THEN a ELSE b

TimersTick == /\ status \in {"serving", "draining"} /\ ~Due
              /\ left' = [c \in Calls |-> IF Underway(c) \/ c \in Queued \union {running}
                                          THEN Minus(left[c]) ELSE RequestTimeout]
              /\ buckets' = [p \in DOMAIN buckets |->
                   [tokens |-> Least(buckets[p].tokens + RequestsPerTick, BurstRequests),
                    idle |-> Least(buckets[p].idle + 1, IdleLimit)]]
              /\ grace' = IF status = "draining" THEN Minus(grace) ELSE grace
              /\ UNCHANGED <<stage, reply, told, permits, lease, lastReady, worker, status, late>>

Handler(c) == \/ AnswerAtOnce(c) \/ SubmitRefused(c) \/ Submit(c)
              \/ Respond(c) \/ Timeout(c)

Work == Take \/ Expire \/ CommandFails \/ Perform

ServiceNext == \/ \E c \in Calls : \/ Unauthorized(c) \/ RateLimited(c) \/ Admit(c)
                                   \/ Handler(c) \/ Disconnect(c)
               \/ Work \/ Panic
               \/ Signal \/ ServeReturns \/ Join \/ TimersTick

ServiceSpec == ServiceInit /\ [][ServiceNext]_serviceVars

-----------------------------------------------------------------------------
(***************************************************************************)
(* A caller that is told its call was refused (by the gate, by a full      *)
(* queue, by an expired budget) may send it again elsewhere: its command   *)
(* has not taken effect and never will (admit, submit, ensure_remaining).  *)
(***************************************************************************)
RefusedNeverRuns ==
  \A c \in Calls :
    told[c] \in {"unauthorized", "rate-limited", "invalid-request", "expired"}
      => c \notin performed /\ c # running /\ c \notin Queued

(***************************************************************************)
(* Permits and the readiness lease belong to open calls whichever way a    *)
(* call ends (the drops of the permit and of ReadinessLease), "concurrent  *)
(* readiness probes are single-flighted" (self-hosting-juryd.md), and the  *)
(* queue, as long as the semaphore, is full only because of callers that   *)
(* left.                                                                   *)
(***************************************************************************)
NothingLeaks ==
  /\ permits + Cardinality(OpenCalls) = MaximumConcurrency
  /\ lease # None => stage[lease] = "waiting"
  /\ Cardinality({c \in Calls : KindOf[c] = "ready" /\ stage[c] = "waiting"}) <= 1
  /\ Len(queue) <= MaximumConcurrency
  /\ (Len(queue) = MaximumConcurrency /\ \E c \in Calls : stage[c] = "reading")
       => \E c \in Queued : Deserted(c)

(***************************************************************************)
(* "shutdown_grace_ms must be at least request_timeout_ms, so accepted     *)
(* work cannot extend shutdown" (self-hosting-juryd.md): the end of the    *)
(* grace cuts off no call that was accepted before the signal, and once    *)
(* the worker is joined nothing more takes effect.                         *)
(***************************************************************************)
GraceCoversWork ==
  /\ \A c \in Calls \ late : told[c] # "dropped"
  /\ status = "stopped" => running = None /\ queue = <<>> /\ OpenCalls = {}

(***************************************************************************)
(* The service keeps its account: the three together, of the admit,        *)
(* submit, StateWorker and serve functions of juryd.                       *)
(***************************************************************************)
ServiceAccounts == RefusedNeverRuns /\ NothingLeaks /\ GraceCoversWork
=============================================================================
