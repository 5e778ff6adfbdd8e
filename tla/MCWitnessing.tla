----------------------------- MODULE MCWitnessing -----------------------------
(***************************************************************************)
(* Both ends of a witnessed opening and what lies behind it: the command   *)
(* that asks the witnesses, the service that takes its calls, and the      *)
(* publication of the witness's state against the external anchor.  The    *)
(* models meet only in the answers: in a behaviour one of them runs, and   *)
(* the others rest in an initial state.                                    *)
(***************************************************************************)
EXTENDS WitnessedAccess, WitnessService, TLC

CONSTANTS a1, a2,                                         \* approvers
          m1, m2, r1, r2, l1, peer1, peer2,               \* calls and their peers
          op1, op2, p1, p2, f1, f2,                       \* operations, processes, files
          Ops, Query, Procs, Copies, Original, FileOf, MaxGen, MaxBackups,
          MaxFaults                                       \* bound on the failures of a behaviour

VARIABLES part,
          db, copies, backups, ext, swaps, ppc, want, st, committed, mine, since, released,
          faults                                          \* failures so far

Anchoring == INSTANCE WitnessAnchoring WITH files <- copies, pc <- ppc, late <- swaps

-------------------------------------------------------------------------------
(* Two of three witnesses and one of two approvers, one of whom may decide *)
(* twice.  Each plan lets other parties interfere.                         *)

MCPaths == 1 .. 3
MCApproverOf == [p \in MCPaths |-> IF p = 2 THEN a2 ELSE a1]

Plan(damaged, expiring, paths, advancing, cancelling) ==
  [last |-> 1, until |-> 3, deadline |-> 5, damaged |-> damaged,
   expiring |-> expiring, paths |-> paths, advancing |-> advancing,
   cancelling |-> cancelling]

\* A cancellation while the request is in force.
Cancelled == [Plan({}, {}, {1}, {}, TRUE) EXCEPT !.until = 2]

\* An owner change: two contents, under a deadline before the requests expire.
Batch == [Plan({}, {}, {1}, {}, FALSE) EXCEPT !.last = 2, !.deadline = 3]

MCPlans == {Cancelled, Batch, Plan({1}, {2}, {2}, {3}, FALSE),
            Plan({2}, {}, {1, 3}, {}, FALSE)}

(* Up to three calls of two peers against two permits and a queue of two. *)

MCCalls == {m1, m2, r1, r2, l1}
MCPeerOf == [c \in MCCalls |-> IF c \in {m1, r2} THEN peer1 ELSE peer2]
MCKindOf == [c \in MCCalls |-> IF c \in {m1, m2} THEN "mutation"
                               ELSE IF c = l1 THEN "live" ELSE "ready"]
MCScenes == {{m1, m2, r1}, {r1, r2}, {m2, l1}}

(* Two processes, each with a file of its own. *)

TwoFiles == p1 :> f1 @@ p2 :> f2

-------------------------------------------------------------------------------
anchorVars == <<db, copies, backups, ext, swaps, ppc, want, st, committed, mine, since, released, faults>>

Parts == {"access", "service", "anchoring"}

WitnessingInit ==
  /\ part \in Parts
  /\ IF part = "access" THEN Init ELSE plan = Cancelled /\ Init
  /\ IF part = "service" THEN ServiceInit
     ELSE Start({}, RequestTimeout)
  /\ Anchoring!Init /\ faults = 0

AnchoringNext ==
  \/ \E p \in Procs : Anchoring!Advance(p) /\ UNCHANGED faults
  \/ \E p \in Procs, op \in Ops \cup {Query} : Anchoring!Begin(p, op) /\ UNCHANGED faults
  \/ faults < MaxFaults /\ faults' = faults + 1 /\ \E p \in Procs : Anchoring!Fail(p)
  \/ \E swap \in swaps : Anchoring!LateCas(swap) /\ UNCHANGED faults
  \/ \E c \in Copies : (Anchoring!Backup(c) \/ Anchoring!Restore(c)) /\ UNCHANGED faults

WitnessingNext ==
  \/ part = "access" /\ Next /\ UNCHANGED <<part, serviceVars, anchorVars>>
  \/ part = "service" /\ ServiceNext /\ UNCHANGED <<part, vars, anchorVars>>
  \/ part = "anchoring" /\ AnchoringNext /\ UNCHANGED <<part, vars, serviceVars>>

\* The opening command and its clock run, and the timers of the service (not
\* its worker); and a process that publishes goes on: after the last failure
\* its calls run to their end, and the readiness probe, a Query, starts more.
Fairness ==
  /\ WF_vars(part = "access" /\ Command) /\ WF_vars(part = "access" /\ Tick)
  /\ WF_serviceVars(part = "service" /\ TimersTick)
  /\ WF_serviceVars(part = "service" /\ ServeReturns)
  /\ \A c \in Calls : WF_serviceVars(part = "service" /\ Timeout(c))
  /\ \A p \in Procs :
       WF_anchorVars(/\ part = "anchoring"
                     /\ Anchoring!Begin(p, Query) \/ Anchoring!Advance(p)
                     /\ UNCHANGED faults)

WitnessingSpec ==
  WitnessingInit /\ [][WitnessingNext]_<<part, vars, serviceVars, anchorVars>> /\ Fairness

-------------------------------------------------------------------------------
Waiting ==
  CASE part = "access" -> pc \notin {"done", "failed"}
    [] part = "service" -> OpenCalls # {}
    [] part = "anchoring" -> \E c \in Copies : ~Anchoring!Resolved(c)

\* Whoever waits does not wait for ever: the command ends although witnesses
\* and approvers may never answer, a call ends although the worker may hang or
\* die, and a committed state is acknowledged by the anchor or superseded for
\* good (access_revision, TimeoutLayer, publish_pending).
WaitingEnds == []<>~Waiting
===============================================================================
