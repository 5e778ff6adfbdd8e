--------------------------- MODULE WitnessAnchoring ---------------------------
(***************************************************************************)
(* How a witness service (juryd) makes a state change durable, publishes   *)
(* it to the external anchor and only then answers.  A database file holds *)
(* the logical state, the anchor known to be published and at most one     *)
(* pending candidate.  Processes share a file, files can be copied by      *)
(* backup and restore, a process can stop or lose its anchor connection    *)
(* between any two steps, and an unanswered compare-and-swap can still be  *)
(* applied later.                                                          *)
(*                                                                         *)
(* The logical state is the sequence of operations that produced it, its   *)
(* generation the length of that sequence, and a digest of it the sequence *)
(* itself.                                                                 *)
(***************************************************************************)
EXTENDS Naturals, Sequences, FiniteSets

CONSTANTS Ops,                \* operations that change the logical state
          Query,              \* an operation that changes nothing
          Procs,              \* processes running the witness engine
          Copies,             \* database files of this witness
          Original,           \* the file that exists from the start
          FileOf,             \* the file each process opens
          MaxGen,             \* bound on state_generation
          MaxBackups          \* bound on the number of backups taken

ASSUME QueryAssumption == Query \notin Ops
ASSUME OriginalAssumption == Original \in Copies
ASSUME FileOfAssumption == FileOf \in [Procs -> Copies]
ASSUME MaxGenAssumption == MaxGen \in Nat
ASSUME MaxBackupsAssumption == MaxBackups \in Nat

VARIABLES db,                 \* PersistedWitnessState of each file
          files,              \* the files that exist
          backups,            \* the backups taken
          ext,                \* the external anchor
          late,               \* compare-and-swap calls nobody waits for
          pc,                 \* next step of each process
          want,               \* the operation each process is executing
          st,                 \* the state each process last loaded
          committed,          \* has the process committed its operation?
          mine,               \* the history the process's answer is about
          since,              \* the anchored history when its call began
          released            \* the histories answers were given about

vars == <<db, files, backups, ext, late, pc, want, st, committed, mine, since, released>>

Anchor == [state_generation : Nat, database_state : Seq(Ops), predecessor : Seq(Ops)]

Stored == [log : Seq(Ops), published_anchor : Anchor, pending_anchor : Anchor]

\* Option::None of an anchor.  Its digest is ZERO_DIGEST.
None == [state_generation |-> 0, database_state |-> <<>>, predecessor |-> <<>>]

Digest(anchor) == anchor.database_state

Empty == [log |-> <<>>, published_anchor |-> None, pending_anchor |-> None]

Steps == {"idle", "load", "equality", "read", "cas", "observe", "readback",
          "mark", "reload", "ready", "commit", "answer"}

Prefix(s, t) == Len(s) <= Len(t) /\ \A i \in 1..Len(s) : s[i] = t[i]

-------------------------------------------------------------------------------

Init == /\ db = [c \in Copies |-> Empty]
        /\ files = {Original}
        /\ backups = {}
        /\ ext = None
        /\ late = {}
        /\ pc = [p \in Procs |-> "idle"]
        /\ want = [p \in Procs |-> Query]
        /\ st = [p \in Procs |-> Empty]
        /\ committed = [p \in Procs |-> FALSE]
        /\ mine = [p \in Procs |-> <<>>]
        /\ since = [p \in Procs |-> <<>>]
        /\ released = {}

\* The call of p ends and its local state is gone: a returned error or a crash.
Finish(p) == /\ pc' = [pc EXCEPT ![p] = "idle"]
             /\ want' = [want EXCEPT ![p] = Query]
             /\ st' = [st EXCEPT ![p] = Empty]
             /\ committed' = [committed EXCEPT ![p] = FALSE]
             /\ mine' = [mine EXCEPT ![p] = <<>>]
             /\ since' = [since EXCEPT ![p] = <<>>]

Refuse(p) == Finish(p) /\ UNCHANGED <<db, files, backups, ext, late, released>>

\* Nothing p loaded is looked at again.
Forget(p) == st' = [st EXCEPT ![p] = Empty]

Goto(p, step) == /\ pc' = [pc EXCEPT ![p] = step]
                 /\ UNCHANGED <<files, backups, want, committed, mine, since, released>>

\* A request reaches an engine: it starts with ready_state.
Begin(p, op) == /\ pc[p] = "idle"
                /\ FileOf[p] \in files
                /\ pc' = [pc EXCEPT ![p] = "load"]
                /\ want' = [want EXCEPT ![p] = op]
                /\ since' = [since EXCEPT ![p] = ext.database_state]
                /\ UNCHANGED <<db, files, backups, ext, late, st, committed, mine, released>>

\* ready_state: load the file; publish its candidate or require equality.
Load(p) == /\ pc[p] = "load"
           /\ st' = [st EXCEPT ![p] = db[FileOf[p]]]
           /\ Goto(p, IF db[FileOf[p]].pending_anchor # None THEN "read" ELSE "equality")
           /\ UNCHANGED <<db, ext, late>>

\* Mutant: trusts the file's own marker without comparing the external anchor.
MutPublishedEquality(state) == state.published_anchor.database_state = state.log

\* The loaded state is exactly the one the external anchor binds.
PublishedEquality(state) ==
    /\ state.published_anchor = ext
    /\ state.published_anchor.state_generation = Len(state.log)
    /\ state.published_anchor.database_state = state.log

RequirePublishedEquality(p) ==
    /\ pc[p] = "equality"
    /\ IF PublishedEquality(st[p])
       THEN Goto(p, "reload") /\ Forget(p) /\ UNCHANGED <<db, ext, late>>
       ELSE Refuse(p)

\* The candidate describes the loaded state and succeeds its published anchor.
CandidateFits(state) ==
    /\ state.pending_anchor.state_generation = Len(state.log)
    /\ state.pending_anchor.database_state = state.log
    /\ state.pending_anchor.predecessor = Digest(state.published_anchor)

\* publish_pending up to its first look at the external anchor.
ReadExternal(p) ==
    /\ pc[p] = "read"
    /\ LET state == st[p]
       IN  IF ~CandidateFits(state)
           THEN Refuse(p)
           ELSE IF ext = state.pending_anchor
           THEN Goto(p, "mark") /\ UNCHANGED <<db, ext, late, st>>
           ELSE IF ext = state.published_anchor
           THEN Goto(p, "cas") /\ UNCHANGED <<db, ext, late, st>>
           ELSE Refuse(p)

Swap(expected, candidate) == [expected |-> expected, candidate |-> candidate]

\* The anchor service replaces its anchor only by the next generation.
Applies(swap) == \/ ext = swap.candidate
                 \/ /\ Digest(ext) = Digest(swap.expected)
                    /\ swap.candidate.predecessor = Digest(swap.expected)
                    /\ swap.candidate.state_generation = ext.state_generation + 1

CompareAndSwap(swap) == ext' = IF Applies(swap) THEN swap.candidate ELSE ext

SwapOf(p) == Swap(st[p].published_anchor, st[p].pending_anchor)

\* The service answers: applied, or conflict.
CasAnswered(p) == /\ pc[p] = "cas"
                  /\ CompareAndSwap(SwapOf(p))
                  /\ Goto(p, IF Applies(SwapOf(p)) THEN "readback" ELSE "observe")
                  /\ UNCHANGED <<db, late, st>>

\* The caller gives up (timeout, lost answer, crash); the call stays under way.
CasUnanswered(p) == /\ pc[p] = "cas"
                    /\ late' = late \cup {SwapOf(p)}
                    /\ Finish(p)
                    /\ UNCHANGED <<db, files, backups, ext, released>>

\* The service serves a call whose caller is gone.
LateCas(swap) == /\ CompareAndSwap(swap)
                 /\ late' = late \ {swap}
                 /\ UNCHANGED <<db, files, backups, pc, want, st, committed, mine, since, released>>

\* After a conflict: only the exact candidate is good enough.
Observe(p) == /\ pc[p] = "observe"
              /\ IF ext = st[p].pending_anchor
                 THEN Goto(p, "readback") /\ UNCHANGED <<db, ext, late, st>>
                 ELSE Refuse(p)

Readback(p) == /\ pc[p] = "readback"
               /\ IF ext = st[p].pending_anchor
                  THEN Goto(p, "mark") /\ UNCHANGED <<db, ext, late, st>>
                  ELSE Refuse(p)

\* mark_anchor_published: only if the file still holds this very candidate.
MarkPublished(p) ==
    /\ pc[p] = "mark"
    /\ LET file == FileOf[p]
           candidate == st[p].pending_anchor
       IN  IF /\ db[file].pending_anchor # None
              /\ Digest(db[file].pending_anchor) = Digest(candidate)
           THEN /\ db' = [db EXCEPT ![file].published_anchor = db[file].pending_anchor,
                                    ![file].pending_anchor = None]
                /\ Goto(p, "reload")
                /\ Forget(p)
                /\ UNCHANGED <<ext, late>>
           ELSE Refuse(p)

\* ready_state loads once more and wants no candidate left.
Reload(p) == /\ pc[p] = "reload"
             /\ IF db[FileOf[p]].pending_anchor # None
                THEN Refuse(p)
                ELSE /\ st' = [st EXCEPT ![p] = db[FileOf[p]]]
                     /\ Goto(p, "ready")
                     /\ UNCHANGED <<db, ext, late>>

\* The end of ready_state: go on to the commit, or build the response.
Ready(p) == /\ pc[p] = "ready"
            /\ IF ~PublishedEquality(st[p])
               THEN Refuse(p)
               ELSE IF want[p] \in Ops /\ ~committed[p]
               THEN Goto(p, "commit") /\ UNCHANGED <<db, ext, late, st>>
               ELSE /\ pc' = [pc EXCEPT ![p] = "answer"]
                    /\ mine' = [mine EXCEPT ![p] = IF committed[p] THEN @ ELSE st[p].log]
                    /\ Forget(p)
                    /\ UNCHANGED <<db, files, backups, ext, late, want, committed, since, released>>

\* The response leaves the service.
Release(p) == /\ pc[p] = "answer"
              /\ released' = released \cup {mine[p]}
              /\ Finish(p)
              /\ UNCHANGED <<db, files, backups, ext, late>>

\* build_anchor: the candidate for the loaded state with op applied.
BuildAnchor(state, op) ==
    [state_generation |-> Len(state.log) + 1,
     database_state   |-> Append(state.log, op),
     predecessor      |-> Digest(state.published_anchor)]

\* store.commit accepts a replacement only of the generation that was loaded.
StoreAccepts(file, expected_generation) ==
    /\ Len(db[file].log) = expected_generation
    /\ db[file].pending_anchor = None

\* Mutant: answers once the store has the new state, and publishes later.
MutCommit(p) ==
    /\ pc[p] = "commit"
    /\ LET file == FileOf[p]
           state == st[p]
           log == Append(state.log, want[p])
       IN  /\ Len(state.log) < MaxGen
           /\ StoreAccepts(file, Len(state.log))
           /\ db' = [db EXCEPT ![file] = [log |-> log,
                                         published_anchor |-> state.published_anchor,
                                         pending_anchor |-> BuildAnchor(state, want[p])]]
           /\ pc' = [pc EXCEPT ![p] = "answer"]
           /\ mine' = [mine EXCEPT ![p] = log]
           /\ UNCHANGED <<files, backups, ext, late, want, st, committed, since, released>>

\* commit_and_publish: store the new state with its candidate, then ready_state.
Commit(p) ==
    /\ pc[p] = "commit"
    /\ LET file == FileOf[p]
           state == st[p]
       IN  IF Len(state.log) < MaxGen /\ StoreAccepts(file, Len(state.log))
           THEN /\ db' = [db EXCEPT ![file] =
                           [log |-> Append(state.log, want[p]),
                            published_anchor |-> state.published_anchor,
                            pending_anchor |-> BuildAnchor(state, want[p])]]
                /\ pc' = [pc EXCEPT ![p] = "load"]
                /\ committed' = [committed EXCEPT ![p] = TRUE]
                /\ mine' = [mine EXCEPT ![p] = Append(state.log, want[p])]
                /\ Forget(p)
                /\ UNCHANGED <<files, backups, ext, late, want, since, released>>
           ELSE Refuse(p)

\* A crash, an unreachable anchor, a busy store or a passed deadline.
Abort(p) == pc[p] # "idle" /\ Refuse(p)

Backup(c) == /\ c \in files
             /\ Cardinality(backups) < MaxBackups
             /\ backups' = backups \cup {db[c]}
             /\ UNCHANGED <<db, files, ext, late, pc, want, st, committed, mine, since, released>>

\* A backup is restored, always into a file that does not exist yet.
Restore(c) == /\ c \in Copies \ files
              /\ \E b \in backups : db' = [db EXCEPT ![c] = b]
              /\ files' = files \cup {c}
              /\ UNCHANGED <<backups, ext, late, pc, want, st, committed, mine, since, released>>

\* The steps of a call that is under way and meets no failure.
Advance(p) == \/ Load(p) \/ RequirePublishedEquality(p) \/ ReadExternal(p)
              \/ CasAnswered(p) \/ Observe(p) \/ Readback(p)
              \/ MarkPublished(p) \/ Reload(p) \/ Ready(p) \/ Commit(p) \/ Release(p)

Fail(p) == CasUnanswered(p) \/ Abort(p)

Next == \/ \E p \in Procs : \/ \E op \in Ops \cup {Query} : Begin(p, op)
                          \/ Advance(p)
                          \/ Fail(p)
        \/ \E swap \in late : LateCas(swap)
        \/ \E c \in Copies : Backup(c) \/ Restore(c)

Spec == Init /\ [][Next]_vars

-------------------------------------------------------------------------------

(* Every variable has the shape the store, the anchor service and the       *)
(* engine's locals have (PersistedWitnessState, WitnessStateAnchorV1).      *)
TypeOK == /\ db \in [Copies -> Stored]
          /\ files \subseteq Copies
          /\ backups \subseteq Stored
          /\ ext \in Anchor
          /\ late \subseteq [expected : Anchor, candidate : Anchor]
          /\ pc \in [Procs -> Steps]
          /\ want \in [Procs -> Ops \cup {Query}]
          /\ st \in [Procs -> Stored]
          /\ committed \in [Procs -> BOOLEAN]
          /\ mine \in [Procs -> Seq(Ops)]
          /\ since \in [Procs -> Seq(Ops)]
          /\ released \subseteq Seq(Ops)

(* commit_and_publish and ready_state let an answer out only when the       *)
(* history it is about is part of what the external anchor binds, whatever  *)
(* crashed, timed out, was restored or was applied late before.             *)
ReleasedAnchored == \A h \in released : Prefix(h, ext.database_state)

(* Two answers never tell of diverging histories, even when they come from  *)
(* different copies of the database: one history is part of the other.      *)
ReleasedLinear == \A g, h \in released : Prefix(g, h) \/ Prefix(h, g)

(* An answer is never older than its question: it is about a history that   *)
(* includes everything anchored when its call began, so a stale copy of the *)
(* database never answers from the past (require_published_equality).       *)
AnswersCurrent == \A p \in Procs : pc[p] = "answer" => Prefix(since[p], mine[p])

(* Whatever crashes, some file can still go on: the external anchor is its  *)
(* published anchor or its pending candidate, which are the two cases       *)
(* ready_state can serve or reconcile.  With one file, that file is it.     *)
SomeFileServes ==
    \E c \in files : ext \in {db[c].published_anchor, db[c].pending_anchor}

(* The anchor service moves its anchor by exactly one operation at a time,  *)
(* never back and never sideways (compare_and_swap_with_deadline).          *)
AnchorAdvancesByOne ==
    [][ext' # ext => \E op \in Ops : ext'.database_state = Append(ext.database_state, op)]_vars

(* Two processes on one file never overwrite each other's committed         *)
(* operation: the stored history of a file only grows (store.commit).       *)
NoLostUpdate ==
    [][\A c \in files : Prefix(db[c].log, db'[c].log)]_vars

(* A candidate that was committed is acknowledged in its file, or another   *)
(* copy of the database won the anchor and this file can never serve again  *)
(* (publish_pending, called by every ready_state).                          *)
Superseded(c) == ext \notin {db[c].published_anchor, db[c].pending_anchor}

Resolved(c) == db[c].pending_anchor = None \/ Superseded(c)

(* The whole protocol implements one growing history with answers about     *)
(* parts of it: the external anchor's database state is that history.       *)
Abstract == INSTANCE AnchoredLog WITH history <- ext.database_state, answered <- released

ImplementsAnchoredLog == Abstract!Spec
===============================================================================
