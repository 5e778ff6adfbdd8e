--------------------------- MODULE EndpointProofs ---------------------------
(***************************************************************************)
(* Proofs about the work of an endpoint: the session in which a principal  *)
(* opens items, the process that gets their values, and the exports of a   *)
(* vault with their receipts.                                              *)
(***************************************************************************)
EXTENDS AccessSession, OwnedProcess, LocalExports, TLAPS

-----------------------------------------------------------------------------
(***************************************************************************)
(* Sessions, for every vault, every set of bindings, every limit and every *)
(* behaviour of the caller's clock.                                        *)
(***************************************************************************)
Terminal == Statuses \cup {"Failed", "Locked"}

HeldItems == DOMAIN SessionItems

\* A session that was started.
Sessions ==
    [phase : Operable \cup Terminal, version : Int, started : Int, last : Int, absolute : Int,
     catalog : SUBSET HeldItems, bodies : SUBSET HeldItems, pending : Bindings \cup {None},
     active : {None} \cup [item : HeldItems, role : SessionRoles]]

\* What a session remembers of its times, that one which waits knows for
\* what, and that one which has ended holds nothing.
Sound(s) ==
    /\ s \in Sessions
    /\ s.absolute = s.started + SessionLifetime
    /\ s.started <= s.last
    /\ s.phase = "WitnessPending" => s.pending # None
    /\ s.phase \in Terminal =>
         s.catalog = {} /\ s.bodies = {} /\ s.pending = None /\ s.active = None

\* The release is in time.
Timely(r) ==
    r # None =>
      /\ r.at >= r.started /\ r.at < r.started + SessionLifetime
      /\ r.idle < Inactivity
      /\ r.binding # None =>
           /\ r.binding.notBefore <= r.at /\ r.at < r.binding.expires
           /\ r.binding.issued >= r.started

\* The inductive invariant.
SessionInvariant ==
    /\ now \in Int /\ version \in Int
    /\ session = NoSession \/ Sound(session)
    /\ Timely(release)

\* What a step adds to the invariant: a release while a request waits is of
\* that request.
PinnedStep ==
    session.phase = "WitnessPending" /\ release' # release =>
      /\ release'.authority = "witnessed"
      /\ release'.item = session.pending.item
      /\ release'.role = session.pending.role

\* The phases are told apart.
LEMMA PhasesApart ==
    /\ Operable \cap Terminal = {}
    /\ "Parsed" \notin Operable \cup Terminal
    /\ NoSession.phase = "Parsed"
BY DEF Operable, Terminal, Statuses, NoSession

\* A session that has a phase of a started one was started.
LEMMA StartedIsSound ==
    ASSUME session = NoSession \/ Sound(session), session.phase # "Parsed"
    PROVE  Sound(session)
BY PhasesApart

\* enter_terminal leaves a sound session.
LEMMA EndedSound ==
    ASSUME Sound(session), NEW phase \in Terminal
    PROVE  Sound(Ended(phase))
<1>1. Ended(phase) \in Sessions
  BY Zenon DEF Sound, Ended, Sessions
<1>2. /\ Ended(phase).phase = phase
      /\ Ended(phase).catalog = {} /\ Ended(phase).bodies = {}
      /\ Ended(phase).pending = None /\ Ended(phase).active = None
      /\ Ended(phase).absolute = session.absolute
      /\ Ended(phase).started = session.started
      /\ Ended(phase).last = session.last
  BY DEF Sound, Ended, Sessions
<1>3. phase # "WitnessPending"
  BY PhasesApart DEF Operable
<1> QED
  BY <1>1, <1>2, <1>3 DEF Sound

\* A live session is at a time within its limits.
LEMMA LiveInTime ==
    ASSUME now \in Int, session = NoSession \/ Sound(session), Live
    PROVE  /\ Sound(session)
           /\ session.started <= now /\ now < session.started + SessionLifetime
           /\ session.last <= now /\ now - session.last < Inactivity
<1>1. Sound(session)
  BY StartedIsSound, PhasesApart DEF Live
<1>2. session.started \in Int /\ session.last \in Int /\ session.absolute \in Int
  BY <1>1 DEF Sound, Sessions
<1>3. ~(now < session.last) /\ ~(now >= session.absolute \/ now - session.last >= Inactivity)
  BY DEF Live, Liveness
<1> QED
  BY <1>1, <1>2, <1>3, SessionAssumption DEF Sound

\* A completed access: it releases in time, and only what was pending.
LEMMA CompleteStep ==
    ASSUME SessionInvariant,
           NEW item \in HeldItems, NEW role \in SessionRoles, NEW b \in Bindings \cup {None},
           NEW authority \in {"direct", "witnessed"},
           AccessComplete(item, role, b, authority)
    PROVE  SessionInvariant' /\ PinnedStep
<1> USE DEF SessionInvariant
<1>1. Live /\ Pinned(b) /\ (b # None => BindingValid(b, item, role) /\ b.notBefore <= now)
  BY DEF AccessComplete, Asked, Admitted, Attempt
<1>2. /\ Sound(session)
      /\ session.started <= now /\ now < session.started + SessionLifetime
      /\ session.last <= now /\ now - session.last < Inactivity
  BY <1>1, LiveInTime
<1>3. now' = now /\ version' = version
  BY DEF AccessComplete
<1>4. CASE AuthorityMatches(authority, b)
  <2>1. PICK stays \in BOOLEAN :
          /\ session' = [session EXCEPT
                   !.pending = None, !.active = [item |-> item, role |-> role], !.last = now,
                   !.phase = IF authority = "direct" THEN "UnlockedItem" ELSE "Approved",
                   !.catalog = IF stays THEN @ \cup {item} ELSE @,
                   !.bodies = IF role = "body" THEN @ \cup {item} ELSE @]
          /\ release' = IF stays
                        THEN [item |-> item, role |-> role, authority |-> authority, binding |-> b, at |-> now,
                              idle |-> now - session.last, started |-> session.started]
                        ELSE release
    BY <1>4, Zenon DEF AccessComplete
  <2>2. session' \in Sessions
    BY <1>2, <2>1, ZenonT(30) DEF Sound, Sessions, Operable
  <2>3. /\ session'.phase \in {"UnlockedItem", "Approved"}
        /\ session'.absolute = session.absolute /\ session'.started = session.started
        /\ session'.last = now
    BY <1>2, <2>1 DEF Sound, Sessions
  <2>4. Sound(session')
    BY <1>2, <2>2, <2>3, PhasesApart DEF Sound, Operable
  <2>5. Timely(release')
    <3>1. CASE ~stays
      BY <2>1, <3>1
    <3>2. CASE stays
      <4>1. /\ release'.at = now /\ release'.started = session.started
            /\ release'.idle = now - session.last /\ release'.binding = b
        BY <2>1, <3>2
      <4>2. b # None => b.notBefore <= now /\ now < b.expires /\ session.started <= b.issued
        BY <1>1 DEF BindingValid
      <4> QED
        BY <1>2, <4>1, <4>2, SessionAssumption DEF Timely, Sound, Sessions
    <3> QED
      BY <3>1, <3>2
  <2>6. PinnedStep
    <3> SUFFICES ASSUME session.phase = "WitnessPending", release' # release
                 PROVE  /\ release'.authority = "witnessed"
                        /\ release'.item = session.pending.item
                        /\ release'.role = session.pending.role
      BY DEF PinnedStep
    <3>1. b = session.pending /\ b # None
      BY <1>1, <1>2 DEF Pinned, Sound
    <3>2. authority = "witnessed"
      BY <1>4, <3>1 DEF AuthorityMatches
    <3>3. b.item = item /\ b.role = role
      BY <1>1, <3>1 DEF BindingValid
    <3> QED
      BY <2>1, <3>1, <3>2, <3>3
  <2> QED
    BY <1>3, <2>4, <2>5, <2>6
<1>5. CASE ~AuthorityMatches(authority, b)
  <2>1. session' = Ended("Replay") /\ release' = release
    BY <1>5 DEF AccessComplete
  <2>2. Sound(session')
    BY <1>2, <2>1, EndedSound DEF Terminal, Statuses
  <2> QED
    BY <1>3, <2>1, <2>2 DEF PinnedStep
<1> QED
  BY <1>4, <1>5

\* Every other step keeps the invariant and releases nothing.
LEMMA QuietStep ==
    ASSUME SessionInvariant, UNCHANGED release, now' \in Int, version' \in Int,
           session' = session \/ Sound(session')
    PROVE  SessionInvariant' /\ PinnedStep
BY DEF SessionInvariant, PinnedStep

\* A step of any kind.
LEMMA SessionStep ==
    ASSUME SessionInvariant, [SessionNext]_sessionVars
    PROVE  SessionInvariant' /\ PinnedStep
<1> USE DEF SessionInvariant
<1>1. CASE UNCHANGED sessionVars
  BY <1>1, QuietStep DEF sessionVars
<1>2. CASE StartSession
  <2>1. session' \in Sessions /\ session'.phase = "Principal"
    BY <1>2, SessionAssumption DEF StartSession, Sessions, Operable
  <2>2. /\ session'.started = now /\ session'.last = now
        /\ session'.absolute = now + SessionLifetime
    BY <1>2 DEF StartSession
  <2>3. Sound(session')
    BY <2>1, <2>2, PhasesApart DEF Sound, Operable
  <2> QED
    BY <1>2, <2>3, QuietStep DEF StartSession
<1>3. CASE CallTooLate
  <2>1. Sound(session) /\ Liveness(session) \in Terminal
    <3>1. Sound(session)
      BY <1>3, StartedIsSound, PhasesApart DEF CallTooLate
    <3>2. Liveness(session) \in {"Failed", "Expired"}
      BY <1>3 DEF CallTooLate, Liveness
    <3> QED
      BY <3>1, <3>2 DEF Terminal, Statuses
  <2>2. Sound(session')
    BY <1>3, <2>1, EndedSound DEF CallTooLate
  <2> QED
    BY <1>3, <2>2, QuietStep DEF CallTooLate
<1>4. CASE RefreshSame
  <2>1. Sound(session) /\ session.started <= now /\ session.phase \in Operable
    BY <1>4, LiveInTime DEF RefreshSame, Live
  <2>2. CASE session.pending = None /\ version = session.version
    <3>1. session' = [session EXCEPT !.last = now, !.phase = "Principal"]
      BY <1>4, <2>2 DEF RefreshSame
    <3>2. /\ session' \in Sessions /\ session'.phase = "Principal" /\ session'.last = now
          /\ session'.absolute = session.absolute /\ session'.started = session.started
      BY <2>1, <3>1, Zenon DEF Sound, Sessions, Operable
    <3>3. Sound(session')
      BY <2>1, <3>2, PhasesApart DEF Sound, Operable
    <3> QED
      BY <1>4, <3>3, QuietStep DEF RefreshSame
  <2>3. CASE ~(session.pending = None /\ version = session.version)
    <3>1. Sound(session')
      BY <1>4, <2>1, <2>3, EndedSound DEF RefreshSame, Terminal, Statuses
    <3> QED
      BY <1>4, <3>1, QuietStep DEF RefreshSame
  <2> QED
    BY <2>2, <2>3
<1>5. CASE TimePasses \/ StepBack \/ VaultMoves
  BY <1>5, QuietStep DEF TimePasses, StepBack, VaultMoves
<1>6. ASSUME NEW phase \in {"Cancelled", "Locked"}, EndSession(phase)
      PROVE  SessionInvariant' /\ PinnedStep
  <2>1. Sound(session) /\ phase \in Terminal
    BY <1>6, StartedIsSound DEF EndSession, Terminal, Statuses
  <2>2. Sound(session')
    BY <1>6, <2>1, EndedSound DEF EndSession
  <2> QED
    BY <1>6, <2>2, QuietStep DEF EndSession
<1>7. ASSUME Snapshot \/ \E items \in SUBSET HeldItems : Preflight(items)
      PROVE  SessionInvariant' /\ PinnedStep
  <2>1. /\ Live /\ session' = [session EXCEPT !.last = now]
        /\ UNCHANGED <<now, backs, version, release>>
    BY <1>7, Zenon DEF Snapshot, Preflight
  <2>2. Sound(session) /\ session.started <= now /\ session.phase \in Operable
    BY <2>1, LiveInTime DEF Live
  <2>3. /\ session' \in Sessions /\ session'.phase = session.phase /\ session'.last = now
        /\ session'.absolute = session.absolute /\ session'.started = session.started
        /\ session'.pending = session.pending
    BY <2>1, <2>2 DEF Sound, Sessions
  <2>4. Sound(session')
    BY <2>2, <2>3, PhasesApart DEF Sound
  <2> QED
    BY <2>1, <2>4, QuietStep
<1>8. ASSUME NEW item \in HeldItems, NEW role \in SessionRoles, NEW b \in Bindings \cup {None}
      PROVE  /\ AccessRefused(item, role, b) => SessionInvariant' /\ PinnedStep
             /\ AccessNotYet(item, role, b) => SessionInvariant' /\ PinnedStep
             /\ AccessFails(item, role, b) => SessionInvariant' /\ PinnedStep
  <2>1. Attempt(item, role) => Sound(session) /\ session.phase \in Operable
    BY LiveInTime DEF Attempt, Live
  <2>2. ASSUME AccessRefused(item, role, b)  PROVE SessionInvariant' /\ PinnedStep
    <3>1. PICK phase \in {"Cancelled", "Replay", "Expired"} : Refuse(phase)
      BY <2>2 DEF AccessRefused
    <3>2. Sound(session')
      BY <2>1, <2>2, <3>1, EndedSound DEF AccessRefused, Refuse, Terminal, Statuses
    <3> QED
      BY <3>1, <3>2, QuietStep DEF Refuse
  <2>3. ASSUME b # None, Sound(session), session.phase \in Operable,
               \/ session' = [session EXCEPT !.pending = b, !.phase = "WitnessPending"]
               \/ session' = [session EXCEPT !.pending = b, !.active = [item |-> item, role |-> role],
                                             !.phase = "WitnessPending"]
        PROVE  Sound(session')
    <3>1. /\ session' \in Sessions /\ session'.phase = "WitnessPending" /\ session'.pending = b
          /\ session'.absolute = session.absolute /\ session'.started = session.started
          /\ session'.last = session.last
      <4>1. CASE session' = [session EXCEPT !.pending = b, !.phase = "WitnessPending"]
        BY <2>3, <4>1, Zenon DEF Sound, Sessions, Operable
      <4>2. CASE session' = [session EXCEPT !.pending = b, !.active = [item |-> item, role |-> role],
                                            !.phase = "WitnessPending"]
        BY <2>3, <4>2, Zenon DEF Sound, Sessions, Operable
      <4> QED
        BY <2>3, <4>1, <4>2
    <3> QED
      BY <2>3, <3>1, PhasesApart DEF Sound, Operable
  <2>4. ASSUME AccessNotYet(item, role, b)  PROVE SessionInvariant' /\ PinnedStep
    <3>1. Sound(session')
      BY <2>1, <2>3, <2>4 DEF AccessNotYet, Admitted
    <3> QED
      BY <2>4, <3>1, QuietStep DEF AccessNotYet
  <2>5. ASSUME AccessFails(item, role, b)  PROVE SessionInvariant' /\ PinnedStep
    <3>1. Sound(session) /\ session.phase \in Operable
      BY <2>1, <2>5 DEF AccessFails, Asked, Admitted
    <3>2. \/ \E s \in Terminal : session' = Ended(s)
          \/ b # None /\ session' = [session EXCEPT !.pending = b, !.phase = "WitnessPending"]
      BY <2>5 DEF AccessFails, Terminal, Statuses
    <3>3. CASE \E s \in Terminal : session' = Ended(s)
      BY <2>5, <3>1, <3>3, EndedSound, QuietStep DEF AccessFails
    <3>4. CASE b # None /\ session' = [session EXCEPT !.pending = b, !.phase = "WitnessPending"]
      <4>1. Sound(session')
        BY <2>3, <3>1, <3>4
      <4> QED
        BY <2>5, <4>1, QuietStep DEF AccessFails
    <3> QED
      BY <3>2, <3>3, <3>4
  <2> QED
    BY <2>2, <2>4, <2>5
<1> QED
  BY <1>1, <1>2, <1>3, <1>4, <1>5, <1>6, <1>7, <1>8, CompleteStep DEF SessionNext, HeldItems

\* A session gives only what it was asked for, while it may: for every vault,
\* whatever requests the caller presents, in whatever order, and however its
\* clock moves, a release lies within the session's lifetime, its inactivity
\* limit and its request's validity, an ended session holds nothing, and a
\* request that waits for its witnesses never turns into other access
\* (access_revision behind check_live).
THEOREM SessionsBounded == SessionSpec => SessionBounded
<1>1. SessionInit => SessionInvariant
  BY DEF SessionInit, SessionInvariant, Timely
<1>2. SessionInvariant /\ [SessionNext]_sessionVars => SessionInvariant' /\ PinnedStep
  BY SessionStep
<1>3. SessionInvariant => ReleasedInTime
  BY PhasesApart DEF SessionInvariant, ReleasedInTime, Timely, Sound, Sessions
<1> QED
  BY <1>1, <1>2, <1>3, PTL DEF SessionSpec, SessionBounded, PendingPinned, PinnedStep

-----------------------------------------------------------------------------
(***************************************************************************)
(* Owned processes, for any number of descendants and any trouble the      *)
(* environment makes.                                                      *)
(*                                                                         *)
(* The invariant follows the status of the leader through the places where *)
(* the supervisor stands: between a look and its signal the number is the  *)
(* group's unless the status was taken at that very place; and while the   *)
(* members are scanned, whoever is in the group has yet to be inspected or *)
(* has joined since the scan began.                                        *)
(***************************************************************************)
Owned == {"running", "exited", "stolen"}

Supervising ==
    {"interact", "input", "output", "cancel", "forward", "send", "send to exited", "observe",
     "terminate", "look", "strike", "prove", "fallback", "kill child", "kill blind", "reap"}

\* The places of a signal that follows a look.
Aiming == {"send", "send to exited", "strike", "kill child"}

\* The places only a failed clean-up gets to.
Failing == {"fallback", "kill child", "kill blind"}

Unclean == {"cancelled before start", "start", "cleanup", "cleanup after failure"}

FamilyOK ==
    /\ leader \in Owned \cup {"none", "reaped"}
    /\ group \subseteq Kids /\ outside \subseteq Kids /\ joined \subseteq Kids
    /\ scan \in [todo : SUBSET (Kids \cup {Leader}), proofs : Nat]

\* The leader's status, by where the supervisor stands.
StatusOK ==
    /\ pc \in {"start", "drain", "finish", "done"} \cup Supervising
    /\ pc = "start" => leader = "none"
    /\ pc \in Supervising => leader \in Owned
    /\ pinned => leader \in Owned
    /\ reused => leader = "stolen"
    /\ hits # {} => leader = "stolen"

\* Between a look and its signal.
AimOK ==
    /\ pc \in Aiming => leader \in {"running", "exited"} \/ (leader = "stolen" /\ thief = pc)
    /\ \A place \in hits : place = "kill blind" \/ thief = place

\* The scan, and what a clean-up without trouble has shown.
ScanOK ==
    /\ pc \in Failing => trouble
    /\ pc = "prove" => group \subseteq joined \cup scan.todo
    /\ pc \in {"reap", "drain", "finish"} /\ ~trouble => group \subseteq joined
    /\ pc \in {"drain", "finish"} /\ ~trouble => leader = "reaped"
    /\ pc = "done" /\ result \notin Unclean => leader = "reaped" /\ group \subseteq joined

ContainedInvariant == FamilyOK /\ StatusOK /\ AimOK /\ ScanOK

---------------------------------------------------------------------------------
\* A process that is alive is a descendant, or the leader while it runs.
LEMMA WhoLives ==
    ASSUME FamilyOK
    PROVE  /\ Alive \subseteq Kids \cup {Leader}
           /\ Leader \in Alive => leader = "running"
           /\ Leader \notin group
BY LeaderAssumption DEF FamilyOK, Alive

\* What the processes and the system do keeps the invariant: nobody gets
\* into the group unnoticed, and the leader's status is taken only once.
LEMMA EnvironmentKeeps ==
    ASSUME ContainedInvariant, Environment, pc # "done"
    PROVE  ContainedInvariant'
<1> USE DEF ContainedInvariant, FamilyOK, StatusOK, AimOK, ScanOK, Owned, Supervising, Aiming, Failing,
            supervisor, family
<1>1. ASSUME NEW parent \in Kids \cup {Leader}, NEW kid \in Kids, Fork(parent, kid)
      PROVE  ContainedInvariant'
  BY <1>1, Zenon DEF Fork
<1>2. ASSUME NEW kid \in Kids, Leave(kid) PROVE ContainedInvariant'
  BY <1>2, Zenon DEF Leave
<1>3. ASSUME NEW kid \in Kids, Rejoin(kid) PROVE ContainedInvariant'
  BY <1>3, Zenon DEF Rejoin
<1>4. ASSUME NEW who \in Kids \cup {Leader}, Die(who) PROVE ContainedInvariant'
  BY <1>4, WhoLives, Zenon DEF Die
<1>5. CASE Steal
  BY <1>5, Zenon DEF Steal
<1>6. CASE Recycle
  BY <1>6, Zenon DEF Recycle
<1>7. CASE Produce \/ Consume \/ CloseInput
  <2>1. UNCHANGED <<supervisor, family>>
    BY <1>7, Zenon DEF Produce, Consume, CloseInput
  <2> QED BY <2>1, Zenon
<1> QED BY <1>1, <1>2, <1>3, <1>4, <1>5, <1>6, <1>7, Zenon DEF Environment

\* The next inspection of the scan, or the end of the proof.
LEMMA NextProof ==
    ASSUME NEW s \in [todo : SUBSET (Kids \cup {Leader}), proofs : Nat]
    PROVE  [s EXCEPT !.proofs = @ + 1] \in [todo : SUBSET (Kids \cup {Leader}), proofs : Nat]
OBVIOUS

\* So does every step of the supervisor.
LEMMA SupervisorKeeps ==
    ASSUME ContainedInvariant, Supervise
    PROVE  ContainedInvariant'
<1> USE DEF ContainedInvariant, FamilyOK, StatusOK, AimOK, ScanOK, Owned, Supervising, Aiming, Failing, Unclean,
            supervisor, family, Return, Fail, Trouble, Observed, ObserveFails, Sent, Reaches, Members
<1>1. CASE Start
  <2>1. /\ pc = "start" /\ UNCHANGED <<group, outside, joined, reused, thief, hits, scan, trouble>>
        /\ \/ pc' = "done" /\ result' \in Unclean /\ UNCHANGED <<leader, pinned>>
           \/ leader' = "running" /\ pinned' = TRUE /\ pc' \in {"input", "interact", "terminate"}
    BY <1>1, Zenon DEF Start
  <2>2. leader = "none" /\ ~reused /\ hits = {} /\ ~pinned
    BY <2>1, Zenon
  <2>3. CASE pc' = "done" /\ result' \in Unclean /\ UNCHANGED <<leader, pinned>>
    BY <2>1, <2>2, <2>3, Zenon
  <2>4. CASE leader' = "running" /\ pinned' = TRUE /\ pc' \in {"input", "interact", "terminate"}
    BY <2>1, <2>2, <2>4, Zenon
  <2> QED BY <2>1, <2>3, <2>4, Zenon
<1>2. CASE Interact
  BY <1>2, Zenon DEF Interact
<1>3. CASE PollInput
  BY <1>3, Zenon DEF PollInput
<1>4. CASE PollOutput
  BY <1>4, Zenon DEF PollOutput
<1>5. CASE CheckCancelled
  BY <1>5, Zenon DEF CheckCancelled
<1>6. CASE ForwardLook
  BY <1>6, Zenon DEF ForwardLook
<1>7. CASE ForwardSend
  BY <1>7, Zenon DEF ForwardSend
<1>8. CASE Watch
  BY <1>8, Zenon DEF Watch
<1>9. CASE Terminate
  BY <1>9, Zenon DEF Terminate
<1>10. CASE Look
  BY <1>10, Zenon DEF Look
<1>11. CASE Strike
  <2>1. /\ pc = "strike"
        /\ UNCHANGED <<leader, group, outside, reused, thief, pinned, result>>
        /\ hits' \in {hits, hits \cup {"strike"}}
        /\ hits' # hits => leader \notin {"running", "exited"} /\ reused
        /\ \/ trouble' = TRUE /\ pc' = "fallback" /\ UNCHANGED <<joined, scan>>
           \/ /\ pc' = "prove" /\ joined' = {} /\ UNCHANGED trouble
              /\ scan' = [scan EXCEPT !.todo = Kids \cup {Leader}]
    BY <1>11, Zenon DEF Strike
  <2>2. CASE trouble' = TRUE /\ pc' = "fallback" /\ UNCHANGED <<joined, scan>>
    BY <2>1, <2>2, Zenon
  <2>3. CASE /\ pc' = "prove" /\ joined' = {} /\ UNCHANGED trouble
             /\ scan' = [scan EXCEPT !.todo = Kids \cup {Leader}]
    <3>1. scan' \in [todo : SUBSET (Kids \cup {Leader}), proofs : Nat] /\ scan'.todo = Kids \cup {Leader}
      BY <2>3, Zenon
    <3> QED BY <2>1, <2>3, <3>1, Zenon
  <2> QED BY <2>1, <2>2, <2>3, Zenon
<1>12. CASE Conclude
  <2>1. /\ pc = "prove" /\ scan.todo = {} /\ UNCHANGED <<family, pinned, result>>
        /\ \/ trouble' = TRUE /\ pc' = "fallback" /\ UNCHANGED scan
           \/ pc' \in {"reap", "look"} /\ scan' = [scan EXCEPT !.proofs = @ + 1] /\ UNCHANGED trouble
    BY <1>12, Zenon DEF Conclude
  <2>2. scan' \in [todo : SUBSET (Kids \cup {Leader}), proofs : Nat]
    <3>1. CASE scan' = [scan EXCEPT !.proofs = @ + 1]
      BY <3>1, NextProof, Zenon
    <3> QED BY <2>1, <3>1, Zenon
  <2> QED BY <2>1, <2>2, Zenon
<1>13. CASE Fallback
  BY <1>13, Zenon DEF Fallback
<1>14. CASE KillChild
  BY <1>14, Zenon DEF KillChild
<1>15. CASE Reap
  BY <1>15, Zenon DEF Reap, Reaped
<1>16. CASE DrainRest
  BY <1>16, Zenon DEF DrainRest
<1>17. CASE LastPoll
  BY <1>17, Zenon DEF LastPoll
<1>18. CASE Finish
  BY <1>18, Zenon DEF Finish
<1>19. ASSUME NEW who \in Kids \cup {Leader}, Inspect(who) PROVE ContainedInvariant'
  <2>1. /\ pc = "prove" /\ UNCHANGED <<family, pinned, result>>
        /\ \/ trouble' = TRUE /\ pc' = "fallback" /\ UNCHANGED scan
           \/ pc' = "look" /\ scan' = [todo |-> {}, proofs |-> 0] /\ UNCHANGED trouble
           \/ /\ who \notin Members /\ pc' = pc /\ UNCHANGED trouble
              /\ scan' = [scan EXCEPT !.todo = @ \ {who}]
    BY <1>19, Zenon DEF Inspect, IsLive
  <2>2. CASE trouble' = TRUE /\ pc' = "fallback" /\ UNCHANGED scan
    BY <2>1, <2>2, Zenon
  <2>3. CASE pc' = "look" /\ scan' = [todo |-> {}, proofs |-> 0] /\ UNCHANGED trouble
    BY <2>1, <2>3, Zenon
  <2>4. CASE /\ who \notin Members /\ pc' = pc /\ UNCHANGED trouble
             /\ scan' = [scan EXCEPT !.todo = @ \ {who}]
    <3>1. /\ scan' \in [todo : SUBSET (Kids \cup {Leader}), proofs : Nat]
          /\ scan'.todo = scan.todo \ {who}
      BY <2>4, Zenon
    <3> QED BY <2>1, <2>4, <3>1, Zenon
  <2> QED BY <2>1, <2>2, <2>3, <2>4, Zenon
<1> QED BY <1>1, <1>2, <1>3, <1>4, <1>5, <1>6, <1>7, <1>8, <1>9, <1>10, <1>11, <1>12, <1>13, <1>14, <1>15, <1>16, <1>17, <1>18, <1>19, Zenon DEF Supervise

\* The invariant is inductive.
LEMMA ContainedInductive ==
    /\ Init => ContainedInvariant
    /\ ContainedInvariant /\ [Next]_vars => ContainedInvariant'
<1>1. Init => ContainedInvariant
  BY DEF Init, ContainedInvariant, FamilyOK, StatusOK, AimOK, ScanOK, Owned, Supervising, Aiming, Failing
<1>2. ASSUME ContainedInvariant, [Next]_vars PROVE ContainedInvariant'
  <2>1. CASE Supervise
    BY <1>2, <2>1, SupervisorKeeps
  <2>2. CASE pc # "done" /\ Environment
    BY <1>2, <2>2, EnvironmentKeeps
  <2>3. ASSUME NEW what \in Deadlines, Lapse(what) PROVE ContainedInvariant'
    BY <1>2, <2>3, Zenon DEF Lapse, ContainedInvariant, FamilyOK, StatusOK, AimOK, ScanOK, supervisor, family
  <2>4. CASE UNCHANGED vars
    BY <1>2, <2>4, Zenon DEF vars, ContainedInvariant, FamilyOK, StatusOK, AimOK, ScanOK, supervisor, family
  <2> QED BY <1>2, <2>1, <2>2, <2>3, <2>4 DEF Next, Returned
<1> QED BY <1>1, <1>2

\* A call that does not report a failed clean-up has reaped its child, left
\* nobody in the child's group who did not join after the last scan had
\* begun, and signalled its own group only, whatever descendants do, whatever
\* fails and whoever else waits for the child
\* (run_owned_process_tree_with_io_and_cleanup, terminate_and_reap).
THEOREM CallsContained == Spec => []Contained
<1>1. ContainedInvariant => Contained
  BY Zenon DEF ContainedInvariant, StatusOK, AimOK, ScanOK, Contained, OwnGroupOnly, Owned, Unclean
<1> QED BY <1>1, ContainedInductive, PTL DEF Spec

-----------------------------------------------------------------------------
(***************************************************************************)
(* Exports, for every number of commands, revisions and archives and all   *)
(* the environment may do.  The status commands read one file that four    *)
(* commands write and a power loss may set back, so the invariant is about *)
(* the file as it is seen and as it would survive, and about what each     *)
(* command under way has already done of what its receipt will say.        *)
(***************************************************************************)
ExportKinds == {"transfer", "create", "verify", "drill"}
ProductFields == {"kind", "id", "revision", "at", "states"}

\* The receipts R say only what the histories hold: published and synced
\* archives, transfers made, archives opened and archives restored.
Told(R, synced, out, opened, restored) ==
    /\ DOMAIN R = ExportKinds
    /\ R["create"].id # 0 => \E a \in synced : ReceiptOf(a) = R["create"]
    /\ R["transfer"].id # 0 => \E t \in out : ReceiptOf(t) = R["transfer"]
    /\ R["verify"].id # 0 => R["verify"].id \in opened
    /\ R["drill"].id # 0 => R["drill"].id \in restored

\* What a command has done by the time it records its receipt.
Done(r, synced, out, opened, restored) ==
    \/ r.kind = "create" /\ r.product \in synced
    \/ r.kind = "transfer" /\ r.product \in out
    \/ r.kind = "verify" /\ r.product.id \in opened
    \/ r.kind = "drill" /\ r.product.id \in restored

WholeArchive(a) == DOMAIN a = ProductFields /\ (a.kind = "create" => ArchiveOpens(a))

CommandOK(r, synced, out, opened, restored) ==
    r.pc # "idle" =>
      /\ {"pc", "kind"} \subseteq DOMAIN r /\ r.kind \in ExportKinds
      /\ r.kind \in {"verify", "drill"} => "product" \in DOMAIN r /\ DOMAIN r.product = ProductFields
      /\ r.pc = "snapshot" => r.kind = "create"
      /\ r.pc = "make" => r.kind \in {"create", "transfer"}
      /\ r.pc = "restore" => r.kind = "drill"
      /\ r.pc = "open" => r.kind = "verify"
      /\ r.pc \in {"read", "accept"} /\ r.kind = "verify" => r.product.id \in opened
      /\ r.pc \in {"check", "rename"} => /\ "product" \in DOMAIN r /\ r.kind \in {"create", "transfer"}
                                         /\ WholeArchive(r.product)
      /\ r.pc = "record" => Done(r, synced, out, opened, restored)

ExportInv ==
    /\ DOMAIN disk = ExportPaths /\ DOMAIN stable = ExportPaths
    /\ Told(disk[ReceiptsFile][2], kept, made, provenArchives, drilled)
    /\ Told(stable[ReceiptsFile][2], kept, made, provenArchives, drilled)
    /\ \A a \in made : WholeArchive(a)
    /\ \A p \in DOMAIN export : CommandOK(export[p], kept, made, provenArchives, drilled)
    /\ \A r \in replaced : r.asked

\* The histories only grow, and what they bear out stays borne out.
LEMMA ToldOn ==
    ASSUME NEW R, NEW s1, NEW o1, NEW v1, NEW d1, NEW s2, NEW o2, NEW v2, NEW d2,
           Told(R, s1, o1, v1, d1),
           s1 \subseteq s2, o1 \subseteq o2, v1 \subseteq v2, d1 \subseteq d2
    PROVE  Told(R, s2, o2, v2, d2)
BY DEF Told

\* The same of a command under way.
LEMMA CommandOn ==
    ASSUME NEW r, NEW s1, NEW o1, NEW v1, NEW d1, NEW s2, NEW o2, NEW v2, NEW d2,
           CommandOK(r, s1, o1, v1, d1),
           s1 \subseteq s2, o1 \subseteq o2, v1 \subseteq v2, d1 \subseteq d2
    PROVE  CommandOK(r, s2, o2, v2, d2)
BY DEF CommandOK, Done

\* An idle command owes nothing.
LEMMA IdleOK ==
    ASSUME NEW s, NEW o, NEW v, NEW d
    PROVE  CommandOK(NoExport, s, o, v, d)
BY DEF CommandOK, NoExport

\* Command p goes on as r, and everybody else stays as they were.
LEMMA CommandsOn ==
    ASSUME ExportInv, NEW p, NEW r, export' = [export EXCEPT ![p] = r],
           kept \subseteq kept', made \subseteq made',
           provenArchives \subseteq provenArchives', drilled \subseteq drilled',
           CommandOK(r, kept', made', provenArchives', drilled')
    PROVE  \A q \in DOMAIN export' : CommandOK(export'[q], kept', made', provenArchives', drilled')
<1> TAKE q \in DOMAIN export'
<1>1. q \in DOMAIN export OBVIOUS
<1>2. CASE q = p
  <2>1. export'[q] = r BY <1>1, <1>2
  <2> QED BY <2>1
<1>3. CASE q # p
  <2>1. export'[q] = export[q] BY <1>1, <1>3
  <2>2. CommandOK(export[q], kept, made, provenArchives, drilled) BY <1>1 DEF ExportInv
  <2> QED BY <2>1, <2>2, CommandOn
<1> QED BY <1>2, <1>3

\* A step that leaves the files alone.
LEMMA QuietExport ==
    ASSUME ExportInv, UNCHANGED <<disk, stable, made, kept, replaced>>,
           provenArchives \subseteq provenArchives', drilled \subseteq drilled',
           \A q \in DOMAIN export' : CommandOK(export'[q], kept', made', provenArchives', drilled')
    PROVE  ExportInv'
<1>1. /\ Told(disk[ReceiptsFile][2], kept', made', provenArchives', drilled')
      /\ Told(stable[ReceiptsFile][2], kept', made', provenArchives', drilled')
  BY ToldOn DEF ExportInv
<1> QED BY <1>1 DEF ExportInv

\* The same, by a command that goes on as r.
LEMMA QuietCommand ==
    ASSUME ExportInv, NEW p, NEW r, GoOn(p, r), UNCHANGED <<disk, stable, made, kept, replaced>>,
           provenArchives \subseteq provenArchives', drilled \subseteq drilled',
           CommandOK(r, kept, made, provenArchives', drilled')
    PROVE  ExportInv'
<1>1. kept' = kept /\ made' = made OBVIOUS
<1>2. CommandOK(r, kept', made', provenArchives', drilled') BY <1>1
<1>3. \A q \in DOMAIN export' : CommandOK(export'[q], kept', made', provenArchives', drilled')
  BY Zenon, <1>1, <1>2, CommandsOn DEF GoOn
<1> QED BY <1>3, QuietExport

\* The paths of the three files are three, in three directories.
LEMMA PathsApart ==
    /\ ArchiveOut # ReceiptsFile /\ TransferOut # ReceiptsFile
    /\ ArchiveOut \in ExportPaths /\ TransferOut \in ExportPaths /\ ReceiptsFile \in ExportPaths
BY DEF ArchiveOut, TransferOut, ReceiptsFile, ExportPaths

\* A publication elsewhere leaves the receipts as they were, seen or durable.
LEMMA WriteElsewhere ==
    ASSUME ExportInv, NEW path, NEW content, NEW synced \in BOOLEAN,
           Write(path, content, synced), path # ReceiptsFile
    PROVE  /\ DOMAIN disk' = ExportPaths /\ DOMAIN stable' = ExportPaths
           /\ disk'[ReceiptsFile] = disk[ReceiptsFile]
           /\ stable'[ReceiptsFile] \in {disk[ReceiptsFile], stable[ReceiptsFile]}
<1>1. disk' = [disk EXCEPT ![path] = content] BY DEF Write
<1>2. DOMAIN disk' = ExportPaths /\ disk'[ReceiptsFile] = disk[ReceiptsFile]
  BY <1>1, PathsApart DEF ExportInv
<1>3. CASE synced
  <2>1. stable' = [x \in DOMAIN disk |-> IF Directory(x) = Directory(path) THEN disk'[x] ELSE stable[x]]
    BY <1>3 DEF Write, SyncedIn
  <2> QED BY <1>2, <2>1, PathsApart DEF ExportInv
<1>4. CASE ~synced
  BY <1>2, <1>4 DEF Write, ExportInv
<1> QED BY <1>3, <1>4

\* The receipts are written.
LEMMA WriteReceipts ==
    ASSUME ExportInv, NEW content, NEW synced \in BOOLEAN, Write(ReceiptsFile, content, synced)
    PROVE  /\ DOMAIN disk' = ExportPaths /\ DOMAIN stable' = ExportPaths
           /\ disk'[ReceiptsFile] = content
           /\ stable'[ReceiptsFile] \in {content, stable[ReceiptsFile]}
<1>1. disk' = [disk EXCEPT ![ReceiptsFile] = content] BY DEF Write
<1>2. DOMAIN disk' = ExportPaths /\ disk'[ReceiptsFile] = content
  BY <1>1, PathsApart DEF ExportInv
<1>3. CASE synced
  <2>1. stable' = [x \in DOMAIN disk |->
                     IF Directory(x) = Directory(ReceiptsFile) THEN disk'[x] ELSE stable[x]]
    BY <1>3 DEF Write, SyncedIn
  <2> QED BY <1>2, <2>1, PathsApart DEF ExportInv
<1>4. CASE ~synced
  BY <1>2, <1>4 DEF Write, ExportInv
<1> QED BY <1>3, <1>4

-----------------------------------------------------------------------------
(***************************************************************************)
(* The steps of a command before it publishes anything.                    *)
(***************************************************************************)
LEMMA StartKeeps ==
    ASSUME ExportInv, NEW p,
           StartTransfer(p) \/ StartBackup(p) \/ StartOn(p, "verify") \/ StartOn(p, "drill")
    PROVE  ExportInv'
<1>1. ASSUME NEW kind \in {"transfer", "create"}, NEW included, PreviewExport(p, kind, included)
      PROVE  ExportInv'
  <2>1. PICK r : /\ r = [pc |-> "read", kind |-> kind, seen |-> disk[Destination(kind)],
                         included |-> included, revision |-> 0]
                 /\ GoOn(p, r)
    BY <1>1 DEF PreviewExport
  <2>2. UNCHANGED <<disk, stable, made, kept, replaced, provenArchives, drilled>>
    BY <1>1 DEF PreviewExport, FilesStay
  <2>3. DOMAIN r = {"pc", "kind", "seen", "included", "revision"} /\ r.pc = "read" /\ r.kind = kind
    BY <2>1
  <2>4. CommandOK(r, kept, made, provenArchives', drilled')
    BY <2>3 DEF CommandOK, ExportKinds
  <2> QED BY <2>1, <2>2, <2>4, QuietCommand
<1>2. ASSUME NEW kind \in {"verify", "drill"}, StartOn(p, kind)
      PROVE  ExportInv'
  <2>1. PICK archive \in made :
          /\ GoOn(p, [pc |-> IF kind = "verify" THEN "open" ELSE "read", kind |-> kind,
                      product |-> archive, revision |-> 0])
          /\ UNCHANGED <<disk, stable, made, kept, replaced, provenArchives, drilled>>
    BY <1>2 DEF StartOn, FilesStay
  <2>2. PICK r : r = [pc |-> IF kind = "verify" THEN "open" ELSE "read", kind |-> kind,
                      product |-> archive, revision |-> 0]
    BY Zenon
  <2>3. /\ DOMAIN r = {"pc", "kind", "product", "revision"} /\ r.kind = kind /\ r.product = archive
        /\ r.pc = IF kind = "verify" THEN "open" ELSE "read"
    BY <2>2
  <2>4. DOMAIN archive = ProductFields BY DEF ExportInv, WholeArchive
  <2>5. CommandOK(r, kept, made, provenArchives', drilled')
    BY <2>3, <2>4 DEF CommandOK, ExportKinds
  <2> QED BY <2>1, <2>2, <2>5, QuietCommand
<1>3. StartOn(p, "verify") \/ StartOn(p, "drill") => ExportInv' BY <1>2
<1>4. StartTransfer(p) => ExportInv' BY <1>1 DEF StartTransfer
<1>5. StartBackup(p) => ExportInv' BY <1>1 DEF StartBackup
<1> QED BY <1>3, <1>4, <1>5

\* The command p is under way.
LEMMA CommandIs ==
    ASSUME ExportInv, NEW p, NEW at, ExportAt(p, at)
    PROVE  CommandOK(export[p], kept, made, provenArchives, drilled) /\ export[p].pc = at
BY DEF ExportInv, ExportAt

\* load_vault_principal reads the vault.
LEMMA ReadKeeps ==
    ASSUME ExportInv, NEW p, ReadHome(p)
    PROVE  ExportInv'
<1>1. PICK r : r = export[p] OBVIOUS
<1>2. CommandOK(r, kept, made, provenArchives, drilled) /\ r.pc = "read"
  BY <1>1, CommandIs DEF ReadHome
<1>3. PICK n : n = [r EXCEPT !.pc = "accept", !.revision = head] OBVIOUS
<1>4. GoOn(p, n) /\ UNCHANGED <<disk, stable, made, kept, replaced, provenArchives, drilled>>
  BY <1>1, <1>3 DEF ReadHome, FilesStay
<1>5. /\ DOMAIN n = DOMAIN r /\ n.pc = "accept" /\ n.kind = r.kind
      /\ "product" \in DOMAIN r => n.product = r.product
  BY <1>2, <1>3 DEF CommandOK
<1>6. CommandOK(n, kept, made, provenArchives', drilled')
  BY <1>2, <1>4, <1>5 DEF CommandOK
<1> QED BY <1>4, <1>6, QuietCommand

\* ... and takes it into the checkpoint.
LEMMA AcceptKeepsExports ==
    ASSUME ExportInv, NEW p, AcceptHome(p)
    PROVE  ExportInv'
<1>1. PICK r : r = export[p] OBVIOUS
<1>2. CommandOK(r, kept, made, provenArchives, drilled) /\ r.pc = "accept"
  BY <1>1, CommandIs DEF AcceptHome
<1>3. UNCHANGED <<disk, stable, made, kept, replaced, provenArchives, drilled>>
  BY DEF AcceptHome, FilesStay
<1>4. CASE GoOn(p, NoExport)
  BY <1>3, <1>4, IdleOK, QuietCommand
<1>5. ASSUME NEW n, GoOn(p, n), r.kind \in {"create", "transfer"},
             n = [r EXCEPT !.pc = IF r.kind = "create" THEN "snapshot" ELSE "make"]
      PROVE  ExportInv'
  <2>1. /\ DOMAIN n = DOMAIN r /\ n.kind = r.kind
        /\ n.pc = IF r.kind = "create" THEN "snapshot" ELSE "make"
    BY <1>2, <1>5 DEF CommandOK
  <2>2. CommandOK(n, kept, made, provenArchives', drilled')
    BY <1>2, <1>5, <2>1 DEF CommandOK
  <2> QED BY <1>3, <1>5, <2>2, QuietCommand
<1>6. ASSUME NEW n, GoOn(p, n), r.kind \in {"verify", "drill"},
             n = [r EXCEPT !.pc = IF r.kind = "verify" THEN "record" ELSE "restore",
                           !.product = [@ EXCEPT !.at = exportTime]]
      PROVE  ExportInv'
  <2>1. PICK a : a = [r.product EXCEPT !.at = exportTime] BY Zenon
  <2>2. DOMAIN a = ProductFields /\ a.id = r.product.id
    BY <1>2, <1>6, <2>1 DEF CommandOK, ProductFields
  <2>3. n = [r EXCEPT !.pc = IF r.kind = "verify" THEN "record" ELSE "restore", !.product = a]
    BY <1>6, <2>1
  <2>4. /\ DOMAIN n = DOMAIN r /\ n.kind = r.kind /\ n.product = a
        /\ n.pc = IF r.kind = "verify" THEN "record" ELSE "restore"
    BY Zenon, <1>2, <1>6, <2>3 DEF CommandOK
  <2>5. CommandOK(n, kept, made, provenArchives, drilled)
    BY <1>2, <1>6, <2>2, <2>4 DEF CommandOK, Done
  <2>6. CommandOK(n, kept, made, provenArchives', drilled')
    BY <1>3, <2>5
  <2> QED BY <1>3, <1>6, <2>6, QuietCommand
<1>7. r.kind \in ExportKinds BY <1>2 DEF CommandOK
<1>8. \/ GoOn(p, NoExport)
      \/ /\ r.kind = "create" /\ GoOn(p, [r EXCEPT !.pc = "snapshot"])
      \/ /\ r.kind = "transfer" /\ GoOn(p, [r EXCEPT !.pc = "make"])
      \/ /\ r.kind = "verify"
         /\ GoOn(p, [r EXCEPT !.pc = "record", !.product = [@ EXCEPT !.at = exportTime]])
      \/ /\ r.kind = "drill"
         /\ GoOn(p, [r EXCEPT !.pc = "restore", !.product = [@ EXCEPT !.at = exportTime]])
  BY Zenon, <1>1, <1>7 DEF AcceptHome, ExportKinds
<1> QED BY Zenon, <1>4, <1>5, <1>6, <1>8

\* read_local_state_snapshots.
LEMMA SnapshotKeeps ==
    ASSUME ExportInv, NEW p, ReadSnapshots(p)
    PROVE  ExportInv'
<1>1. PICK r : r = export[p] OBVIOUS
<1>2. CommandOK(r, kept, made, provenArchives, drilled) /\ r.pc = "snapshot"
  BY <1>1, CommandIs DEF ReadSnapshots
<1>3. PICK n : n = [pc |-> "make", kind |-> r.kind, seen |-> r.seen, revision |-> r.revision,
                    states |-> [who \in r.included |-> retained[who]]]
  BY Zenon
<1>4. GoOn(p, n) /\ UNCHANGED <<disk, stable, made, kept, replaced, provenArchives, drilled>>
  BY <1>1, <1>3 DEF ReadSnapshots, FilesStay
<1>5. DOMAIN n = {"pc", "kind", "seen", "revision", "states"} /\ n.pc = "make" /\ n.kind = "create"
  BY <1>2, <1>3 DEF CommandOK
<1>6. CommandOK(n, kept, made, provenArchives', drilled')
  BY <1>5 DEF CommandOK, ExportKinds
<1> QED BY <1>4, <1>6, QuietCommand

\* BackupCreator and TransferCreator: an archive is made only if it opens.
LEMMA MadeKeeps ==
    ASSUME ExportInv, NEW p, CreateBackup(p) \/ CreateTransfer(p)
    PROVE  ExportInv'
<1>1. UNCHANGED <<disk, stable, made, kept, replaced, provenArchives, drilled>>
  BY DEF CreateBackup, CreateTransfer, FilesStay
<1>2. ASSUME NEW product, Made(p, product), WholeArchive(product), product.kind \in {"create", "transfer"}
      PROVE  ExportInv'
  <2>1. CASE GoOn(p, NoExport)
    BY <1>1, <2>1, IdleOK, QuietCommand
  <2>2. CASE GoOn(p, [pc |-> "check", kind |-> product.kind, seen |-> export[p].seen, product |-> product])
    <3>1. PICK n : n = [pc |-> "check", kind |-> product.kind, seen |-> export[p].seen, product |-> product]
      BY ZenonT(30)
    <3>2. /\ DOMAIN n = {"pc", "kind", "seen", "product"} /\ n.pc = "check" /\ n.kind = product.kind
          /\ n.product = product
      BY <3>1
    <3>3. CommandOK(n, kept, made, provenArchives', drilled')
      BY <1>2, <3>2 DEF CommandOK, ExportKinds
    <3> QED BY <1>1, <2>2, <3>1, <3>3, QuietCommand
  <2> QED BY <1>2, <2>1, <2>2 DEF Made
<1>3. CASE CreateTransfer(p)
  <2>1. PICK product : /\ product = [kind |-> "transfer", id |-> serial + 1, revision |-> export[p].revision,
                                     at |-> exportTime, states |-> <<>>]
                       /\ Made(p, product)
    BY <1>3 DEF CreateTransfer
  <2>2. WholeArchive(product) /\ product.kind = "transfer"
    BY <2>1 DEF WholeArchive, ProductFields
  <2> QED BY <1>2, <2>1, <2>2
<1>4. CASE CreateBackup(p)
  <2>1. PICK product : product = [kind |-> "create", id |-> serial + 1, revision |-> export[p].revision,
                                  at |-> exportTime, states |-> export[p].states]
    BY Zenon
  <2>2. GoOn(p, NoExport) \/ (ArchiveOpens(product) /\ Made(p, product))
    BY <1>4, <2>1 DEF CreateBackup
  <2>3. DOMAIN product = ProductFields /\ product.kind = "create"
    BY <2>1 DEF ProductFields
  <2>4. CASE GoOn(p, NoExport)
    BY <1>1, <2>4, IdleOK, QuietCommand
  <2> QED BY <1>2, <2>2, <2>3, <2>4 DEF WholeArchive
<1> QED BY SMTT(30), <1>3, <1>4

\* The destination is compared with what was previewed.
LEMMA CheckKeeps ==
    ASSUME ExportInv, NEW p, CheckDestination(p)
    PROVE  ExportInv'
<1>1. PICK r : r = export[p] OBVIOUS
<1>2. CommandOK(r, kept, made, provenArchives, drilled) /\ r.pc = "check"
  BY <1>1, CommandIs DEF CheckDestination
<1>3. UNCHANGED <<disk, stable, made, kept, replaced, provenArchives, drilled>>
  BY DEF CheckDestination, FilesStay
<1>4. PICK n : n = [r EXCEPT !.pc = "rename"] BY ZenonT(30)
<1>5. GoOn(p, NoExport) \/ GoOn(p, n) BY <1>1, <1>4 DEF CheckDestination
<1>6. DOMAIN n = DOMAIN r /\ n.pc = "rename" /\ n.kind = r.kind /\ n.product = r.product
  BY <1>2, <1>4 DEF CommandOK
<1>7. CommandOK(n, kept, made, provenArchives', drilled')
  BY <1>2, <1>6 DEF CommandOK
<1> QED BY <1>3, <1>5, <1>7, IdleOK, QuietCommand

-----------------------------------------------------------------------------
(***************************************************************************)
(* The steps that publish or record.                                       *)
(***************************************************************************)
LEMMA RenameKeeps ==
    ASSUME ExportInv, NEW p, RenameProduct(p)
    PROVE  ExportInv'
<1>1. PICK r : r = export[p] OBVIOUS
<1>2. CommandOK(r, kept, made, provenArchives, drilled) /\ r.pc = "rename"
  BY <1>1, CommandIs DEF RenameProduct
<1>3. UNCHANGED <<provenArchives, drilled>> BY DEF RenameProduct
<1>4. CASE ~MayRename(r)
  <2>1. GoOn(p, NoExport) /\ FilesStay BY SMTT(30), <1>1, <1>4 DEF RenameProduct
  <2> QED BY SMTT(30), <1>3, <2>1, IdleOK, QuietCommand DEF FilesStay
<1>5. CASE MayRename(r)
  <2> DEFINE path == Destination(r.kind)
  <2>1. PICK synced \in BOOLEAN :
          /\ Write(path, <<"product", r.product>>, synced)
          /\ kept' = IF synced THEN kept \cup {r.product} ELSE kept
          /\ GoOn(p, IF r.kind = "create" /\ ~synced THEN NoExport
                     ELSE [pc |-> "record", kind |-> r.kind, product |-> r.product])
    BY SMTT(30), <1>1, <1>5 DEF RenameProduct
  <2>2. /\ made' = made \cup {r.product}
        /\ replaced' = IF Exists(path) THEN replaced \cup {[what |-> disk[path], asked |-> r.seen # Absent]}
                       ELSE replaced
    BY <1>1, <1>5 DEF RenameProduct
  <2>3. path # ReceiptsFile BY PathsApart DEF Destination
  <2>4. r.kind \in {"create", "transfer"} /\ WholeArchive(r.product)
    BY <1>2 DEF CommandOK
  <2>5. /\ DOMAIN disk' = ExportPaths /\ DOMAIN stable' = ExportPaths
        /\ disk'[ReceiptsFile] = disk[ReceiptsFile]
        /\ stable'[ReceiptsFile] \in {disk[ReceiptsFile], stable[ReceiptsFile]}
    <3> HIDE DEF path
    <3> QED BY <2>1, <2>3, WriteElsewhere
  <2>6. \A x \in replaced' : x.asked
    <3>1. Exists(path) => r.seen # Absent BY <1>5 DEF MayRename
    <3>2. ASSUME NEW x \in replaced' PROVE x.asked
      <4>1. CASE x \in replaced BY <4>1 DEF ExportInv
      <4>2. CASE x \notin replaced
        <5>1. Exists(path) /\ x = [what |-> disk[path], asked |-> r.seen # Absent]
          BY <2>2, <3>2, <4>2, Zenon
        <5>2. x.asked = (r.seen # Absent) BY <5>1, Zenon
        <5> QED BY Zenon, <3>1, <5>1, <5>2
      <4> QED BY <4>1, <4>2
    <3> QED BY <3>2
  <2> HIDE DEF path
  <2>7. kept \subseteq kept' /\ made \subseteq made' BY <2>1, <2>2
  <2>8. PICK n : n = [pc |-> "record", kind |-> r.kind, product |-> r.product] BY Zenon
  <2>9. DOMAIN n = {"pc", "kind", "product"} /\ n.pc = "record" /\ n.kind = r.kind /\ n.product = r.product
    BY <2>8
  <2>10. ~(r.kind = "create" /\ ~synced) => CommandOK(n, kept', made', provenArchives', drilled')
    BY <2>1, <2>2, <2>4, <2>9 DEF CommandOK, Done, ExportKinds
  <2>11. \A q \in DOMAIN export' : CommandOK(export'[q], kept', made', provenArchives', drilled')
    <3>1. CASE r.kind = "create" /\ ~synced
      BY Zenon, <1>3, <2>1, <2>7, <3>1, IdleOK, CommandsOn DEF GoOn
    <3>2. CASE ~(r.kind = "create" /\ ~synced)
      BY ZenonT(30), <1>3, <2>1, <2>7, <2>8, <2>10, <3>2, CommandsOn DEF GoOn
    <3> QED BY <3>1, <3>2
  <2>12. /\ Told(disk[ReceiptsFile][2], kept', made', provenArchives', drilled')
         /\ Told(stable[ReceiptsFile][2], kept', made', provenArchives', drilled')
    BY <1>3, <2>7, ToldOn DEF ExportInv
  <2>13. \A a \in made' : WholeArchive(a) BY <2>2, <2>4 DEF ExportInv
  <2> QED BY ZenonT(30), <2>5, <2>6, <2>11, <2>12, <2>13 DEF ExportInv
<1> QED BY <1>4, <1>5

\* backup verify opens the archive.
LEMMA OpenKeeps ==
    ASSUME ExportInv, NEW p, OpenArchive(p)
    PROVE  ExportInv'
<1>1. PICK r : r = export[p] OBVIOUS
<1>2. CommandOK(r, kept, made, provenArchives, drilled) /\ r.pc = "open"
  BY <1>1, CommandIs DEF OpenArchive
<1>3. PICK n : n = [r EXCEPT !.pc = "read"] BY Zenon
<1>4. /\ GoOn(p, n) /\ UNCHANGED <<disk, stable, made, kept, replaced, drilled>>
      /\ provenArchives' = provenArchives \cup {r.product.id}
  BY <1>1, <1>3 DEF OpenArchive, FilesStay
<1>5. DOMAIN n = DOMAIN r /\ n.pc = "read" /\ n.kind = r.kind /\ n.product = r.product
  BY <1>2, <1>3 DEF CommandOK
<1>6. CommandOK(n, kept, made, provenArchives', drilled')
  BY <1>2, <1>4, <1>5 DEF CommandOK
<1>7. provenArchives \subseteq provenArchives' /\ drilled \subseteq drilled' BY <1>4
<1> QED BY <1>4, <1>6, <1>7, QuietCommand

\* backup drill restores it.
LEMMA DrillKeeps ==
    ASSUME ExportInv, NEW p, RestoreDrill(p)
    PROVE  ExportInv'
<1>1. PICK r : r = export[p] OBVIOUS
<1>2. CommandOK(r, kept, made, provenArchives, drilled) /\ r.pc = "restore"
  BY <1>1, CommandIs DEF RestoreDrill
<1>3. PICK n : n = [r EXCEPT !.pc = "record"] BY Zenon
<1>4. UNCHANGED <<disk, stable, made, kept, replaced, provenArchives>>
  BY DEF RestoreDrill, FilesStay
<1>5. \/ GoOn(p, n) /\ drilled' = drilled \cup {r.product.id}
      \/ GoOn(p, NoExport) /\ UNCHANGED drilled
  BY <1>1, <1>3 DEF RestoreDrill
<1>6. DOMAIN n = DOMAIN r /\ n.pc = "record" /\ n.kind = r.kind /\ n.product = r.product
  BY <1>2, <1>3 DEF CommandOK
<1>7. CASE GoOn(p, n) /\ drilled' = drilled \cup {r.product.id}
  <2>1. CommandOK(n, kept, made, provenArchives', drilled')
    BY <1>2, <1>6, <1>7 DEF CommandOK, Done
  <2>2. provenArchives \subseteq provenArchives' /\ drilled \subseteq drilled' BY <1>4, <1>7
  <2> QED BY <1>4, <1>7, <2>1, <2>2, QuietCommand
<1>8. CASE GoOn(p, NoExport) /\ UNCHANGED drilled
  BY <1>4, <1>8, IdleOK, QuietCommand
<1> QED BY <1>5, <1>7, <1>8

\* A receipt of what was done keeps the receipts true.
LEMMA ReceiptTrue ==
    ASSUME NEW R, NEW r, NEW s, NEW o, NEW v, NEW d,
           Told(R, s, o, v, d), r.kind \in ExportKinds, Done(r, s, o, v, d)
    PROVE  Told([R EXCEPT ![r.kind] = ReceiptOf(r.product)], s, o, v, d)
<1>1. PICK N : N = [R EXCEPT ![r.kind] = ReceiptOf(r.product)] BY Zenon
<1>2. ReceiptOf(r.product).id = r.product.id BY DEF ReceiptOf
<1>3. /\ DOMAIN N = ExportKinds
      /\ \A k \in ExportKinds : N[k] = IF k = r.kind THEN ReceiptOf(r.product) ELSE R[k]
  BY <1>1 DEF Told
<1>4. /\ N["create"] = IF "create" = r.kind THEN ReceiptOf(r.product) ELSE R["create"]
      /\ N["transfer"] = IF "transfer" = r.kind THEN ReceiptOf(r.product) ELSE R["transfer"]
      /\ N["verify"] = IF "verify" = r.kind THEN ReceiptOf(r.product) ELSE R["verify"]
      /\ N["drill"] = IF "drill" = r.kind THEN ReceiptOf(r.product) ELSE R["drill"]
  BY <1>3 DEF ExportKinds
<1>5. Told(N, s, o, v, d)
  BY <1>2, <1>3, <1>4 DEF Told, Done
<1> QED BY <1>1, <1>5

\* record_local_receipt.
LEMMA RecordKeeps ==
    ASSUME ExportInv, NEW p, RecordReceipt(p)
    PROVE  ExportInv'
<1>1. PICK r : r = export[p] OBVIOUS
<1>2. CommandOK(r, kept, made, provenArchives, drilled) /\ r.pc = "record"
  BY <1>1, CommandIs DEF RecordReceipt
<1>3. UNCHANGED <<made, kept, provenArchives, drilled, replaced>> /\ GoOn(p, NoExport)
  BY DEF RecordReceipt, HistoryStays
<1>4. CASE UNCHANGED <<disk, stable>>
  BY SMTT(30), <1>3, <1>4, IdleOK, QuietCommand
<1>5. ASSUME NEW synced \in BOOLEAN,
             Write(ReceiptsFile, <<"receipts", [Receipts EXCEPT ![r.kind] = ReceiptOf(r.product)]>>, synced)
      PROVE  ExportInv'
  <2>1. PICK N : N = [Receipts EXCEPT ![r.kind] = ReceiptOf(r.product)] BY Zenon
  <2>2. Told(Receipts, kept, made, provenArchives, drilled) BY Zenon DEF ExportInv, Receipts
  <2>3. r.kind \in ExportKinds /\ Done(r, kept, made, provenArchives, drilled)
    BY <1>2 DEF CommandOK
  <2>4. Told(N, kept, made, provenArchives, drilled)
    BY Zenon, <2>1, <2>2, <2>3, ReceiptTrue
  <2>5. PICK content : content = <<"receipts", N>> BY Zenon
  <2>6. Write(ReceiptsFile, content, synced) BY <1>5, <2>1, <2>5
  <2>7. /\ DOMAIN disk' = ExportPaths /\ DOMAIN stable' = ExportPaths
        /\ disk'[ReceiptsFile] = content
        /\ stable'[ReceiptsFile] \in {content, stable[ReceiptsFile]}
    BY <2>6, WriteReceipts
  <2>8. content[2] = N BY SMTT(30), <2>5
  <2>9. /\ Told(disk'[ReceiptsFile][2], kept, made, provenArchives, drilled)
        /\ Told(stable'[ReceiptsFile][2], kept, made, provenArchives, drilled)
    BY <2>4, <2>7, <2>8 DEF ExportInv
  <2>10. \A q \in DOMAIN export' : CommandOK(export'[q], kept', made', provenArchives', drilled')
    BY Zenon, <1>3, IdleOK, CommandsOn DEF GoOn
  <2> QED BY Zenon, <1>3, <2>7, <2>9, <2>10 DEF ExportInv
<1> QED BY SMTT(30), <1>1, <1>4, <1>5 DEF RecordReceipt

\* Kills, power losses, the clock, and the commits of others.
LEMMA OthersKeep ==
    ASSUME ExportInv,
           CommitHead \/ ApproverCatchesUp \/ MoveClock \/ LoseExports \/ \E p \in Exporters : KillExport(p)
    PROVE  ExportInv'
<1>1. UNCHANGED <<made, kept, provenArchives, drilled, replaced>>
  BY DEF CommitHead, ApproverCatchesUp, MoveClock, LoseExports, KillExport, HistoryStays
<1>2. CASE CommitHead \/ ApproverCatchesUp \/ MoveClock
  <2>1. UNCHANGED <<disk, stable, export>> BY <1>2 DEF CommitHead, ApproverCatchesUp, MoveClock
  <2> QED BY Zenon, <1>1, <2>1 DEF ExportInv
<1>3. ASSUME NEW p \in Exporters, KillExport(p) PROVE ExportInv'
  <2>1. UNCHANGED <<disk, stable>> /\ GoOn(p, NoExport) BY SMTT(30), <1>3 DEF KillExport
  <2> QED BY <1>1, <2>1, IdleOK, QuietCommand
<1>4. CASE LoseExports
  <2>1. PICK lost : /\ disk' = [path \in DOMAIN disk |->
                                  IF Directory(path) \in lost THEN stable[path] ELSE disk[path]]
                    /\ stable' = disk'
    BY SMTT(30), <1>4 DEF LoseExports, PowerLoss
  <2>2. /\ DOMAIN disk' = ExportPaths /\ DOMAIN stable' = ExportPaths
        /\ disk'[ReceiptsFile] \in {disk[ReceiptsFile], stable[ReceiptsFile]}
        /\ stable'[ReceiptsFile] = disk'[ReceiptsFile]
    BY ZenonT(30), <2>1, PathsApart DEF ExportInv
  <2>3. /\ Told(disk'[ReceiptsFile][2], kept, made, provenArchives, drilled)
        /\ Told(stable'[ReceiptsFile][2], kept, made, provenArchives, drilled)
    BY <2>2 DEF ExportInv
  <2>4. export' = [p \in DOMAIN export |-> NoExport] BY <1>4 DEF LoseExports
  <2>5. \A q \in DOMAIN export' : CommandOK(export'[q], kept', made', provenArchives', drilled')
    BY SMTT(30), <2>4, IdleOK
  <2> QED BY Zenon, <1>1, <2>2, <2>3, <2>5 DEF ExportInv
<1> QED BY <1>2, <1>3, <1>4

\* At the start there is nothing to tell.
LEMMA ExportStarts ==
    ASSUME ExportInit
    PROVE  ExportInv
<1>1. PICK world \in ExportScenes : ExportStart(world) BY SMTT(30) DEF ExportInit
<1>2. /\ DOMAIN disk = ExportPaths /\ stable = disk /\ disk[ReceiptsFile] = <<"receipts", NoReceipts>>
  BY Zenon, <1>1, PathsApart DEF ExportStart
<1>3. disk[ReceiptsFile][2] = NoReceipts BY <1>2
<1>4. Told(NoReceipts, kept, made, provenArchives, drilled)
  BY SMTT(30) DEF Told, NoReceipts, NoReceipt, ExportKinds
<1>5. \A p \in DOMAIN export : CommandOK(export[p], kept, made, provenArchives, drilled)
  BY SMTT(30), <1>1, IdleOK DEF ExportStart
<1>6. made = {} /\ replaced = {} BY <1>1 DEF ExportStart
<1> QED BY Zenon, <1>2, <1>3, <1>4, <1>5, <1>6 DEF ExportInv

\* Every step keeps the invariant.
LEMMA ExportInductive ==
    ASSUME ExportInv, [ExportNext]_exportVars
    PROVE  ExportInv'
<1>1. ASSUME NEW p \in Exporters, ExportStep(p) PROVE ExportInv'
  BY SMTT(30), <1>1, StartKeeps, ReadKeeps, AcceptKeepsExports, SnapshotKeeps, MadeKeeps, CheckKeeps,
     RenameKeeps, OpenKeeps, DrillKeeps, RecordKeeps, OthersKeep DEF ExportStep
<1>2. CASE UNCHANGED exportVars BY Zenon, <1>2 DEF exportVars, ExportInv
<1> QED BY <1>1, <1>2, OthersKeep DEF ExportNext

(***************************************************************************)
(* What an export leaves behind is true of it, for every number of         *)
(* commands, revisions and archives, through kills, failed syncs, power    *)
(* losses and clock steps: an archive under its name opens, and the        *)
(* receipts that the status commands show tell only what was published,    *)
(* opened and restored (record_receipt, backup_status).                    *)
(***************************************************************************)
THEOREM ExportsTellTruth == ExportSpec => []ExportsTruthful
<1>1. ASSUME ExportInv PROVE ExportsTruthful
  <2>1. Told(Receipts, kept, made, provenArchives, drilled) BY ZenonT(30), <1>1 DEF ExportInv, Receipts
  <2>2. \A a \in made : a.kind = "create" =>
          \A who \in DOMAIN a.states : a.states[who] = [accepted |-> a.revision, tail |-> FALSE]
    BY <1>1 DEF ExportInv, WholeArchive, ArchiveOpens
  <2>3. Counts("verify") => Receipts["create"].id \in provenArchives
    BY <2>1 DEF Counts, Told
  <2>4. Counts("drill") => Receipts["create"].id \in drilled
    BY <2>1 DEF Counts, Told
  <2> QED BY ZenonT(30), <1>1, <2>1, <2>2, <2>3, <2>4 DEF ExportInv, Told, ExportsTruthful
<1>2. ExportInv /\ [ExportNext]_exportVars => ExportInv' BY ExportInductive
<1> QED BY <1>1, <1>2, ExportStarts, PTL DEF ExportSpec
=============================================================================
