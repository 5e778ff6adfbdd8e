----------------------------- MODULE AccessSession -----------------------------
(***************************************************************************)
(* A principal's partial-unlock session: it releases one descriptor or one *)
(* body at a time, directly or under a witnessed request, and ends by      *)
(* itself when time runs out, the vault moves on or anything goes wrong.   *)
(*                                                                         *)
(* The caller passes the time, and its clock may step back.  A binding is  *)
(* the public scope of a witnessed request; only the parts of it that      *)
(* requests differ in are kept: what it opens, its times, its checkpoint.  *)
(***************************************************************************)
EXTENDS Integers, FiniteSets

CONSTANTS
    SessionItems,       \* item -> "direct", "mixed", "witnessed" or "none"
    Bindings,           \* the bindings a caller may present
    Inactivity, SessionLifetime, RequestLifetime,
    MaxPreflight, MaxNow, MaxBack, MaxVersion

ASSUME SessionAssumption ==
    /\ Inactivity \in Nat /\ SessionLifetime \in Nat
    /\ \A b \in Bindings :
         b.item # 0 /\ b.issued \in Nat /\ b.notBefore \in Nat /\ b.expires \in Nat

VARIABLES
    session,    \* PrincipalVaultSession
    now, backs, \* the caller's clock, and how often it stepped back
    version,    \* the vault's current public state
    release     \* the last thing released to the caller

sessionVars == <<session, now, backs, version, release>>

None == [item |-> 0]
NoSession == [phase |-> "Parsed"]

Operable == {"Principal", "Approved", "UnlockedItem", "WitnessPending"}
SessionRoles == {"descriptor", "body"}
Statuses == {"Denied", "Expired", "Stale", "Replay", "Unavailable", "Cancelled", "InsufficientQuorum"}

\* policy.access
Accessible(item) == SessionItems[item] # "none"

SessionInit ==
    /\ session = NoSession
    /\ now = 0 /\ backs = 0
    /\ version = 1
    /\ release = None

\* start_session: the checkpoint is exactly the validated public state.
StartSession ==
    /\ session.phase = "Parsed"
    /\ session' = [phase |-> "Principal", version |-> version, started |-> now, last |-> now,
                   absolute |-> now + SessionLifetime, catalog |-> {}, bodies |-> {},
                   pending |-> None, active |-> None]
    /\ UNCHANGED <<now, backs, version, release>>

\* enter_terminal
Ended(phase) ==
    [session EXCEPT !.phase = phase, !.catalog = {}, !.bodies = {}, !.pending = None, !.active = None]

---------------------------------------------------------------------------------
(* check_live: the phase the session ends in, or "live". *)

Liveness(s) ==
    CASE now < s.last -> "Failed"
      [] now >= s.absolute \/ now - s.last >= Inactivity -> "Expired"
      [] OTHER -> "live"

\* A call on a session that is not live ends it.
CallTooLate ==
    /\ session.phase \in Operable
    /\ Liveness(session) # "live"
    /\ session' = Ended(Liveness(session))
    /\ UNCHANGED <<now, backs, version, release>>

Live == session.phase \in Operable /\ Liveness(session) = "live"

\* validate_witness_binding
BindingValid(b, item, role) ==
    /\ b.item = item /\ b.role = role
    /\ b.version = session.version
    /\ session.started <= b.issued /\ b.issued <= now
    /\ now < b.expires /\ b.expires <= session.absolute
    /\ 0 < b.expires - b.issued /\ b.expires - b.issued <= RequestLifetime
    /\ b.notBefore # 0 => b.issued <= b.notBefore /\ b.notBefore <= b.expires
    /\ SessionItems[item] \in {"witnessed", "mixed"}

\* The pending request, without comparing the request that is presented.
MutPinned(b) == session.pending # None => b # None

\* access_revision: a pending request excludes everything else.
Pinned(b) == session.pending # None => b = session.pending

\* The authority that opened has to be the one that was asked for.
AuthorityMatches(authority, b) ==
    IF authority = "direct" THEN b = None /\ session.pending = None ELSE b # None

---------------------------------------------------------------------------------
(* access_revision.  Each action is one way through it, for a descriptor    *)
(* not in the catalog yet (discover_descriptor) or for the body of an item  *)
(* that is (open_item).                                                     *)

Attempt(item, role) ==
    /\ Live
    /\ Accessible(item)
    /\ role = "descriptor" <=> item \notin session.catalog

Refuse(phase) == session' = Ended(phase) /\ UNCHANGED <<now, backs, version, release>>

\* Cancelled before anything else, or another request is presented.
AccessRefused(item, role, b) ==
    /\ Attempt(item, role)
    /\ \/ Refuse("Cancelled")
       \/ ~Pinned(b) /\ Refuse("Replay")
       \/ Pinned(b) /\ b # None /\ b.expires <= now /\ Refuse("Expired")
       \/ /\ Pinned(b) /\ b # None /\ b.expires > now
          /\ ~BindingValid(b, item, role)
          /\ session.pending # None
          /\ Refuse("Replay")

\* The checks before the provider is asked.
Admitted(item, role, b) ==
    /\ Attempt(item, role)
    /\ Pinned(b)
    /\ b # None => BindingValid(b, item, role)

AccessNotYet(item, role, b) ==
    /\ Admitted(item, role, b)
    /\ b # None /\ now < b.notBefore
    /\ session' = [session EXCEPT !.pending = b, !.active = [item |-> item, role |-> role], !.phase = "WitnessPending"]
    /\ UNCHANGED <<now, backs, version, release>>

Asked(item, role, b) == Admitted(item, role, b) /\ (b # None => b.notBefore <= now)

\* The provider completes.  A caller may pass either kind of provider.  A
\* descriptor that the catalog refuses (a name that is there already, or one
\* entry too many) is wiped instead of released.
AccessComplete(item, role, b, authority) ==
    /\ Asked(item, role, b)
    /\ authority = "direct" => SessionItems[item] \in {"direct", "mixed"}
    /\ authority = "witnessed" => SessionItems[item] \in {"witnessed", "mixed"}
    /\ \E kept \in {TRUE} \cup {role # "descriptor"} :
         IF AuthorityMatches(authority, b)
         THEN /\ session' = [session EXCEPT
                   !.pending = None, !.active = [item |-> item, role |-> role], !.last = now,
                   !.phase = IF authority = "direct" THEN "UnlockedItem" ELSE "Approved",
                   !.catalog = IF kept THEN @ \cup {item} ELSE @,
                   !.bodies = IF role = "body" THEN @ \cup {item} ELSE @]
              /\ release' = IF kept
                            THEN [item |-> item, role |-> role, authority |-> authority, binding |-> b, at |-> now,
                                  idle |-> now - session.last, started |-> session.started]
                            ELSE release
         ELSE session' = Ended("Replay") /\ UNCHANGED release
    /\ UNCHANGED <<now, backs, version>>

\* apply_witness_status, and the errors of a provider or a consumer.
AccessFails(item, role, b) ==
    /\ Asked(item, role, b)
    /\ session' \in
         (IF b = None THEN {Ended("Failed")}
          ELSE {Ended(s) : s \in Statuses} \cup {[session EXCEPT !.pending = b, !.phase = "WitnessPending"]})
         \cup {Ended(s) : s \in {"Cancelled", "Stale", "Unavailable", "Failed"}}
    /\ UNCHANGED <<now, backs, version, release>>

\* snapshot: every item of the catalog, of which there may be none.
Snapshot ==
    /\ Live
    /\ session' = [session EXCEPT !.last = now]
    /\ UNCHANGED <<now, backs, version, release>>

\* preflight_items: only items in the catalog, each once.
Preflight(items) ==
    /\ Live
    /\ items # {} /\ items \subseteq session.catalog /\ Cardinality(items) <= MaxPreflight
    /\ session' = [session EXCEPT !.last = now]
    /\ UNCHANGED <<now, backs, version, release>>

\* refresh_same
RefreshSame ==
    /\ Live
    /\ session' = IF session.pending = None /\ version = session.version
                  THEN [session EXCEPT !.last = now, !.phase = "Principal"]
                  ELSE Ended("Stale")
    /\ UNCHANGED <<now, backs, version, release>>

\* cancel, handle_signal and lock
EndSession(phase) ==
    /\ session.phase # "Parsed"
    /\ session' = Ended(phase)
    /\ UNCHANGED <<now, backs, version, release>>

TimePasses == now < MaxNow /\ now' = now + 1 /\ UNCHANGED <<session, backs, version, release>>
StepBack == now > 0 /\ backs < MaxBack /\ now' = now - 1 /\ backs' = backs + 1
            /\ UNCHANGED <<session, version, release>>
VaultMoves == version < MaxVersion /\ version' = version + 1 /\ UNCHANGED <<session, now, backs, release>>

SessionNext ==
    \/ StartSession \/ CallTooLate \/ Snapshot \/ RefreshSame \/ TimePasses \/ StepBack \/ VaultMoves
    \/ \E phase \in {"Cancelled", "Locked"} : EndSession(phase)
    \/ \E items \in SUBSET DOMAIN SessionItems : Preflight(items)
    \/ \E item \in DOMAIN SessionItems, role \in SessionRoles, b \in Bindings \cup {None} :
         \/ AccessRefused(item, role, b)
         \/ AccessNotYet(item, role, b)
         \/ AccessFails(item, role, b)
         \/ \E authority \in {"direct", "witnessed"} : AccessComplete(item, role, b, authority)

SessionSpec == SessionInit /\ [][SessionNext]_sessionVars

---------------------------------------------------------------------------------
\* A pending witnessed request never turns into other access: until the
\* session ends, what is released next is what that request names, with the
\* witnesses' approval, whichever provider the caller passes.
PendingPinned ==
    [][session.phase = "WitnessPending" /\ release' # release =>
         /\ release'.authority = "witnessed"
         /\ release'.item = session.pending.item
         /\ release'.role = session.pending.role]_sessionVars

\* Whatever was released was released before the session's end, within its
\* inactivity limit, and a witnessed one while its own request was valid; an
\* ended session holds nothing (check_live, access_revision, enter_terminal).
ReleasedInTime ==
    /\ release # None =>
         /\ release.at >= release.started /\ release.at < release.started + SessionLifetime
         /\ release.idle < Inactivity
         /\ release.binding # None =>
              /\ release.binding.notBefore <= release.at /\ release.at < release.binding.expires
              /\ release.binding.issued >= release.started
    /\ session.phase \notin Operable \cup {"Parsed"} =>
         /\ session.catalog = {} /\ session.bodies = {}
         /\ session.pending = None /\ session.active = None

\* A session gives only what it was asked for, while it may: what is released
\* is in time, and a request that waits for its witnesses does not turn into
\* other access (access_revision behind check_live).
SessionBounded == []ReleasedInTime /\ PendingPinned
=================================================================================
