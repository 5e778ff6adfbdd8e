--------------------------- MODULE RolloverBootstrap ---------------------------
(***************************************************************************)
(* The new lineage a rollover prepares: its first policy revision, its     *)
(* witness policies and owner labels, and the fresh registrations of every *)
(* approver and witness; and the verifications it has to pass at once,     *)
(* and for as long as it is used.                                          *)
(*                                                                         *)
(* Items and fields get new identifiers.  A public scope (a target a rule  *)
(* may read without approval, or the subject of an owner label) moves with *)
(* them; one that names a deleted item keeps its identifiers, and one that *)
(* names a removed field of a kept item gets an identifier of its own.     *)
(*                                                                         *)
(* Keys, signatures and ciphertexts are left out: an artifact that its     *)
(* signer did not make is the content "invalid".                           *)
(***************************************************************************)
EXTENDS SequenceOrder, FiniteSetsExt

CONSTANTS
    BootstrapSources,   \* source vaults, as read with their catalogs
    ScopeUses,          \* uses of scopes before and after, for the comparison by itself
    RegistrationLifetime, MaxSkew, MaxClock, MaxFiles

\* Times are milliseconds since 1970; public scopes are finite sets.
ASSUME BootstrapAssumption ==
    /\ RegistrationLifetime \in Nat /\ MaxSkew \in Nat /\ MaxClock \in Nat /\ MaxFiles \in Nat
    /\ \A s \in BootstrapSources : s.time \in Nat
    /\ IsFiniteSet(ScopeUses[1]) /\ IsFiniteSet(ScopeUses[2])

VARIABLES
    vault,      \* the source
    clock,      \* the owner's clock
    draft,      \* the draft: times, identifiers, challenges
    files,      \* the registration directory: one proof file per candidate
    poll,       \* ProofPoll: the files it read last, if any, and when to try them again
    written,    \* how many times candidates wrote a file
    new,        \* the destination and its catalog
    compared    \* two sets of scopes, for the comparison by itself

bootstrapVars == <<vault, clock, draft, files, poll, written, new, compared>>

Nobody == 0
NoField == 0
NoDraft == [state |-> "none"]
NoVault == [state |-> "none"]

---------------------------------------------------------------------------------
(* The source: principals [id -> kind, label, settings, since], owners, items *)
(* [id -> kind, grants, direct, policy, fields], used (every item           *)
(* identifier ever used), policies [id -> targets, labels], suite, time.    *)

Serving(s) == {p \in DOMAIN s.principals : s.principals[p].kind \in {"approver", "witness"}}

\* require_direct
RequireDirect(s) == Serving(s) = {} /\ \A i \in DOMAIN s.items : s.items[i].policy = Nobody

\* principals
PrincipalEntries(s) ==
    [p \in DOMAIN s.principals |-> [kind |-> s.principals[p].kind, label |-> s.principals[p].label,
                                    owner |-> p \in s.owners]]

\* effective_reader_ids, effective_role
ReadersOf(s, i) == s.owners \cup DOMAIN s.items[i].grants
ReaderRole(s, i, p) == IF p \in s.owners THEN "owner" ELSE s.items[i].grants[p]

\* grants
GrantEntries(s, i) ==
    {[id |-> p, role |-> ReaderRole(s, i, p), direct |-> p \in s.items[i].direct] : p \in ReadersOf(s, i)}

\* initial_templates: the witness policies that items use.
Templates(s) == {s.items[i].policy : i \in DOMAIN s.items} \ {Nobody}

Labels(s) == UNION {s.policies[w].labels : w \in Templates(s)}

\* public_targets
PublicTargets(s) ==
    UNION {{<<t.item, t.field>> : t \in s.policies[w].targets} : w \in Templates(s)}
      \cup {<<l.item, l.field>> : l \in {l \in Labels(s) : l.item # Nobody}}

\* ensure_label_lifetime
LabelLifetime(labels, issued) ==
    \A l \in labels : l.expires # Nobody => l.expires > issued + RegistrationLifetime

---------------------------------------------------------------------------------
(* Identifiers.  Random draws that avoid what is reserved: the numbers      *)
(* above every number in use.                                               *)

ReservedIds(s) == s.used \cup {t[1] : t \in PublicTargets(s)}
RenamedItem(s, i) == Max(ReservedIds(s) \cup {0}) + i

\* Fields of the item itself and fields only public scopes still name.
PriorFields(s, i) == s.items[i].fields \cup ({t[2] : t \in {t \in PublicTargets(s) : t[1] = i}} \ {NoField})

RenamedField(s, i, f) == Max(PriorFields(s, i)) + f

\* remap and remapped_subject, for a target or for a label's subject.
Remapped(s, scope) ==
    IF scope.item \in DOMAIN s.items
    THEN [scope EXCEPT !.item = RenamedItem(s, scope.item),
                       !.field = IF scope.field = NoField THEN NoField
                                 ELSE RenamedField(s, scope.item, scope.field)]
    ELSE scope

RenamedPolicy(s, w) == Max(DOMAIN s.policies) + w
RenamedLabel(s, l) == Max({k.id : k \in Labels(s)}) + l.id

\* initial_templates, remap and bind_final_genesis for one policy.
DestinationPolicy(s, w, t) ==
    [targets |-> {Remapped(s, target) : target \in s.policies[w].targets},
     labels |-> {[Remapped(s, l) EXCEPT !.id = RenamedLabel(s, l), !.issued = t] : l \in s.policies[w].labels},
     rules |-> s.policies[w].rules, revision |-> 1]

\* witness_intent_digest: everything of the policy and its labels.
Intent(policy) == policy

---------------------------------------------------------------------------------
(* The first revision *)

\* principal_operations; the acting owner is in genesis with the label "owner".
BootstrapPrincipals(s, acting, proof) ==
    LET Of(p) == IF p = acting
                 THEN IF s.principals[p].label = "owner" THEN <<>> ELSE <<<<"label", p, s.principals[p].label>>>>
                 ELSE <<<<"add", p, s.principals[p].kind, s.principals[p].label,
                          IF p \in DOMAIN proof THEN proof[p] ELSE Nobody>>>>
                        \o (IF p \in s.owners THEN <<<<"owner", p>>>> ELSE <<>>)
    IN Joined([n \in 1..Cardinality(DOMAIN s.principals) |->
                     Of(InOrder(DOMAIN s.principals)[n])])

\* resolve_access: direct slots go to the plan's recipients and to all owners.
SealedTo(s, i) == IF s.items[i].direct = {} THEN {} ELSE s.items[i].direct \cup s.owners

\* stage_create, finish_create and append_creation_grants.
BootstrapItems(s, i) ==
    LET item == s.items[i]
        later == InOrder(DOMAIN item.grants \ SealedTo(s, i))
    IN <<<<"create", RenamedItem(s, i), item.kind, [p \in SealedTo(s, i) |-> ReaderRole(s, i, p)],
           IF item.policy = Nobody THEN Nobody ELSE RenamedPolicy(s, item.policy)>>>>
         \o [n \in DOMAIN later |-> <<"role", RenamedItem(s, i), later[n], item.grants[later[n]]>>]

BootstrapOperations(s, acting, proof) ==
    LET order == InOrder(DOMAIN s.items)
    IN BootstrapPrincipals(s, acting, proof) \o Joined([n \in DOMAIN order |-> BootstrapItems(s, order[n])])

\* One operation of the replayed revision (PolicyReplay has them all).
Replayed(state, op) ==
    CASE op[1] = "label" -> [state EXCEPT !.principals[op[2]].label = op[3]]
      [] op[1] = "add" -> [state EXCEPT !.principals =
             [p \in DOMAIN @ \cup {op[2]} |-> IF p = op[2] THEN [kind |-> op[3], label |-> op[4]] ELSE @[p]]]
      [] op[1] = "owner" -> [state EXCEPT !.owners = @ \cup {op[2]}]
      [] op[1] = "create" -> [state EXCEPT !.items =
             [i \in DOMAIN @ \cup {op[2]} |->
                IF i = op[2]
                THEN [kind |-> op[3], direct |-> DOMAIN op[4], policy |-> op[5],
                      grants |-> [p \in {q \in DOMAIN op[4] : op[4][q] # "owner"} |-> op[4][p]]]
                ELSE @[i]]]
      [] op[1] = "role" -> [state EXCEPT !.items[op[2]].grants =
             [p \in DOMAIN @ \cup {op[3]} |-> IF p = op[3] THEN op[4] ELSE @[p]]]

\* bootstrap_state: genesis and the first revision.
BootstrapState(operations, acting) ==
    LET state[n \in 0 .. Len(operations)] ==
            IF n = 0
            THEN [principals |-> [p \in {acting} |-> [kind |-> "human", label |-> "owner"]],
                  owners |-> {acting}, items |-> [i \in {} |-> Nobody]]
            ELSE Replayed(state[n - 1], operations[n])
    IN  state[Len(operations)]

Manifest(s, acting, suite, t) ==
    [acting |-> acting, created |-> t, from |-> s.suite, to |-> suite, principals |-> PrincipalEntries(s),
     items |-> [i \in DOMAIN s.items |-> [to |-> RenamedItem(s, i), kind |-> s.items[i].kind,
                                         grants |-> GrantEntries(s, i), policy |-> s.items[i].policy]],
     policies |-> [w \in Templates(s) |-> [to |-> RenamedPolicy(s, w),
                                           intent |-> Intent(DestinationPolicy(s, w, t))]]]

\* validate_shape, with the identifiers in order, so that none occurs twice.
BootstrapShape(m) ==
    LET owners == {p \in DOMAIN m.principals : m.principals[p].owner}
        newItems == {m.items[i].to : i \in DOMAIN m.items}
        newPolicies == {m.policies[w].to : w \in DOMAIN m.policies}
    IN /\ <<m.from, m.to>> \in {<<1, 1>>, <<1, 2>>, <<2, 2>>}
       /\ m.acting \in owners
       /\ Cardinality(newItems) = Cardinality(DOMAIN m.items)
       /\ newItems \cap DOMAIN m.items = {}
       /\ Cardinality(newPolicies) = Cardinality(DOMAIN m.policies)
       /\ newPolicies \cap DOMAIN m.policies = {}
       /\ DOMAIN m.policies = {m.items[i].policy : i \in DOMAIN m.items} \ {Nobody}
       /\ \A i \in DOMAIN m.items :
            /\ owners \subseteq {g.id : g \in m.items[i].grants}
            /\ \A g \in m.items[i].grants :
                 /\ g.id \in DOMAIN m.principals
                 /\ g.id \in owners <=> g.role = "owner"
                 /\ g.direct \/ m.items[i].policy # Nobody
                 /\ m.items[i].kind = "legacy" => g.id \in owners

---------------------------------------------------------------------------------
(* Comparing public scopes.  A use is [item, field, token, n]; n tells equal *)
(* uses of one field apart.                                                  *)

FieldsOf(uses) == {<<u.item, u.field>> : u \in {u \in uses : u.field # NoField}}
UsesOf(uses, key) ==
    LET mine == {u \in uses : u.item = key[1] /\ u.field = key[2]}
    IN [t \in {u.token : u \in mine} |-> Cardinality({u \in mine : u.token = t})]

\* canonical_patterns: sorted, so how often each pattern occurs.
CanonicalPatterns(uses) ==
    LET Pattern(key) == <<key[1], UsesOf(uses, key)>>
    IN [p \in {Pattern(key) : key \in FieldsOf(uses)} |->
          Cardinality({key \in FieldsOf(uses) : Pattern(key) = p})]

OtherUses(uses) == LET other == {u \in uses : u.field = NoField}
                   IN [o \in {<<u.item, u.token>> : u \in other} |->
                         Cardinality({u \in other : <<u.item, u.token>> = o})]

\* scopes_preserved, comparing which tokens each item's fields have.
MutScopesPreserved(prior, next) ==
    /\ FieldsOf(prior) \cap FieldsOf(next) = {}
    /\ OtherUses(prior) = OtherUses(next)
    /\ DOMAIN CanonicalPatterns(prior) = DOMAIN CanonicalPatterns(next)

\* scopes_preserved
ScopesPreserved(prior, next) ==
    /\ FieldsOf(prior) \cap FieldsOf(next) = {}
    /\ OtherUses(prior) = OtherUses(next)
    /\ CanonicalPatterns(prior) = CanonicalPatterns(next)

\* What the comment above PublicScopes asks for: a bijection of the fields
\* that keeps the item and every use.
ScopesBijective(prior, next) ==
    /\ FieldsOf(prior) \cap FieldsOf(next) = {}
    /\ OtherUses(prior) = OtherUses(next)
    /\ \E f \in [FieldsOf(prior) -> FieldsOf(next)] :
         /\ {f[key] : key \in DOMAIN f} = FieldsOf(next)
         /\ \A j, k \in DOMAIN f : f[j] = f[k] => j = k
         /\ \A key \in DOMAIN f : f[key][1] = key[1] /\ UsesOf(next, f[key]) = UsesOf(prior, key)

\* add_with_inactive and add_label_scope: deleted items keep their fields.
Inactive(s) == {t[1] : t \in PublicTargets(s)} \ DOMAIN s.items
UseOf(s, w, scope, item) ==
    LET token == <<w, scope.text, scope.expires>>
    IN IF item \in Inactive(s)
       THEN [item |-> item, field |-> NoField, token |-> <<scope.field>> \o token, n |-> scope.id]
       ELSE [item |-> item, field |-> scope.field, token |-> token, n |-> scope.id]

PolicyScopes(policy) == policy.targets \cup policy.labels

\* verify, the scopes before: the items have their new identifiers already.
PriorScopes(s) ==
    UNION {{UseOf(s, w, c, IF c.item \in DOMAIN s.items THEN RenamedItem(s, c.item) ELSE c.item) :
              c \in PolicyScopes(s.policies[w])} : w \in Templates(s)}
\* ... and the scopes after.
NextScopes(s, policies) ==
    UNION {{UseOf(s, w, c, c.item) : c \in PolicyScopes(policies[RenamedPolicy(s, w)])} : w \in Templates(s)}

\* verify_owner_review_label
LabelCurrent(label, now) ==
    /\ label.issued <= now + MaxSkew
    /\ label.expires # Nobody => now < label.expires

---------------------------------------------------------------------------------
(* Proofs and destinations *)

\* create_challenge, for a candidate whom the new genesis does not know.
CreateChallenge(round, t) == [round |-> round, issued |-> t, expires |-> t + RegistrationLifetime]

\* fresh_challenges: one for each role active in the source.
FreshChallenges(s, t) == [p \in Serving(s) |-> CreateChallenge(1, t)]

\* create_role_descriptor: the settings a new role starts with.
CreateRole(kind, t) == [kind |-> kind, settings |-> "initial", created |-> t]

\* validate_role_descriptor
RoleFits(s, p, role) == role.kind = s.principals[p].kind

\* answer_challenge, by a clock of the candidate's own.
AnswerOf(kind, challenge, own) ==
    [kind |-> "proof", challenge |-> challenge, role |-> CreateRole(kind, challenge.issued), created |-> own]

\* answer_rollover_challenge: the role keeps the settings it has in the source.
RolloverAnswer(s, p, challenge, own) ==
    [AnswerOf(s.principals[p].kind, challenge, own) EXCEPT !.role.settings = s.principals[p].settings]

\* same_fresh_role
SameFreshRole(s, p, role, t) ==
    /\ s.principals[p].since <= t
    /\ role = [kind |-> s.principals[p].kind, settings |-> s.principals[p].settings, created |-> t]

\* verify_proof_signatures and verify_fresh_roles, for a proof
\* [kind, challenge, role, created].
ProofCurrent(s, p, proof, now) ==
    /\ proof.kind = "proof"
    /\ proof.challenge.issued <= now /\ now <= proof.challenge.expires
    /\ proof.challenge.issued <= proof.created /\ proof.created <= now
    /\ RoleFits(s, p, proof.role)
    /\ SameFreshRole(s, p, proof.role, proof.challenge.issued)

\* verify_proof: and it answers this challenge, which only its candidate can.
VerifyProof(s, p, challenge, proof, now) == ProofCurrent(s, p, proof, now) /\ proof.challenge = challenge

\* verify_registration_proof, for a challenge of this draft.
AnswersChallenge(p, proof, now) == VerifyProof(vault, p, draft.challenges[p], proof, now)

\* required_roles, keeping only the roles that are active now.
MutRequiredRoles(n) == n.serving

\* required_roles: the roles active now and those of the first revision.
RequiredRoles(n) == n.serving \cup {op[2] : op \in {o \in Range(n.operations) :
                                      o[1] = "add" /\ o[3] \in {"approver", "witness"}}}

\* for_vault: the proofs the catalog keeps.
ForVault(n) == [n EXCEPT !.proofs = [p \in DOMAIN @ \cap RequiredRoles(n) |-> @[p]]]

\* The witness policies of the bootstrap, by identifier.
BootstrapPolicies(s, n) ==
    [w \in {RenamedPolicy(s, v) : v \in Templates(s)} |->
       (CHOOSE q \in n.policies : q.id = w /\ q.policy.revision = 1).policy]

\* validate_retained_bootstrap
RetainedBootstrap(s, n) ==
    LET policies == BootstrapPolicies(s, n)
        manifest == n.manifest
        state == BootstrapState(n.operations, manifest.acting)
    IN /\ BootstrapShape(manifest)
       /\ n.time >= manifest.created
       /\ \A p \in Serving(s) :
            /\ p \in DOMAIN n.proofs
            /\ n.proofs[p].challenge.issued >= manifest.created
            /\ ProofCurrent(s, p, n.proofs[p], n.time)
       /\ \A w \in Templates(s) :
            /\ \E q \in n.policies : q.id = RenamedPolicy(s, w) /\ q.policy.revision = 1
            /\ manifest.policies[w].intent = Intent(policies[RenamedPolicy(s, w)])
            /\ \A l \in policies[RenamedPolicy(s, w)].labels :
                 LabelCurrent(l, n.time) /\ l.issued = manifest.created
       /\ DOMAIN state.items = {manifest.items[i].to : i \in DOMAIN manifest.items}

\* verify_source_authorization: an owner of the source's last revision acts.
SourceAuthorized(s, n) == n.manifest.acting \in s.owners /\ n.manifest.created >= s.time

\* migration::verify: the change of suite is signed, and only where there is one.
MigrationSigned(n) ==
    /\ n.manifest.to = n.suite
    /\ n.migration = IF n.manifest.from = n.suite THEN "none" ELSE "signed"

\* What both verifications compare: the principals, the owners and each item.
SameInventory(s, n, state) ==
    /\ n.manifest.principals = PrincipalEntries(s)
    /\ DOMAIN state.principals = DOMAIN s.principals
    /\ \A p \in DOMAIN s.principals :
         state.principals[p] = [kind |-> s.principals[p].kind, label |-> s.principals[p].label]
    /\ state.owners = s.owners
    /\ DOMAIN n.manifest.items = DOMAIN s.items
    /\ \A i \in DOMAIN s.items :
         LET entry == n.manifest.items[i]
             item == state.items[entry.to]
         IN /\ entry.to \notin s.used
            /\ item.kind = s.items[i].kind
            /\ item.grants = s.items[i].grants
            /\ entry.grants = GrantEntries(s, i)
            /\ entry.grants = GrantEntries(state, entry.to)

\* verify_direct_destination
VerifyDirect(s, n) ==
    /\ RequireDirect(s)
    /\ SourceAuthorized(s, n)
    /\ SameInventory(s, n, BootstrapState(n.operations, n.manifest.acting))
    /\ DOMAIN n.manifest.policies = {}
    /\ n.time = n.manifest.created
    /\ n.operations = BootstrapOperations(s, n.manifest.acting, [p \in {} |-> Nobody])

\* scopes::verify
VerifyScopes(s, n) ==
    LET policies == BootstrapPolicies(s, n)
        next(w) == policies[n.manifest.policies[w].to]
    IN /\ \A i \in DOMAIN s.items : n.manifest.items[i].to \notin Inactive(s)
       /\ \A w \in Templates(s) :
            /\ n.manifest.policies[w].to \notin DOMAIN s.policies
            /\ next(w).revision = 1 /\ next(w).rules = s.policies[w].rules
            /\ Intent(next(w)) = n.manifest.policies[w].intent
            /\ \A l \in s.policies[w].labels : LabelCurrent(l, n.time)
            /\ \A l \in next(w).labels :
                 /\ LabelCurrent(l, n.time)
                 /\ l.id \notin {k.id : k \in Labels(s)}
                 /\ l.issued = n.manifest.created
       /\ ScopesPreserved(PriorScopes(s), NextScopes(s, policies))

\* verify_governed_destination
VerifyGoverned(s, n) ==
    LET state == BootstrapState(n.operations, n.manifest.acting)
    IN /\ SourceAuthorized(s, n)
       /\ SameInventory(s, n, state)
       /\ n.time >= n.manifest.created
       /\ \A p \in Serving(s) :
            /\ n.proofs[p].challenge.issued >= n.manifest.created
            /\ ProofCurrent(s, p, n.proofs[p], n.time)
       /\ \A i \in DOMAIN s.items :
            LET policy == state.items[n.manifest.items[i].to].policy
            IN IF s.items[i].policy = Nobody THEN policy = Nobody
               ELSE policy = n.manifest.policies[s.items[i].policy].to
       /\ n.operations = BootstrapOperations(s, n.manifest.acting, [p \in Serving(s) |-> n.proofs[p].created])
       /\ VerifyScopes(s, n)

\* ValidatedDestination::validate, and the verification of its kind.
VerifyDestination(s, n) ==
    /\ MigrationSigned(n)
    /\ RetainedBootstrap(s, n)
    /\ IF RequireDirect(s) THEN VerifyDirect(s, n) ELSE VerifyGoverned(s, n)

---------------------------------------------------------------------------------
NoContribution == [kind |-> "none"]

BootstrapInit ==
    /\ vault \in BootstrapSources
    /\ clock = vault.time
    /\ draft = NoDraft
    /\ files = [p \in Serving(vault) |-> NoContribution]
    /\ poll = [previous |-> {}, retry |-> Nobody]
    /\ written = 0
    /\ new = NoVault
    /\ compared \in IF vault.time = 0 THEN (SUBSET ScopeUses[1]) \X (SUBSET ScopeUses[2]) ELSE {<<{}, {}>>}

TickClock ==
    /\ clock < MaxClock
    /\ vault.time > 0
    /\ clock' = clock + 1
    /\ UNCHANGED <<vault, draft, files, poll, written, new, compared>>

\* migration::attach
Attached(s, suite) == IF suite = s.suite THEN "none" ELSE "signed"

\* require_migration: an explicit change of suite is from the first to the second.
DestinationSuites(s) == {s.suite} \cup (IF s.suite = 1 THEN {2} ELSE {})

\* The vault and the catalog that a finished bootstrap is.
Bootstrapped(s, acting, suite, created, proofs, now) ==
    [state |-> "whole", manifest |-> Manifest(s, acting, suite, created), time |-> now,
     suite |-> suite, migration |-> Attached(s, suite),
     operations |-> BootstrapOperations(s, acting, [p \in Serving(s) |-> proofs[p].created]),
     policies |-> {[id |-> RenamedPolicy(s, w), policy |-> DestinationPolicy(s, w, created)] : w \in Templates(s)},
     proofs |-> proofs, serving |-> Serving(s)]

\* prepare_direct: complete at once.
PrepareDirect ==
    /\ draft = NoDraft /\ vault.time > 0
    /\ RequireDirect(vault)
    /\ \E acting \in vault.owners, suite \in DestinationSuites(vault) :
         LET n == Bootstrapped(vault, acting, suite, clock, files, clock)
         IN IF VerifyDestination(vault, n)
            THEN new' = n /\ draft' = [state |-> "complete"]
            ELSE draft' = [state |-> "stranded"] /\ UNCHANGED new
    /\ UNCHANGED <<vault, clock, files, poll, written, compared>>

\* RolloverAccess::new: what the source's witnesses have to open, in order:
\* descriptor and body of each item the acting owner has no slot of.
SourceParts(s, acting) ==
    Joined([n \in 1..Cardinality(DOMAIN s.items) |->
                  LET i == InOrder(DOMAIN s.items)[n]
                  IN IF acting \in s.items[i].direct THEN <<>> ELSE <<<<i, "descriptor">>, <<i, "body">>>>])

\* prepare_governed: refused before anything is asked of the source's
\* approvers when a label expires too early, or when a role was created later.
PrepareGoverned ==
    /\ draft = NoDraft /\ vault.time > 0
    /\ ~RequireDirect(vault)
    /\ \E acting \in vault.owners, suite \in DestinationSuites(vault) :
         draft' = IF /\ LabelLifetime(Labels(vault), clock)
                     /\ \A p \in Serving(vault) : vault.principals[p].since <= clock
                  THEN [state |-> "drafted", acting |-> acting, suite |-> suite, created |-> clock,
                        challenges |-> FreshChallenges(vault, clock), left |-> SourceParts(vault, acting)]
                  ELSE [state |-> "refused"]
    /\ UNCHANGED <<vault, clock, files, poll, written, new, compared>>

\* open_part: complete, or the preparation fails.
OpenPart(d) == {[d EXCEPT !.left = Tail(@)], [state |-> "refused"]}

\* access_revision and collect: the next part is opened and its receipt
\* published, or the whole preparation fails.
AccessPart ==
    /\ draft.state = "drafted" /\ draft.left # <<>>
    /\ draft' \in OpenPart(draft)
    /\ UNCHANGED <<vault, clock, files, poll, written, new, compared>>

\* renew_registration_challenges, once the approvals are in, and the
\* challenges and the journal are published in the registration directory.
RenewChallenges ==
    /\ draft.state = "drafted" /\ draft.left = <<>>
    /\ draft' = IF /\ LabelLifetime(Labels(vault), clock)
                   /\ \A p \in DOMAIN draft.challenges : clock >= draft.challenges[p].issued
                THEN [draft EXCEPT !.state = "waiting",
                                   !.challenges = [p \in DOMAIN @ |-> CreateChallenge(2, clock)]]
                ELSE [state |-> "refused"]
    /\ UNCHANGED <<vault, clock, files, poll, written, new, compared>>

\* verify_registration_draft
RegistrationDraft(s, manifest) ==
    /\ BootstrapShape(manifest)
    /\ manifest.principals = PrincipalEntries(s)
    /\ DOMAIN manifest.items = DOMAIN s.items
    /\ \A i \in DOMAIN s.items :
         /\ manifest.items[i].kind = s.items[i].kind
         /\ manifest.items[i].grants = GrantEntries(s, i)
         /\ manifest.items[i].to \notin s.used
         /\ manifest.items[i].policy \in DOMAIN manifest.policies \cup {Nobody}
    /\ \A w \in DOMAIN manifest.policies : manifest.policies[w].to \notin DOMAIN s.policies

\* answer_rollover_proof: the candidate checks the draft against the source,
\* and the challenge by a clock of its own.
AnswerChallenge(p) ==
    /\ draft.state = "waiting"
    /\ RegistrationDraft(vault, Manifest(vault, draft.acting, draft.suite, draft.created))
    /\ written < MaxFiles
    /\ \E own \in (clock - MaxSkew)..(clock + MaxSkew) :
         /\ draft.challenges[p].issued <= own /\ own <= draft.challenges[p].expires
         /\ vault.principals[p].since <= draft.challenges[p].issued
         /\ files' = [files EXCEPT ![p] = RolloverAnswer(vault, p, draft.challenges[p], own)]
    /\ written' = written + 1
    /\ UNCHANGED <<vault, clock, draft, poll, new, compared>>

\* Something else is put there: no proof, or a proof for another challenge.
MisplaceFile(p) ==
    /\ draft.state = "waiting"
    /\ written < MaxFiles
    /\ \E file \in {[kind |-> "malformed"],
                    RolloverAnswer(vault, p, CreateChallenge(1, draft.created), clock)} :
         files' = [files EXCEPT ![p] = file]
    /\ written' = written + 1
    /\ UNCHANGED <<vault, clock, draft, poll, new, compared>>

\* The earliest time a file dated in the future may become valid.
RetryAt(now) ==
    LET ValidFrom(p) == Max({draft.challenges[p].issued, files[p].created})
        future == {p \in DOMAIN files : /\ files[p].kind = "proof"
                                        /\ ValidFrom(p) > now /\ ValidFrom(p) <= draft.challenges[p].expires}
    IN IF future = {} THEN Nobody ELSE Min({ValidFrom(p) : p \in future})

\* read goes on only past the time it noted.
MutDue(now) == poll.previous # {files} \/ (poll.retry # Nobody /\ now > poll.retry)

\* changed, and read's early return.
Due(now) == poll.previous # {files} \/ (poll.retry # Nobody /\ now >= poll.retry)

\* ProofPoll::read, and complete with the same time.
Poll ==
    /\ draft.state = "waiting"
    /\ Due(clock)
    /\ poll' = [previous |-> {files}, retry |-> RetryAt(clock)]
    /\ IF \A p \in DOMAIN files : AnswersChallenge(p, files[p], clock)
       THEN LET n == Bootstrapped(vault, draft.acting, draft.suite, draft.created, files, clock)
            IN IF VerifyDestination(vault, n)
               THEN new' = n /\ draft' = [state |-> "complete"]
               ELSE draft' = [state |-> "stranded"] /\ UNCHANGED new
       ELSE UNCHANGED <<draft, new>>
    /\ UNCHANGED <<vault, clock, files, written, compared>>

\* The wait ends.
StopWaiting ==
    /\ draft.state = "waiting"
    /\ draft' = [state |-> "refused"]
    /\ UNCHANGED <<vault, clock, files, poll, written, new, compared>>

---------------------------------------------------------------------------------
(* The destination in use: its catalog is selected again for each revision. *)

\* An approver or a witness is removed.
RemoveServing(p) ==
    /\ new.state = "whole"
    /\ p \in new.serving
    /\ new' = ForVault([new EXCEPT !.serving = @ \ {p}])
    /\ UNCHANGED <<vault, clock, draft, files, poll, written, compared>>

\* One is registered.
RegisterServing ==
    /\ new.state = "whole" /\ new.serving = Serving(vault) /\ Serving(vault) # {}
    /\ LET p == Max(DOMAIN vault.principals) + 1
       IN new' = ForVault([new EXCEPT !.serving = @ \cup {p},
                             !.proofs = [q \in DOMAIN @ \cup {p} |->
                                IF q = p THEN AnswerOf("approver", CreateChallenge(3, clock), clock)
                                ELSE @[q]]])
    /\ UNCHANGED <<vault, clock, draft, files, poll, written, compared>>

\* A witness policy is revised, without its labels; the predecessor is kept.
RevisePolicy(w) ==
    /\ new.state = "whole"
    /\ {q.policy.revision : q \in {q \in new.policies : q.id = w}} = {1}
    /\ new' = ForVault([new EXCEPT !.policies = @ \cup
                 {[id |-> w, policy |-> [q.policy EXCEPT !.revision = 2, !.labels = {}]] :
                    q \in {q \in new.policies : q.id = w}}])
    /\ UNCHANGED <<vault, clock, draft, files, poll, written, compared>>

BootstrapNext ==
    \/ TickClock \/ PrepareDirect \/ PrepareGoverned \/ AccessPart \/ RenewChallenges \/ Poll \/ StopWaiting
    \/ RegisterServing
    \/ \E p \in Serving(vault) : AnswerChallenge(p) \/ MisplaceFile(p) \/ RemoveServing(p)
    \/ \E w \in {RenamedPolicy(vault, v) : v \in Templates(vault)} : RevisePolicy(w)

BootstrapSpec == BootstrapInit /\ [][BootstrapNext]_bootstrapVars

---------------------------------------------------------------------------------
\* ProofPoll never sleeps over a directory in which every proof is valid at
\* the time: each read either finds nothing to wait for, or completes.
PollNotices ==
    draft.state = "waiting" =>
      ((\A p \in DOMAIN files : AnswersChallenge(p, files[p], clock)) => Due(clock))

\* scopes_preserved, which compares sorted patterns, accepts exactly the pairs
\* for which the bijection its comment asks for exists.
ScopesExact == ScopesPreserved(compared[1], compared[2]) <=> ScopesBijective(compared[1], compared[2])

\* A destination verifies when it is made and ever after.  What complete and
\* prepare_direct build passes the verification they end with, so that no
\* owner spends approvals and proofs on a draft that cannot be finished; and
\* whatever is removed, registered or revised in it later, and whatever
\* expires, verify_historical and validate_retained_bootstrap accept it.
ProvenanceLasts ==
    /\ draft.state # "stranded"
    /\ new.state = "whole" => VerifyDestination(vault, new)
=================================================================================
