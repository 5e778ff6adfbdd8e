---------------------------- MODULE VaultCommands ----------------------------
(***************************************************************************)
(* The commands that change a vault: items, fields, principals, ownership, *)
(* item roles and access policies.  A command checks its arguments against *)
(* the current policy, opens the items it must seal again, and plans one   *)
(* revision: a list of operations.  The plan is then replayed, operation   *)
(* by operation, with the actions of PolicyReplay.  Commands that prepare  *)
(* their items one at a time replay each item alone first and throw that   *)
(* away; the whole batch comes last, and only it is published.             *)
(*                                                                         *)
(* A command that its own checks turn away changes nothing and is not a    *)
(* step.  Reading a witnessed item takes the protocol of WitnessedAccess;  *)
(* here a command that needs such a read happens only if it is granted.    *)
(* Publication and its races are in MutationCommit.  Review labels and     *)
(* registration proofs are left out of the catalog.                        *)
(***************************************************************************)
EXTENDS PolicyReplay, SequencesExt

CONSTANTS Names,          \* names given to items
          Fields,         \* names given to fields
          MaxBucket       \* the largest size class of an item body

VARIABLES plan,      \* the command being planned or the last one refused
          status,    \* "idle", "planning" or "refused"
          body,      \* what each live item holds: name, fields, size class
          store,     \* the catalog beside the vault: policies, role descriptors
          history    \* witness policies of every state the journal passes

commandVars == <<plan, status, body, store, history>>
allVars == <<vars, commandVars>>

NoPlan == [name |-> "none"]

CommandsInit == /\ Init
                /\ plan = NoPlan /\ status = "idle"
                /\ body = Nothing
                /\ store = [policies |-> {}, roles |-> {}]
                /\ history = {}

-----------------------------------------------------------------------------
(***************************************************************************)
(* What the acting principal sees.                                         *)
(***************************************************************************)
\* load_vault_principal: an active human or machine.
Loads(a) == HasKind(policy, a, Grantable)

Owner(a) == Loads(a) /\ a \in policy.owners

\* discover_accessible_items: the items it may read through a direct slot.
Accessible(a) == {i \in Live(policy) :
                    /\ Permits(EffectiveRole(policy, i, a), "read")
                    /\ a \in Recipients(policy.items[i])}

\* open_item_body.
Opens(a, i, capability) ==
  i \in Accessible(a) /\ Permits(EffectiveRole(policy, i, a), capability)

AllAdminItems(a) == Live(policy) \subseteq Accessible(a)

\* grantable_principal, for principals that are not owners already.
Grantees == {d.id : d \in {e \in policy.principals : e.kind \in Grantable}}
              \ policy.owners

\* The witness policies that live items use now.
ActivePolicies == UNION {policy.items[i].access.witnessed : i \in Live(policy)}

\* Some witnessed read of every one of these items is permitted.
Authorizes(items, operation) ==
  \A i \in items : \A w \in policy.items[i].access.witnessed :
    operation \in w.operations

-----------------------------------------------------------------------------
(***************************************************************************)
(* Planning the new slots of an item.  A change is what else the revision  *)
(* does to principals: nothing, a registration, a replacement, a grant or  *)
(* a revocation of ownership.                                              *)
(***************************************************************************)
NoChange == <<"none">>

NextOwners(change) ==
  CASE change[1] = "grant" -> policy.owners \union {change[2]}
    [] change[1] = "revoke" -> policy.owners \ {change[2]}
    [] change[1] = "replace" /\ change[2] \in policy.owners ->
         (policy.owners \ {change[2]}) \union {change[3].id}
    [] OTHER -> policy.owners

Presented(change) == CASE change[1] = "register" -> {change[2]}
                       [] change[1] = "replace" -> {change[3]}
                       [] OTHER -> {}

\* retained_access_plan: grants, recipients and witness policy as they are.
RetainedAccess(i) == [grants |-> policy.items[i].grants,
                      direct |-> Recipients(policy.items[i]),
                      witnessed |-> policy.items[i].access.witnessed]

\* The recipients of a plan: every owner is one if anyone is.
DirectRecipients(access, change) ==
  IF access.direct = {} THEN {} ELSE access.direct \union NextOwners(change)

\* resolve_access, its refusals.
Resolvable(access, change) ==
  LET known == policy.principals \union Presented(change)
      sealedTo == DirectRecipients(access, change)
      Holder(p) == \E d \in known : d.id = p /\ d.kind \in Grantable
  IN /\ change[1] = "replace" =>
          change[2] \notin DOMAIN access.grants \union access.direct
     /\ change[1] = "register" => \A k \in policy.known : k.id # change[2].id
     /\ \A p \in DOMAIN access.grants :
          /\ Holder(p) /\ p \notin policy.owners
          /\ change[1] = "replace" => p \notin NextOwners(change)
     /\ \A p \in sealedTo :
          Holder(p) /\ p \in NextOwners(change) \union DOMAIN access.grants
     /\ \A w \in access.witnessed : w.sequence = Sequence
     /\ sealedTo # {} \/ access.witnessed # {}

\* The role a recipient's slot names.
SlotRole(access, change, p) ==
  IF p \in NextOwners(change) THEN "owner" ELSE access.grants[p]

\* resolve_access and build_slots: each recipient's key and role.
ResolveAccess(access, change) ==
  LET known == policy.principals \union Presented(change)
      slots == {d \in known : d.id \in DirectRecipients(access, change)}
  IN [to |-> [d \in slots |-> SlotRole(access, change, d.id)],
      witnessed |-> access.witnessed]

\* role_change_operations: the grants of the item that become other ones.
RoleChanges(i, grants, change) ==
  LET old == policy.items[i].grants
      moved == IF change[1] = "replace" /\ change[2] \in DOMAIN old
               THEN Updated(Without(old, change[2]), change[3].id, old[change[2]])
               ELSE old
      Role(g, p) == IF p \in DOMAIN g THEN g[p] ELSE "none"
      changed == {p \in DOMAIN moved \union DOMAIN grants :
                    Role(moved, p) # Role(grants, p)}
  IN SetToSeq({<<"ItemRoleChange", i, p, Role(grants, p)>> : p \in changed})

Invalid == <<"Invalid">>

\* prepare_rekey_batch_component: the operations that give an item a new key.
Rekey(i, access, change) ==
  IF ~Resolvable(access, change) THEN <<Invalid>>
  ELSE (CASE change[1] = "register" -> <<<<"PrincipalAdd", change[2]>>>>
          [] change[1] = "replace" ->
               <<<<"PrincipalReplace", change[2], change[3]>>>>
          [] change[1] = "revoke" -> <<<<"OwnerRevoke", change[2]>>>>
          [] OTHER -> <<>>)
       \o RoleChanges(i, access.grants, change)
       \o (IF change[1] = "grant" THEN <<<<"OwnerGrant", change[2]>>>> ELSE <<>>)
       \o <<<<"ItemReaderSetChange", i>>,
            <<"ItemSlotsReplace", i, ResolveAccess(access, change)>>>>

Shared == {"PrincipalAdd", "PrincipalReplace", "OwnerGrant", "OwnerRevoke"}

MutBatch(components, more) == FlattenSeq(components) \o more

\* push_batch_operation and finish_item_batch: what several items announce is
\* said once, and ownership is granted after all of them.
Batch(components, more) ==
  LET Push(ops, op) == IF op[1] \in Shared /\ Contains(ops, op) THEN ops
                       ELSE Append(ops, op)
      all == FoldLeft(Push, <<>>, FlattenSeq(components))
      Grants(op) == op[1] = "OwnerGrant"
      Others(op) == ~Grants(op)
  IN SelectSeq(all, Others) \o SelectSeq(all, Grants) \o more

-----------------------------------------------------------------------------
(***************************************************************************)
(* Planning and replaying.  A plan holds the lists of operations to replay *)
(* and what the vault and the catalog become when the last one is          *)
(* published.                                                              *)
(***************************************************************************)
Begin(name, a, ack, lists, contents, catalog) ==
  /\ status # "planning" /\ Sequence =< MaxRevisions
  /\ plan' = [name |-> name, by |-> a, ack |-> ack, lists |-> lists,
              all |-> Last(lists), body |-> contents, store |-> catalog]
  /\ status' = "planning"
  /\ UNCHANGED <<vars, body, store, history>>

\* prepare_policy: operations that touch no item.
BeginPolicy(name, a, operations, catalog) ==
  Begin(name, a, FALSE, <<operations>>, body, catalog)

\* prepare_rekey on every item, each checked alone, then the batch.
BeginAlone(name, a, ack, components, more, contents, catalog) ==
  Begin(name, a, ack, Append(components, Batch(components, more)),
        contents, catalog)

\* prepare_rekey_batch_component on every item: only the batch is checked.
BeginBatch(name, a, ack, components, catalog) ==
  Begin(name, a, ack, <<Batch(components, <<>>)>>, body, catalog)

\* apply_operation of the replay.
Apply(op) ==
  \/ op[1] = "PrincipalAdd" /\ PrincipalAdd(op[2])
  \/ op[1] = "PrincipalLabelChange" /\ PrincipalLabelChange(op[2])
  \/ op[1] = "PrincipalRemove" /\ PrincipalRemove(op[2])
  \/ op[1] = "PrincipalReplace" /\ PrincipalReplace(op[2], op[3])
  \/ op[1] = "OwnerGrant" /\ OwnerGrant(op[2])
  \/ op[1] = "OwnerRevoke" /\ OwnerRevoke(op[2])
  \/ op[1] = "ItemCreate" /\ ItemCreate(op[2], op[3])
  \/ op[1] = "ItemRoleChange" /\ ItemRoleChange(op[2], op[3], op[4])
  \/ op[1] = "ItemReaderSetChange" /\ ItemReaderSetChange(op[2])
  \/ op[1] = "ItemSlotsReplace" /\ ItemSlotsReplace(op[2], op[3])

\* What prepare_revision checks when all operations are applied.
Complete ==
  /\ keys # {} /\ plan.by \in policy.owners
  /\ RotationsComplete
  /\ CompleteState(Result(policy.time)) /\ CompleteOwnerSlots(Result(policy.time))

Touched == {op[2] : op \in {o \in Range(plan.all) :
              o[1] \in {"ItemCreate", "ItemRoleChange", "ItemReaderSetChange",
                        "ItemSlotsReplace"}}}

Replacements == {op \in Range(plan.all) : op[1] = "PrincipalReplace"}

\* The recipients of an item before, under the names they have afterwards.
PriorRecipients(i) ==
  IF i \notin Live(policy) THEN {}
  ELSE {IF \E op \in Replacements : op[2] = p
        THEN (CHOOSE op \in Replacements : op[2] = p)[3].id ELSE p :
        p \in Recipients(policy.items[i])}

\* transition_flags: someone gets a slot who had none.
DirectDowngrade(target) ==
  \E i \in Touched : ~(Recipients(target.items[i]) \subseteq PriorRecipients(i))

\* witness_policy_is_weaker.
Weaker(old, new) == \/ new.threshold < old.threshold
                    \/ ~(old.operations \subseteq new.operations)
                    \/ ~(new.approvers \subseteq old.approvers)

WitnessWeakened(target) ==
  \E i \in Touched \intersect Live(policy) :
    \E old \in policy.items[i].access.witnessed,
       new \in target.items[i].access.witnessed : old # new /\ Weaker(old, new)

\* validate_privacy_cover: nothing but the key of the item changes.
Covers(target) ==
  /\ \A op \in Range(plan.all) : op[1] \in {"ItemReaderSetChange", "ItemSlotsReplace"}
  /\ \A i \in Touched :
       /\ target.items[i].grants = policy.items[i].grants
       /\ EffectiveReaders(target, i) = EffectiveReaders(policy, i)
       /\ WitnessedOnly(target.items[i]) = WitnessedOnly(policy.items[i])
       /\ plan.body[i].bucket = body[i].bucket

\* from_prepared: the checks on the change as a whole.
Publishable(target) ==
  /\ DirectDowngrade(target) \/ WitnessWeakened(target) => plan.ack
  /\ plan.name = "privacy_cover" => Covers(target)

Discard == /\ next' = policy
           /\ keys' = {} /\ rotated' = {} /\ replaced' = Nothing
           /\ UNCHANGED <<policy, sealed>>

Replaying == status = "planning" /\ Head(plan.lists) # <<>>
Replayed == status = "planning" /\ Head(plan.lists) = <<>>
Final == Len(plan.lists) = 1

\* The next operation of the current list.
ReplayOperation ==
  /\ Replaying
  /\ Apply(Head(Head(plan.lists)))
  /\ plan' = [plan EXCEPT !.lists = <<Tail(Head(@))>> \o Tail(@)]
  /\ UNCHANGED <<status, body, store, history>>

\* An item that was prepared alone passed: on to the next list.
PreparedAlone ==
  /\ Replayed /\ ~Final /\ Complete
  /\ Discard
  /\ plan' = [plan EXCEPT !.lists = Tail(@)]
  /\ UNCHANGED <<status, body, store, history>>

Done == status' = "idle" /\ plan' = NoPlan

\* The revision and the new envelopes are published with the catalog.
Commit ==
  /\ Replayed /\ Final
  /\ Publishable(Result(policy.time))
  /\ Accept(plan.by, policy.time)
  /\ body' = plan.body /\ store' = plan.store
  /\ history' = history \union
       UNION {policy'.items[i].access.witnessed : i \in DOMAIN policy'.items}
  /\ Done

\* --dry-run stops here.
DryRun ==
  /\ Replayed /\ Final /\ Complete /\ Publishable(Result(policy.time))
  /\ Discard /\ Done
  /\ UNCHANGED <<body, store, history>>

\* An operation or a check fails: the command ends with an error.
Reject ==
  /\ \/ Replaying /\ ~ENABLED Apply(Head(Head(plan.lists)))
     \/ /\ Replayed
        /\ ~(Complete /\ (Final => Publishable(Result(policy.time))))
  /\ Discard
  /\ status' = "refused"
  /\ UNCHANGED <<plan, body, store, history>>

-----------------------------------------------------------------------------
(***************************************************************************)
(* Items and fields.                                                       *)
(***************************************************************************)
Order(items) == SetToSeq(items)

\* Rekeying items, each with its own access plan.
Rekeys(plans, change) ==
  LET order == Order(DOMAIN plans)
  IN [k \in DOMAIN order |-> Rekey(order[k], plans[order[k]], change)]

Retained(items) == [i \in items |-> RetainedAccess(i)]

\* check_new_item_name: the names the owner cannot open are read with fresh
\* witnessed authorizations, and all of them differ from the new one.
NewName(a, n) ==
  /\ Authorizes(Live(policy) \ Accessible(a), "read-stdout")
  /\ \A i \in Live(policy) : body[i].name # n

item_create(a, i, n, grants) ==
  /\ Owner(a) /\ a \notin DOMAIN grants
  /\ i \notin policy.used
  /\ NewName(a, n)
  /\ LET access == [grants |-> grants, direct |-> DOMAIN grants \union {a},
                    witnessed |-> {}]
         create == IF Resolvable(access, NoChange)
                   THEN <<<<"ItemCreate", i, ResolveAccess(access, NoChange)>>>>
                   ELSE <<Invalid>>
     IN BeginAlone("item_create", a, TRUE, <<create>>, <<>>,
                   Updated(body, i, [name |-> n, fields |-> {}, bucket |-> 0]),
                   store)

\* Sealing one item again with other contents.
Reseal(name, a, i, contents) ==
  BeginAlone(name, a, FALSE, Rekeys(Retained({i}), NoChange), <<>>,
             [body EXCEPT ![i] = contents], store)

\* The smallest size class that holds the fields, never a smaller one.
Bucket(i, fields) ==
  IF Cardinality(fields) > body[i].bucket THEN Cardinality(fields)
  ELSE body[i].bucket

field_set(a, i, f) ==
  /\ Opens(a, i, "write")
  /\ LET fields == body[i].fields \union {f} IN
     /\ Bucket(i, fields) =< MaxBucket
     /\ Reseal("field_set", a, i,
               [body[i] EXCEPT !.fields = fields, !.bucket = Bucket(i, fields)])

field_remove(a, i, f) ==
  /\ Opens(a, i, "write") /\ f \in body[i].fields
  /\ Reseal("field_remove", a, i, [body[i] EXCEPT !.fields = @ \ {f}])

privacy_cover(a, i) ==
  /\ Opens(a, i, "write")
  /\ Reseal("privacy_cover", a, i, body[i])

-----------------------------------------------------------------------------
(***************************************************************************)
(* Roles on items.                                                         *)
(***************************************************************************)
\* Whoever is granted a role gets a slot if the item has direct slots.
Granting(access, p, role) ==
  [access EXCEPT !.grants = Updated(@, p, role),
                 !.direct = IF @ = {} THEN {} ELSE @ \union {p}]

Revoking(access, p) == [access EXCEPT !.grants = Without(@, p),
                                      !.direct = @ \ {p}]

Granted(p) == {i \in Live(policy) : p \in DOMAIN policy.items[i].grants}

access_grant(a, p, roles) ==
  /\ Owner(a) /\ p \in Grantees
  /\ DOMAIN roles # {} /\ DOMAIN roles \subseteq Accessible(a)
  /\ DOMAIN roles \intersect Granted(p) = {}
  /\ BeginAlone("access_grant", a, TRUE,
       Rekeys([i \in DOMAIN roles |->
                 Granting(RetainedAccess(i), p, roles[i])], NoChange),
       <<>>, body, store)

access_change(a, p, i, role) ==
  /\ Owner(a) /\ p \in Grantees
  /\ i \in Accessible(a) \intersect Granted(p)
  /\ policy.items[i].grants[p] # role
  /\ BeginPolicy("access_change", a, <<<<"ItemRoleChange", i, p, role>>>>, store)

access_revoke(a, p, items) ==
  /\ Owner(a) /\ p \in Grantees
  /\ items # {} /\ items \subseteq Accessible(a) \intersect Granted(p)
  /\ BeginAlone("access_revoke", a, FALSE,
       Rekeys([i \in items |-> Revoking(RetainedAccess(i), p)], NoChange),
       <<>>, body, store)

-----------------------------------------------------------------------------
(***************************************************************************)
(* Principals.                                                             *)
(***************************************************************************)
\* add_catalog_registration_proof: witnesses and approvers have descriptors.
WithRole(d) == IF d.kind \in Grantable THEN store
               ELSE [store EXCEPT !.roles = @ \union {d}]

principal_add(a, d, roles) ==
  /\ Owner(a)
  /\ IF DOMAIN roles = {}
     THEN BeginPolicy("principal_add", a, <<<<"PrincipalAdd", d>>>>, WithRole(d))
     ELSE /\ d.kind \in Grantable /\ DOMAIN roles \subseteq Accessible(a)
          /\ BeginAlone("principal_add", a, TRUE,
               Rekeys([i \in DOMAIN roles |->
                         Granting(RetainedAccess(i), d.id, roles[i])],
                      <<"register", d>>),
               <<>>, body, store)

principal_label(a, p) ==
  /\ Owner(a) /\ Active(policy, p)
  /\ BeginPolicy("principal_label", a, <<<<"PrincipalLabelChange", p>>>>, store)

\* refuse_active_witness_role_rotation: p serves a policy that is in use.
Serves(p) == \E w \in ActivePolicies : \E d \in w.members \union w.approvers :
               d.id = p

Renamed(access, p, q) ==
  [access EXCEPT !.grants = IF p \in DOMAIN @ THEN Updated(Without(@, p), q, @[p])
                            ELSE @,
                 !.direct = {IF r = p THEN q ELSE r : r \in @}]

principal_replace(a, p, d) ==
  /\ Owner(a) /\ p # a
  /\ HasKind(policy, p, {d.kind}) /\ ~Serves(p)
  /\ LET affected == IF p \in policy.owners THEN Live(policy) ELSE Granted(p)
     IN IF affected = {}
        THEN BeginPolicy("principal_replace", a,
                         <<<<"PrincipalReplace", p, d>>>>, WithRole(d))
        ELSE /\ AllAdminItems(a)
             /\ BeginBatch("principal_replace", a, FALSE,
                  Rekeys([i \in affected |->
                            Renamed(RetainedAccess(i), p, d.id)],
                         <<"replace", p, d>>), WithRole(d))

\* With --revoke-all where the principal still has roles.
principal_remove(a, p) ==
  /\ Owner(a) /\ Active(policy, p) /\ p \notin policy.owners /\ ~Serves(p)
  /\ IF Granted(p) = {}
     THEN BeginPolicy("principal_remove", a, <<<<"PrincipalRemove", p>>>>, store)
     ELSE /\ AllAdminItems(a)
          /\ BeginAlone("principal_remove", a, FALSE,
               Rekeys([i \in Granted(p) |-> Revoking(RetainedAccess(i), p)],
                      NoChange),
               <<<<"PrincipalRemove", p>>>>, body, store)

-----------------------------------------------------------------------------
(***************************************************************************)
(* Witness policies, and ownership, which every item and every witness     *)
(* policy in use follows.  A witness policy belongs to a lineage, in which *)
(* each revision names its predecessor.                                    *)
(***************************************************************************)
MutRetain(policies, added) == ActivePolicies \union added

\* update_catalog_witness_policies: what items use, what is added, and every
\* predecessor of those.
Retain(policies, added) ==
  {v \in policies \union added :
     \E w \in ActivePolicies \union added :
       w.lineage = v.lineage /\ v.revision =< w.revision}

WithPolicies(added) == [store EXCEPT !.policies = Retain(@, added)]

\* prepare_owner_change_policies: the same policy for the next sequence.
Successor(w) == [w EXCEPT !.revision = @ + 1, !.sequence = Sequence]

\* The access plan of an item after p becomes or ceases to be an owner.
OwnerAccess(i, p, grant) ==
  LET kept == [RetainedAccess(i) EXCEPT !.witnessed = {Successor(w) : w \in @}]
  IN IF grant
     THEN [kept EXCEPT !.grants = Without(@, p),
                       !.direct = IF @ = {} THEN {} ELSE @ \union {p}]
     ELSE [kept EXCEPT !.direct = @ \ {p}]

\* open_owner_change_items: every item is opened, the witnessed ones with
\* fresh authorizations.
OpensAll(a) == Authorizes(Live(policy) \ Accessible(a), "administrative-rekey")

principal_owner_change(a, p, grant, ack) ==
  /\ Owner(a) /\ HasKind(policy, p, {"human"})
  /\ grant = (p \notin policy.owners)
  /\ grant /\ ~ack =>
       \A i \in Live(policy) : \/ WitnessedOnly(policy.items[i])
                               \/ p \in Recipients(policy.items[i])
  /\ ~grant => p # a /\ Cardinality(policy.owners) > 1
  /\ LET word == IF grant THEN "grant" ELSE "revoke"
         name == IF grant THEN "principal_grant_owner" ELSE "principal_revoke_owner"
     IN IF Live(policy) = {}
        THEN BeginPolicy(name, a,
               <<<<IF grant THEN "OwnerGrant" ELSE "OwnerRevoke", p>>>>, store)
        ELSE /\ OpensAll(a)
             /\ BeginBatch(name, a, ack,
                  Rekeys([i \in Live(policy) |-> OwnerAccess(i, p, grant)],
                         <<word, p>>),
                  IF ActivePolicies = {} THEN store
                  ELSE WithPolicies({Successor(w) : w \in ActivePolicies}))

\* Witnesses and approvers of a new policy are active and their role
\* descriptors are in the catalog.
Serviceable(c) ==
  /\ c.members \union c.approvers \subseteq policy.principals \intersect store.roles
  /\ \A d \in c.members : d.kind = "witness"
  /\ \A d \in c.approvers : d.kind = "approver"

\* The policy with controls c for item i: the next revision of the one the
\* item has, or the first of a lineage.
NewWitnessPolicy(i, c) ==
  LET prior == policy.items[i].access.witnessed
      old == CHOOSE v \in prior : TRUE
  IN [c EXCEPT !.sequence = Sequence,
               !.lineage = IF prior = {} THEN <<i, Sequence>> ELSE old.lineage,
               !.revision = IF prior = {} THEN 1 ELSE old.revision + 1]

policy_require_witnessed(a, i, c) ==
  /\ Owner(a) /\ Opens(a, i, "administer")
  /\ Serviceable(c)
  /\ ValidWitnessPolicy(NewWitnessPolicy(i, c))
  /\ BeginAlone("policy_require_witnessed", a, FALSE,
       Rekeys([j \in {i} |-> [RetainedAccess(i) EXCEPT
                !.direct = {}, !.witnessed = {NewWitnessPolicy(i, c)}]],
              NoChange),
       <<>>, body, WithPolicies({NewWitnessPolicy(i, c)}))

policy_allow_direct(a, i, people) ==
  /\ Owner(a) /\ Opens(a, i, "administer")
  /\ people # {}
  /\ \A p \in people : HasKind(policy, p, Grantable) /\ Allowed(policy, i, p, "read")
  /\ BeginAlone("policy_allow_direct", a, TRUE,
       Rekeys([j \in {i} |-> [RetainedAccess(i) EXCEPT
                                !.direct = @ \union people]], NoChange),
       <<>>, body, store)

-----------------------------------------------------------------------------
(***************************************************************************)
(* Properties.                                                             *)
(***************************************************************************)
\* A command of an owner that passes its own checks is never turned away
\* afterwards: the operations it plans, in the order it plans them and for
\* any number of items at once, replay (push_batch_operation,
\* finish_item_batch, prepare_rekey_batch_component), and an acknowledgement
\* is missing only where the command itself would have asked for it
\* (transition_flags).
PlansAccepted == status = "refused" => plan.by \notin policy.owners

\* However items, roles, owners and principals change, an item is sealed
\* either to exactly its effective readers or, once it is witnessed, to no
\* one directly (resolve_access, retained_access_plan and the access plans of
\* every command).
ReadersHoldKeys ==
  \A i \in Live(policy) :
    Recipients(policy.items[i]) =
      IF policy.items[i].access.witnessed = {} THEN EffectiveReaders(policy, i)
      ELSE {}

\* No two items of a vault have the same name, including items whose names
\* the creating owner cannot open directly (check_new_item_name).
NamesUnique ==
  /\ DOMAIN body = Live(policy)
  /\ \A i, j \in DOMAIN body : body[i].name = body[j].name => i = j

\* The catalog always holds what replaying the whole journal needs: the
\* witness policies of every state it passes, and the predecessors of each
\* policy it holds (update_catalog_witness_policies).
CatalogReplays ==
  /\ history \subseteq store.policies
  /\ \A w \in store.policies : w.revision > 1 =>
       \E v \in store.policies : v.lineage = w.lineage /\ v.revision = w.revision - 1

=============================================================================
