---------------------------- MODULE PolicyReplay ----------------------------
(***************************************************************************)
(* Replay of a vault's signed policy journal.  A revision is a list of     *)
(* operations; replay applies them one by one to a copy of the policy,     *)
(* collects the rotations they announce, applies those at the end, checks  *)
(* the complete result and only then adopts it.  A revision that fails any *)
(* of the checks leaves the policy as it was.  Preparing a revision runs   *)
(* the same functions, so this is also what an author can sign.            *)
(*                                                                         *)
(* The copy is the variable next.  Signatures, digests and ciphertexts are *)
(* abstracted: the inputs are correctly signed descriptors and operations  *)
(* of the closed format, and a value an operation must repeat exactly (the *)
(* prior epoch, the reader lists, the digests a deletion names) is the one *)
(* recomputed here, since a revision that states another one is refused.   *)
(* Display labels are left out.                                            *)
(***************************************************************************)
EXTENDS Naturals, FiniteSets

CONSTANTS Descriptors,     \* principal descriptors anyone may present
          Genesis,         \* the descriptor of the owner in the genesis
          Rollover,        \* the genesis carries a rollover attestation
          Items,           \* item identifiers
          SlotSets,        \* recipients and roles of the direct slots of an item
          Catalog,         \* the witness policies stored beside the vault
          Times,           \* revision timestamps
          MaxRevisions,    \* MAX_POLICY_REVISIONS
          MaxItems,        \* MAX_ITEMS
          MaxOperations    \* bound on the operations of a revision

Kinds == {"human", "machine", "witness", "approver"}
Roles == {"reader", "writer", "owner"}
Grantable == {"human", "machine"}

ASSUME DescriptorsAssumption ==
  /\ Genesis \in Descriptors /\ Genesis.kind = "human"
  /\ \A d \in Descriptors : d.kind \in Kinds
  /\ Rollover \in BOOLEAN

\* The slots of one item address a recipient once.
ASSUME SlotSetsAssumption ==
  \A s \in SlotSets : /\ DOMAIN s \subseteq Descriptors
                      /\ \A d \in DOMAIN s : s[d] \in Roles
                      /\ \A d, e \in DOMAIN s : d.id = e.id => d = e

\* WitnessPolicy::validate: distinct members and approvers, at least two
\* members, of which a request needs two or more.
ValidWitnessPolicy(w) ==
  /\ w.members \subseteq Descriptors /\ w.approvers \subseteq Descriptors
  /\ \A d, e \in w.members \union w.approvers :
       d.id = e.id \/ d.vkey = e.vkey => d = e
  /\ \A d, e \in w.members : d.rkey = e.rkey => d = e
  /\ w.members \intersect w.approvers = {}
  /\ w.threshold \in 2 .. Cardinality(w.members)

ASSUME CatalogAssumption ==
  \A w \in Catalog : ValidWitnessPolicy(w) /\ IsFiniteSet(w.members)

ASSUME PolicyBoundsAssumption ==
  /\ MaxRevisions \in Nat /\ MaxItems \in Nat /\ MaxOperations \in Nat
  /\ Times \subseteq Nat

VARIABLES policy,     \* the policy the accepted revisions lead to
          next,       \* the copy the operations of a revision change
          keys,       \* the operation keys used in the revision
          rotated,    \* the items with a reader-set change in the revision
          replaced,   \* the slots the revision gives to items
          sealed      \* everything ever sealed: item, epoch and recipient

vars == <<policy, next, keys, rotated, replaced, sealed>>

Ids == {d.id : d \in Descriptors}
Nothing == [i \in {} |-> {}]
Access == [to : SlotSets, witnessed : SUBSET Catalog]

\* replay_policy_with_catalog, from the genesis.
GenesisPolicy ==
  [sequence |-> 0, time |-> 0, principals |-> {Genesis}, known |-> {Genesis},
   owners |-> {Genesis.id}, items |-> Nothing, used |-> {},
   tombstones |-> Nothing]

Init == /\ policy = GenesisPolicy
        /\ next = policy
        /\ keys = {} /\ rotated = {} /\ replaced = Nothing
        /\ sealed = {}

-----------------------------------------------------------------------------
(***************************************************************************)
(* Views of a policy.                                                      *)
(***************************************************************************)
Live(s) == DOMAIN s.items

Active(s, p) == \E d \in s.principals : d.id = p

HasKind(s, p, kinds) == \E d \in s.principals : d.id = p /\ d.kind \in kinds

EffectiveReaders(s, i) ==
  s.owners \union (IF i \in Live(s) THEN DOMAIN s.items[i].grants ELSE {})

EffectiveRole(s, i, p) ==
  CASE p \in s.owners -> "owner"
    [] p \notin s.owners /\ i \in Live(s) /\ p \in DOMAIN s.items[i].grants ->
         s.items[i].grants[p]
    [] OTHER -> "none"

Recipients(item) == {d.id : d \in DOMAIN item.access.to}

WitnessedOnly(item) == DOMAIN item.access.to = {}

Permits(role, capability) ==
  CASE role = "owner" -> TRUE
    [] role = "writer" -> capability \in {"read", "write"}
    [] role = "reader" -> capability = "read"
    [] OTHER -> FALSE

\* access: the role permits it, and there is a direct or a witnessed path.
Allowed(s, i, p, capability) ==
  /\ i \in Live(s) /\ Active(s, p)
  /\ Permits(EffectiveRole(s, i, p), capability)
  /\ p \in Recipients(s.items[i]) \/ s.items[i].access.witnessed # {}

\* witness_authority: enough members of the item's witness policy are active.
Reachable(s, i) ==
  \A w \in s.items[i].access.witnessed :
    Cardinality({m \in w.members : HasKind(s, m.id, {"witness"})}) >= w.threshold

Without(f, x) == [y \in DOMAIN f \ {x} |-> f[y]]

Updated(f, x, v) == [y \in DOMAIN f \union {x} |-> IF y = x THEN v ELSE f[y]]

-----------------------------------------------------------------------------
(***************************************************************************)
(* The operations of a revision.  Each works on the copy; two operations   *)
(* of a revision with the same key are refused as ambiguous.               *)
(***************************************************************************)
Sequence == policy.sequence + 1

Operation(key) ==
  /\ Sequence =< MaxRevisions
  /\ key \notin keys /\ Cardinality(keys) < MaxOperations
  /\ keys' = keys \union {key}
  /\ UNCHANGED <<policy, sealed>>

\* No identifier and no key that any earlier principal had.
Unused(s, d) == \A k \in s.known : /\ k.id # d.id /\ k.rkey # d.rkey
                                   /\ k.vkey # d.vkey

PrincipalAdd(d) ==
  /\ Operation(<<"PrincipalAdd", d.id>>)
  /\ Unused(next, d)
  /\ next' = [next EXCEPT !.principals = @ \union {d}, !.known = @ \union {d}]
  /\ UNCHANGED <<rotated, replaced>>

PrincipalLabelChange(p) ==
  /\ Operation(<<"PrincipalLabelChange", p>>)
  /\ Active(next, p)
  /\ UNCHANGED <<next, rotated, replaced>>

PrincipalRemove(p) ==
  /\ Operation(<<"PrincipalRemove", p>>)
  /\ p \notin next.owners
  /\ \A i \in Live(next) : p \notin DOMAIN next.items[i].grants
  /\ Active(next, p)
  /\ next' = [next EXCEPT !.principals = {d \in @ : d.id # p}]
  /\ UNCHANGED <<rotated, replaced>>

\* The new descriptor takes over the kind, the ownership and the grants.
PrincipalReplace(p, d) ==
  /\ Operation(<<"PrincipalReplace", p>>)
  /\ p # d.id
  /\ HasKind(next, p, {d.kind})
  /\ Unused(next, d)
  /\ LET Moved(g) == IF p \in DOMAIN g THEN Updated(Without(g, p), d.id, g[p])
                     ELSE g
     IN next' = [next EXCEPT
          !.principals = {e \in @ : e.id # p} \union {d},
          !.known = @ \union {d},
          !.owners = IF p \in @ THEN (@ \ {p}) \union {d.id} ELSE @,
          !.items = [i \in Live(next) |->
                       [next.items[i] EXCEPT !.grants = Moved(next.items[i].grants)]]]
  /\ UNCHANGED <<rotated, replaced>>

OwnerGrant(p) ==
  /\ Operation(<<"OwnerGrant", p>>)
  /\ HasKind(next, p, {"human"}) /\ p \notin next.owners
  /\ next' = [next EXCEPT !.owners = @ \union {p}]
  /\ UNCHANGED <<rotated, replaced>>

OwnerRevoke(p) ==
  /\ Operation(<<"OwnerRevoke", p>>)
  /\ p \in next.owners /\ next.owners # {p}
  /\ next' = [next EXCEPT !.owners = @ \ {p}]
  /\ UNCHANGED <<rotated, replaced>>

\* Slots of the closed format: some access path, a policy of this sequence.
AccessPaths(access) ==
  /\ DOMAIN access.to # {} \/ access.witnessed # {}
  /\ Cardinality(access.witnessed) =< 1
  /\ \A w \in access.witnessed : w.sequence = Sequence

MutFreshItem(s, i) == i \notin Live(s)

FreshItem(s, i) == i \notin s.used

\* Recipients that are not named as owners are granted the role of their slot.
Held(access) == {d \in DOMAIN access.to : access.to[d] # "owner"}

ItemCreate(i, access) ==
  /\ Operation(<<"ItemCreate", i>>)
  /\ AccessPaths(access)
  /\ FreshItem(next, i)
  /\ LET grants == [p \in {d.id : d \in Held(access)} |->
                      access.to[CHOOSE d \in Held(access) : d.id = p]]
     IN next' = [next EXCEPT
          !.items = Updated(@, i, [epoch |-> 1, described |-> 1, sealed |-> 1,
                                   grants |-> grants, access |-> access]),
          !.used = @ \union {i}]
  /\ UNCHANGED <<rotated, replaced>>

\* A new descriptor of the same key epoch.
ItemRename(i) ==
  /\ Operation(<<"ItemRename", i>>)
  /\ i \in Live(next)
  /\ next' = [next EXCEPT !.items[i].described = next.items[i].epoch]
  /\ UNCHANGED <<rotated, replaced>>

ItemDelete(i) ==
  /\ Operation(<<"ItemDelete", i>>)
  /\ i \in Live(next)
  /\ next' = [next EXCEPT !.items = Without(@, i),
                          !.tombstones = Updated(@, i, Sequence)]
  /\ UNCHANGED <<rotated, replaced>>

\* Roles of owners cannot be changed, and no one is made an owner this way.
ItemRoleChange(i, p, role) ==
  /\ Operation(<<"ItemRoleChange", i, p>>)
  /\ HasKind(next, p, Grantable) /\ p \notin next.owners
  /\ i \in Live(next)
  /\ role # EffectiveRole(next, i, p)
  /\ next' = [next EXCEPT !.items[i].grants =
       IF role = "none" THEN Without(@, p) ELSE Updated(@, p, role)]
  /\ UNCHANGED <<rotated, replaced>>

ItemReaderSetChange(i) ==
  /\ Operation(<<"ItemReaderSetChange", i>>)
  /\ rotated' = rotated \union {i}
  /\ UNCHANGED <<next, replaced>>

ItemSlotsReplace(i, access) ==
  /\ Operation(<<"ItemSlotsReplace", i>>)
  /\ AccessPaths(access)
  /\ replaced' = Updated(replaced, i, access)
  /\ UNCHANGED <<next, rotated>>

-----------------------------------------------------------------------------
(***************************************************************************)
(* The end of a revision.  An item whose readers change must come with a   *)
(* reader-set change and new slots, which move it to the next key epoch.   *)
(***************************************************************************)
Common == Live(policy) \intersect Live(next)

ReadersChanged(i) == EffectiveReaders(policy, i) # EffectiveReaders(next, i)

RotationsComplete ==
  /\ \A i \in Common :
       /\ ReadersChanged(i) => i \in rotated /\ i \in DOMAIN replaced
       /\ i \in rotated => i \in DOMAIN replaced
       /\ i \in DOMAIN replaced =>
            \/ i \in rotated
            \/ next.items[i].described = policy.items[i].epoch + 1
  /\ rotated \subseteq Common /\ DOMAIN replaced \subseteq Common

MutRotate(i) ==
  [next.items[i] EXCEPT !.access = replaced[i]]

\* apply_rotations on one item: epoch, descriptor and slots move together.
Rotate(i) ==
  [next.items[i] EXCEPT !.epoch = policy.items[i].epoch + 1,
                        !.described = policy.items[i].epoch + 1,
                        !.sealed = policy.items[i].epoch + 1,
                        !.access = replaced[i]]

\* The policy the revision leads to, before it is checked.
Result(t) ==
  [next EXCEPT
     !.sequence = Sequence, !.time = t,
     !.items = [i \in DOMAIN @ |->
                  IF i \in DOMAIN replaced THEN Rotate(i) ELSE @[i]]]

MutSlotCurrent(s, i, d) ==
  /\ HasKind(s, d.id, Grantable)
  /\ EffectiveRole(s, i, d.id) # "none"

\* A slot is addressed to the key its recipient has now, with the role it has.
SlotCurrent(s, i, d) ==
  LET role == EffectiveRole(s, i, d.id)
      given == s.items[i].access.to[d]
  IN /\ HasKind(s, d.id, Grantable)
     /\ role = given \/ {role, given} \subseteq {"reader", "writer"}
     /\ \E e \in s.principals : e.id = d.id /\ e.rkey = d.rkey
     /\ s.items[i].sealed = s.items[i].epoch

\* validate_item_policy_binding: every member and every approver of the
\* witness policy is active with exactly the keys the policy names.
WitnessBinding(s, w) ==
  /\ w.sequence =< s.sequence
  /\ \A m \in w.members : \E e \in s.principals :
       /\ e.kind = "witness" /\ e.id = m.id
       /\ e.vkey = m.vkey /\ e.rkey = m.rkey
  /\ \A a \in w.approvers : \E e \in s.principals :
       e.kind = "approver" /\ e.id = a.id /\ e.vkey = a.vkey

CompleteState(s) ==
  /\ s.owners # {} /\ \A p \in s.owners : HasKind(s, p, {"human"})
  /\ \A i \in Live(s) :
       LET item == s.items[i] IN
       /\ DOMAIN item.access.to # {} \/ item.access.witnessed # {}
       /\ \A p \in DOMAIN item.grants : HasKind(s, p, Grantable)
       /\ \A d \in DOMAIN item.access.to : SlotCurrent(s, i, d)
       /\ \A w \in item.access.witnessed : WitnessBinding(s, w)
  /\ Cardinality(Live(s)) =< MaxItems

CompleteOwnerSlots(s) ==
  \A i \in Live(s) : WitnessedOnly(s.items[i]) \/
                     s.owners \subseteq Recipients(s.items[i])

\* Everything policy s has sealed, by item, epoch and recipient.
Sealed(s) ==
  UNION {{<<i, s.items[i].epoch, d>> : d \in DOMAIN s.items[i].access.to} :
         i \in Live(s)}

Adopt(s) ==
  /\ policy' = s
  /\ next' = s
  /\ keys' = {} /\ rotated' = {} /\ replaced' = Nothing
  /\ sealed' = sealed \union Sealed(s)

\* The revision is signed by an active owner of the policy it follows.
Accept(author, t) ==
  /\ keys # {}
  /\ author \in policy.owners /\ Active(policy, author)
  /\ t >= policy.time
  /\ RotationsComplete
  /\ CompleteState(Result(t))
  /\ CompleteOwnerSlots(Result(t))
  /\ Adopt(Result(t))

\* The first revision of a rolled-over vault may carry no operation.
AcceptEmpty(author, t) ==
  /\ keys = {}
  /\ Rollover /\ policy.sequence = 0 /\ MaxRevisions > 0
  /\ author \in policy.owners /\ Active(policy, author)
  /\ t >= policy.time
  /\ CompleteOwnerSlots(policy)
  /\ Adopt([policy EXCEPT !.sequence = 1, !.time = t])

\* Any operation or check that fails refuses the whole revision.
Refuse ==
  /\ keys # {}
  /\ next' = policy
  /\ keys' = {} /\ rotated' = {} /\ replaced' = Nothing
  /\ UNCHANGED <<policy, sealed>>

Next ==
  \/ \E d \in Descriptors : PrincipalAdd(d)
  \/ \E p \in Ids : \/ PrincipalLabelChange(p) \/ PrincipalRemove(p)
                    \/ OwnerGrant(p) \/ OwnerRevoke(p)
  \/ \E p \in Ids, d \in Descriptors : PrincipalReplace(p, d)
  \/ \E i \in Items, access \in Access : \/ ItemCreate(i, access)
                                         \/ ItemSlotsReplace(i, access)
  \/ \E i \in Items : ItemRename(i) \/ ItemDelete(i) \/ ItemReaderSetChange(i)
  \/ \E i \in Items, p \in Ids, role \in {"reader", "writer", "none"} :
       ItemRoleChange(i, p, role)
  \/ \E p \in Ids, t \in Times : Accept(p, t) \/ AcceptEmpty(p, t)
  \/ Refuse

Spec == Init /\ [][Next]_vars

-----------------------------------------------------------------------------
(***************************************************************************)
(* Properties.                                                             *)
(***************************************************************************)
\* A partial function, without enumerating the functions.
Partial(f, S) == DOMAIN f \subseteq S /\ f = [x \in DOMAIN f |-> f[x]]

ItemTyped(item) ==
  /\ item.epoch \in Nat \ {0} /\ item.described \in Nat \ {0}
  /\ item.sealed \in Nat \ {0} /\ item.access \in Access
  /\ Partial(item.grants, Ids)
  /\ \A p \in DOMAIN item.grants : item.grants[p] \in {"reader", "writer"}

PolicyTyped(s) ==
  /\ s.sequence \in Nat /\ s.time \in Nat
  /\ s.principals \subseteq Descriptors /\ s.known \subseteq Descriptors
  /\ s.owners \subseteq Ids /\ s.used \subseteq Items
  /\ Partial(s.items, Items) /\ Partial(s.tombstones, Items)
  /\ \A i \in DOMAIN s.items : ItemTyped(s.items[i])
  /\ \A i \in DOMAIN s.tombstones : s.tombstones[i] \in Nat

\* The policy and the copy are policies, the announced rotations are slots.
TypeOK == /\ PolicyTyped(policy) /\ PolicyTyped(next)
          /\ rotated \subseteq Items
          /\ Partial(replaced, Items)
          /\ \A i \in DOMAIN replaced : replaced[i] \in Access
          /\ sealed \subseteq (Items \X Nat \X Descriptors)

\* Whatever was ever sealed at the epoch an item is in now is addressed to
\* the key that an effective reader of the item has now: no revision, however
\* it combines grants, ownership changes and replacements of principals,
\* leaves the current key with someone who may no longer read (apply_rotations
\* and validate_complete_state).
KeyEpochConfined ==
  \A i \in Live(policy) : \A d \in Descriptors :
    <<i, policy.items[i].epoch, d>> \in sealed =>
      /\ d.id \in EffectiveReaders(policy, i)
      /\ \E e \in policy.principals : e.id = d.id /\ e.rkey = d.rkey

\* No owner is ever locked out: access() allows every owner everything, and
\* an item that is opened directly is sealed to the key each owner has now,
\* after any ownership change or replacement (validate_complete_owner_slots).
OwnersHoldKeys ==
  \A i \in Live(policy), p \in policy.owners :
    /\ Allowed(policy, i, p, "administer")
    /\ \/ WitnessedOnly(policy.items[i])
       \/ \E d \in DOMAIN policy.items[i].access.to :
            /\ d.id = p /\ policy.items[i].access.to[d] = "owner"
            /\ \E e \in policy.principals : e.id = p /\ e.rkey = d.rkey

\* A witnessed item can always be opened by a quorum: removing or replacing
\* witnesses never takes away the members of a policy an item still uses
\* (validate_item_policy_binding, witness_authority).
QuorumReachable == \A i \in Live(policy) : Reachable(policy, i)

\* No two principals of the vault's whole history share an identifier or a
\* key, and every item identifier ever used is either live or deleted
\* (add_principal, replace_principal, create_item).
IdentitiesUnique ==
  /\ \A d, e \in policy.known :
       d.id = e.id \/ d.rkey = e.rkey \/ d.vkey = e.vkey => d = e
  /\ Live(policy) \intersect DOMAIN policy.tombstones = {}
  /\ policy.used = Live(policy) \union DOMAIN policy.tombstones

\* Whatever revisions are signed, one that replay accepts leaves a well-formed
\* policy that works: what is sealed under the current keys is for those it
\* admits, every owner holds them, every witness policy keeps a quorum of live
\* members, and no identifier or key serves two principals
\* (replay_policy_with_catalog).
AcceptedPolicySound ==
  TypeOK /\ KeyEpochConfined /\ OwnersHoldKeys /\ QuorumReachable /\ IdentitiesUnique

\* A principal that was removed or replaced is never active again, and a
\* deleted item stays deleted, with the sequence number of its deletion.
DepartedStayAway ==
  [][/\ (policy.known \ policy.principals) \intersect policy'.principals = {}
     /\ policy.known \subseteq policy'.known
     /\ \A i \in DOMAIN policy.tombstones :
          /\ i \in DOMAIN policy'.tombstones
          /\ policy'.tombstones[i] = policy.tombstones[i]]_vars

ItemKeys ==
  [i \in Items |->
     CASE i \in Live(policy) ->
            [status |-> "live", epoch |-> policy.items[i].epoch,
             readers |-> EffectiveReaders(policy, i),
             holders |-> Recipients(policy.items[i])]
       [] i \in DOMAIN policy.tombstones ->
            [status |-> "retired", epoch |-> 0, readers |-> {}, holders |-> {}]
       [] OTHER ->
            [status |-> "unborn", epoch |-> 0, readers |-> {}, holders |-> {}]]

Epochs == INSTANCE KeyEpochs WITH keys <- ItemKeys, People <- Ids

\* Replay keeps the promise of module KeyEpochs.
ImplementsKeyEpochs == Epochs!Spec
=============================================================================
