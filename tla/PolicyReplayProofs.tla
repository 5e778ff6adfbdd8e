------------------------- MODULE PolicyReplayProofs -------------------------
(***************************************************************************)
(* Policy replay for every set of descriptors, items, slot sets, witness   *)
(* policies and times: who left stays away, the key of an epoch stays with *)
(* its readers, and replay implements KeyEpochs.  Then the bootstrap of a  *)
(* rollover: its poll for proofs and its comparison of public scopes.      *)
(***************************************************************************)
EXTENDS PolicyReplay, RolloverBootstrap, FiniteSetTheorems, WellFoundedInduction, TLAPS

Partials(S, T) == UNION {[D -> T] : D \in SUBSET S}

ItemRecords == [epoch : Nat \ {0}, described : Nat \ {0}, sealed : Nat \ {0},
                grants : Partials(Ids, {"reader", "writer"}), access : Access]

Policies == [sequence : Nat, time : Nat, principals : SUBSET Descriptors,
             known : SUBSET Descriptors, owners : SUBSET Ids,
             items : Partials(Items, ItemRecords), used : SUBSET Items,
             tombstones : Partials(Items, Nat)]

Typed == /\ policy \in Policies /\ next \in Policies
         /\ replaced \in Partials(Items, Access) /\ rotated \subseteq Items
         /\ sealed \subseteq Items \X Nat \X Descriptors

\* Principals come from the known ones, and an identifier is live or deleted.
Sound(s) == /\ s.principals \subseteq s.known
            /\ Live(s) \cap DOMAIN s.tombstones = {}
            /\ s.used = Live(s) \cup DOMAIN s.tombstones

\* No two principals a policy ever knew share an identifier or a key.
Unique(s) == \A d, e \in s.known :
               d.id = e.id \/ d.rkey = e.rkey \/ d.vkey = e.vkey => d = e

\* How operations may take a policy s to n: nobody who was known and gone
\* comes back, items keep their epoch and slots, appear with the first epoch
\* under an identifier of their own, and leave a tombstone.
Evolves(s, n) ==
  /\ s.known \subseteq n.known
  /\ (s.known \ s.principals) \cap n.principals = {}
  /\ s.used \subseteq n.used
  /\ \A i \in Live(s) \cap Live(n) : /\ n.items[i].epoch = s.items[i].epoch
                                     /\ n.items[i].access = s.items[i].access
  /\ \A i \in Live(n) \ Live(s) : i \notin s.used /\ n.items[i].epoch = 1
  /\ \A i \in DOMAIN s.tombstones : /\ i \in DOMAIN n.tombstones
                                    /\ n.tombstones[i] = s.tombstones[i]

-----------------------------------------------------------------------------
(***************************************************************************)
(* Partial functions.                                                      *)
(***************************************************************************)
LEMMA PartialUpdated ==
  ASSUME NEW S, NEW T, NEW f \in Partials(S, T), NEW x \in S, NEW v \in T
  PROVE  Updated(f, x, v) \in Partials(S, T)
<1>1. PICK D \in SUBSET S : f \in [D -> T] BY DEF Partials
<1>2. Updated(f, x, v) \in [D \cup {x} -> T] BY <1>1 DEF Updated
<1> QED BY <1>2 DEF Partials

\* Removing a key keeps a partial function.
LEMMA PartialWithout ==
  ASSUME NEW S, NEW T, NEW f \in Partials(S, T), NEW x
  PROVE  Without(f, x) \in Partials(S, T)
<1>1. PICK D \in SUBSET S : f \in [D -> T] BY DEF Partials
<1>2. Without(f, x) \in [D \ {x} -> T] BY <1>1 DEF Without
<1> QED BY <1>2 DEF Partials

\* What a partial function is defined on, and gives.
LEMMA PartialApplied ==
  ASSUME NEW S, NEW T, NEW f \in Partials(S, T)
  PROVE  DOMAIN f \subseteq S /\ \A x \in DOMAIN f : f[x] \in T
BY DEF Partials

\* It is the function the runs check it to be.
LEMMA PartialIs ==
  ASSUME NEW S, NEW T, NEW f \in Partials(S, T)
  PROVE  Partial(f, S)
BY DEF Partials, Partial

\* A function on a subset is a partial function.
LEMMA PartialMapped ==
  ASSUME NEW S, NEW T, NEW D \in SUBSET S, NEW f \in [D -> T]
  PROVE  f \in Partials(S, T)
BY DEF Partials

-----------------------------------------------------------------------------
(***************************************************************************)
(* Evolution is reflexive, and one operation after the other is evolution. *)
(***************************************************************************)
LEMMA EvolvesSame ==
  ASSUME NEW s, NEW n, Sound(s), n.known = s.known, n.principals = s.principals,
         n.used = s.used, n.tombstones = s.tombstones, n.items = s.items
  PROVE  Sound(n) /\ Evolves(s, n)
BY DEF Sound, Evolves, Live

\* Operations compose.
LEMMA EvolvesOn ==
  ASSUME NEW a, NEW b, NEW c, Sound(a), Evolves(a, b), Evolves(b, c)
  PROVE  Evolves(a, c)
<1>1. \A i \in Live(a) \cap Live(c) : i \in Live(b)
  BY DEF Sound, Evolves
<1>2. \A i \in Live(c) \ Live(a) : i \in Live(b) \/ i \notin b.used
  BY DEF Evolves
<1> QED BY <1>1, <1>2 DEF Evolves

(***************************************************************************)
(* The operations on principals leave the items' keys alone, and no two    *)
(* principals share an identifier or a key.                                *)
(***************************************************************************)
Good == /\ next' \in Policies /\ Sound(next') /\ Evolves(next, next')
        /\ Unique(next) => Unique(next')

\* Uniqueness is a matter of the known principals, and a new one is refused
\* unless it is unlike them all.
LEMMA UniqueSame ==
  ASSUME NEW s, NEW n, n.known = s.known
  PROVE  Unique(s) => Unique(n)
BY DEF Unique

\* A principal unlike all that were known may join.
LEMMA UniqueAdded ==
  ASSUME NEW s, NEW n, NEW d, Unused(s, d), n.known = s.known \cup {d}
  PROVE  Unique(s) => Unique(n)
BY DEF Unique, Unused

\* add_principal.
LEMMA AddEvolves ==
  ASSUME Typed, Sound(next), NEW d \in Descriptors, PrincipalAdd(d)
  PROVE  Good
<1>1. next' = [next EXCEPT !.principals = @ \cup {d}, !.known = @ \cup {d}]
  BY DEF PrincipalAdd
<1>2. next' \in Policies BY <1>1, Zenon DEF Typed, Policies
<1>3. /\ next'.principals = next.principals \cup {d} /\ next'.known = next.known \cup {d}
      /\ next'.items = next.items /\ next'.used = next.used
      /\ next'.tombstones = next.tombstones
  BY <1>1 DEF Typed, Policies
<1>4. d \notin next.known BY DEF PrincipalAdd, Unused
<1>5. Unique(next) => Unique(next') BY ZenonT(60), <1>3, UniqueAdded DEF PrincipalAdd
<1> QED BY <1>2, <1>3, <1>4, <1>5 DEF Good, Sound, Evolves, Live

\* remove_principal.
LEMMA RemoveEvolves ==
  ASSUME Typed, Sound(next), NEW p \in Ids, PrincipalRemove(p)
  PROVE  Good
<1>1. next' = [next EXCEPT !.principals = {d \in @ : d.id # p}]
  BY DEF PrincipalRemove
<1>2. next' \in Policies BY <1>1 DEF Typed, Policies
<1>3. /\ next'.principals \subseteq next.principals /\ next'.known = next.known
      /\ next'.items = next.items /\ next'.used = next.used
      /\ next'.tombstones = next.tombstones
  BY <1>1 DEF Typed, Policies
<1>4. Unique(next) => Unique(next') BY <1>3, UniqueSame
<1> QED BY <1>2, <1>3, <1>4 DEF Good, Sound, Evolves, Live

\* OwnerGrant and OwnerRevoke.
LEMMA OwnersEvolve ==
  ASSUME Typed, Sound(next), NEW p \in Ids, OwnerGrant(p) \/ OwnerRevoke(p)
  PROVE  Good
<1>1. PICK o \in SUBSET Ids : next' = [next EXCEPT !.owners = o]
  <2>1. next.owners \in SUBSET Ids BY DEF Typed, Policies
  <2>2. CASE OwnerGrant(p)
    <3>1. next' = [next EXCEPT !.owners = next.owners \cup {p}] BY <2>2 DEF OwnerGrant
    <3> QED BY <2>1, <3>1
  <2>3. CASE OwnerRevoke(p)
    <3>1. next' = [next EXCEPT !.owners = next.owners \ {p}] BY <2>3 DEF OwnerRevoke
    <3> QED BY <2>1, <3>1, Zenon
  <2> QED BY <2>2, <2>3
<1>2. next' \in Policies BY <1>1 DEF Typed, Policies
<1>3. /\ next'.principals = next.principals /\ next'.known = next.known
      /\ next'.items = next.items /\ next'.used = next.used
      /\ next'.tombstones = next.tombstones
  BY <1>1 DEF Typed, Policies
<1> QED BY <1>2, <1>3, EvolvesSame, UniqueSame DEF Good

\* replace_principal.
LEMMA ReplaceEvolves ==
  ASSUME Typed, Sound(next), NEW p \in Ids, NEW d \in Descriptors, PrincipalReplace(p, d)
  PROVE  Good
<1> DEFINE Moved(g) == IF p \in DOMAIN g THEN Updated(Without(g, p), d.id, g[p]) ELSE g
           items == [i \in DOMAIN next.items |->
                       [next.items[i] EXCEPT !.grants = Moved(next.items[i].grants)]]
           owners == IF p \in next.owners THEN (next.owners \ {p}) \cup {d.id} ELSE next.owners
<1>1. next' = [next EXCEPT !.principals = {e \in next.principals : e.id # p} \cup {d},
                           !.known = next.known \cup {d}, !.owners = owners, !.items = items]
  BY DEF PrincipalReplace, Live
<1>2. d \notin next.known BY DEF PrincipalReplace, Unused
<1>3. ASSUME NEW i \in DOMAIN next.items
      PROVE  /\ items[i] \in ItemRecords
             /\ items[i].epoch = next.items[i].epoch /\ items[i].access = next.items[i].access
  <2>1. next.items[i] \in ItemRecords
    BY PartialApplied DEF Typed, Policies
  <2>2. next.items[i].grants \in Partials(Ids, {"reader", "writer"})
    BY <2>1 DEF ItemRecords
  <2>3. Moved(next.items[i].grants) \in Partials(Ids, {"reader", "writer"})
    <3> DEFINE g == next.items[i].grants
    <3>1. CASE p \in DOMAIN g
      <4>1. g[p] \in {"reader", "writer"} BY <2>2, <3>1, PartialApplied
      <4>2. Without(g, p) \in Partials(Ids, {"reader", "writer"}) BY <2>2, PartialWithout
      <4>3. d.id \in Ids BY DEF Ids
      <4>4. Updated(Without(g, p), d.id, g[p]) \in Partials(Ids, {"reader", "writer"})
        BY <4>1, <4>2, <4>3, PartialUpdated
      <4> QED BY <3>1, <4>4
    <3> QED BY <2>2, <3>1
  <2> QED BY <2>1, <2>3 DEF ItemRecords
<1>4. items \in Partials(Items, ItemRecords)
  <2>1. DOMAIN next.items \in SUBSET Items BY PartialApplied DEF Typed, Policies
  <2> QED BY <1>3, <2>1, PartialMapped, Zenon
<1>5. owners \in SUBSET Ids BY DEF Typed, Policies, Ids
<1> HIDE DEF items, owners
<1>6. next' \in Policies BY <1>1, <1>4, <1>5, Zenon DEF Typed, Policies
<1>7. /\ next'.principals = {e \in next.principals : e.id # p} \cup {d}
      /\ next'.known = next.known \cup {d}
      /\ next'.items = items /\ next'.used = next.used
      /\ next'.tombstones = next.tombstones
  BY <1>1 DEF Typed, Policies
<1>8. DOMAIN items = DOMAIN next.items BY DEF items
<1>9. Unique(next) => Unique(next') BY ZenonT(60), <1>7, UniqueAdded DEF PrincipalReplace
<1> QED BY <1>2, <1>3, <1>6, <1>7, <1>8, <1>9 DEF Good, Sound, Evolves, Live

-----------------------------------------------------------------------------
(***************************************************************************)
(* The operations on items.                                                *)
(***************************************************************************)
LEMMA CreateEvolves ==
  ASSUME Typed, Sound(next), NEW i \in Items, NEW access \in Access, ItemCreate(i, access)
  PROVE  Good
<1> DEFINE grants == [p \in {d.id : d \in Held(access)} |->
                        access.to[CHOOSE d \in Held(access) : d.id = p]]
           item == [epoch |-> 1, described |-> 1, sealed |-> 1,
                    grants |-> grants, access |-> access]
<1>1. /\ next' = [next EXCEPT !.items = Updated(next.items, i, item),
                              !.used = next.used \cup {i}]
      /\ i \notin next.used
  BY DEF ItemCreate, FreshItem
<1>2. item \in ItemRecords
  <2>1. access.to \in SlotSets BY DEF Access
  <2>2. \A d \in Held(access) : d \in Descriptors /\ access.to[d] \in {"reader", "writer"}
    BY <2>1, SlotSetsAssumption DEF Held, Roles
  <2>3. grants \in [{d.id : d \in Held(access)} -> {"reader", "writer"}]
    <3>1. ASSUME NEW p \in {d.id : d \in Held(access)}
          PROVE  grants[p] \in {"reader", "writer"}
      <4>1. (CHOOSE d \in Held(access) : d.id = p) \in Held(access) OBVIOUS
      <4> QED BY <2>2, <4>1
    <3> QED BY <3>1, Zenon
  <2>4. {d.id : d \in Held(access)} \in SUBSET Ids BY <2>2 DEF Ids
  <2>5. grants \in Partials(Ids, {"reader", "writer"}) BY <2>3, <2>4, PartialMapped, Zenon
  <2> QED BY <2>5 DEF ItemRecords
<1>3. item.epoch = 1 OBVIOUS
<1> HIDE DEF item
<1>4. Updated(next.items, i, item) \in Partials(Items, ItemRecords)
  BY <1>2, PartialUpdated DEF Typed, Policies
<1>5. next' \in Policies BY <1>1, <1>4, Zenon DEF Typed, Policies
<1>6. /\ next'.principals = next.principals /\ next'.known = next.known
      /\ next'.items = Updated(next.items, i, item) /\ next'.used = next.used \cup {i}
      /\ next'.tombstones = next.tombstones
  BY <1>1 DEF Typed, Policies
<1>7. i \notin Live(next) /\ i \notin DOMAIN next.tombstones BY <1>1 DEF Sound
<1>8. Unique(next) => Unique(next') BY <1>6, UniqueSame
<1> QED BY <1>1, <1>3, <1>5, <1>6, <1>7, <1>8 DEF Good, Sound, Evolves, Live, Updated

\* Changes of grants: the item keeps its epoch and its slots.
LEMMA TouchEvolves ==
  ASSUME Typed, Sound(next), NEW i \in Live(next), NEW r \in ItemRecords,
         r.epoch = next.items[i].epoch, r.access = next.items[i].access,
         next' = [next EXCEPT !.items = [next.items EXCEPT ![i] = r]]
  PROVE  Good
<1>1. [next.items EXCEPT ![i] = r] \in Partials(Items, ItemRecords)
  <2>1. PICK D \in SUBSET Items : next.items \in [D -> ItemRecords]
    BY DEF Typed, Policies, Partials
  <2>2. [next.items EXCEPT ![i] = r] \in [D -> ItemRecords] BY <2>1, Zenon
  <2> QED BY <2>2, PartialMapped, Zenon
<1>2. next' \in Policies BY <1>1 DEF Typed, Policies
<1>3. /\ next'.principals = next.principals /\ next'.known = next.known
      /\ next'.items = [next.items EXCEPT ![i] = r] /\ next'.used = next.used
      /\ next'.tombstones = next.tombstones
  BY DEF Typed, Policies
<1>4. Unique(next) => Unique(next') BY ZenonT(60), <1>3, UniqueSame
<1> QED BY <1>2, <1>3, <1>4 DEF Good, Sound, Evolves, Live

\* ItemRename.
LEMMA RenameEvolves ==
  ASSUME Typed, Sound(next), NEW i \in Items, ItemRename(i)
  PROVE  Good
<1> DEFINE r == [next.items[i] EXCEPT !.described = next.items[i].epoch]
<1>1. i \in Live(next) /\ next.items[i] \in ItemRecords
  BY PartialApplied DEF ItemRename, Typed, Policies, Live
<1>2. r \in ItemRecords /\ r.epoch = next.items[i].epoch /\ r.access = next.items[i].access
  BY <1>1 DEF ItemRecords
<1>3. next' = [next EXCEPT !.items = [next.items EXCEPT ![i] = r]]
  BY <1>1 DEF ItemRename
<1> HIDE DEF r
<1> QED BY <1>1, <1>2, <1>3, TouchEvolves

\* change_role.
LEMMA RoleChangeEvolves ==
  ASSUME Typed, Sound(next), NEW i \in Items, NEW p \in Ids,
         NEW role \in {"reader", "writer", "none"}, ItemRoleChange(i, p, role)
  PROVE  Good
<1> DEFINE g == next.items[i].grants
           h == IF role = "none" THEN Without(g, p) ELSE Updated(g, p, role)
           r == [next.items[i] EXCEPT !.grants = h]
<1>1. i \in Live(next) /\ next.items[i] \in ItemRecords
  BY PartialApplied DEF ItemRoleChange, Typed, Policies, Live
<1>2. h \in Partials(Ids, {"reader", "writer"})
  <2>1. g \in Partials(Ids, {"reader", "writer"}) BY <1>1 DEF ItemRecords
  <2>2. CASE role = "none" BY <2>1, <2>2, PartialWithout
  <2>3. CASE role # "none"
    <3>1. role \in {"reader", "writer"} BY <2>3
    <3>2. Updated(g, p, role) \in Partials(Ids, {"reader", "writer"})
      BY <2>1, <3>1, PartialUpdated
    <3> QED BY <2>3, <3>2
  <2> QED BY <2>2, <2>3
<1>3. next' = [next EXCEPT !.items = [next.items EXCEPT ![i] = r]]
  BY <1>1 DEF ItemRoleChange
<1> HIDE DEF h
<1>4. r \in ItemRecords /\ r.epoch = next.items[i].epoch /\ r.access = next.items[i].access
  BY <1>1, <1>2 DEF ItemRecords
<1> HIDE DEF r
<1> QED BY <1>1, <1>3, <1>4, TouchEvolves

\* delete_item.
LEMMA DeleteEvolves ==
  ASSUME Typed, Sound(next), NEW i \in Items, ItemDelete(i)
  PROVE  Good
<1>1. /\ next' = [next EXCEPT !.items = Without(next.items, i),
                              !.tombstones = Updated(next.tombstones, i, Sequence)]
      /\ i \in Live(next)
  BY DEF ItemDelete
<1>2. Without(next.items, i) \in Partials(Items, ItemRecords)
  BY PartialWithout DEF Typed, Policies
<1>3. Updated(next.tombstones, i, Sequence) \in Partials(Items, Nat)
  BY PartialUpdated DEF Typed, Policies, Sequence
<1>4. next' \in Policies BY <1>1, <1>2, <1>3, Zenon DEF Typed, Policies
<1>5. /\ next'.principals = next.principals /\ next'.known = next.known
      /\ next'.items = Without(next.items, i) /\ next'.used = next.used
      /\ next'.tombstones = Updated(next.tombstones, i, Sequence)
  BY <1>1 DEF Typed, Policies
<1>6. i \notin DOMAIN next.tombstones BY <1>1 DEF Sound
<1>7. Unique(next) => Unique(next') BY <1>5, UniqueSame
<1> QED BY <1>1, <1>4, <1>5, <1>6, <1>7 DEF Good, Sound, Evolves, Live, Updated, Without

-----------------------------------------------------------------------------
(***************************************************************************)
(* The inductive invariant.  The copy evolved from the policy; the policy  *)
(* is whole: its slots are current, its owners have their slots and its    *)
(* witnesses are active; and what was sealed is of an item's earlier       *)
(* epochs, or is a slot it has now.                                        *)
(***************************************************************************)
SlotsCurrent(s) == \A i \in Live(s) : \A d \in DOMAIN s.items[i].access.to : SlotCurrent(s, i, d)

Whole(s) ==
  /\ \A p \in s.owners : Active(s, p)
  /\ \A i \in Live(s) :
       /\ DOMAIN s.items[i].access.to # {} \/ s.items[i].access.witnessed # {}
       /\ \A w \in s.items[i].access.witnessed : \A m \in w.members :
            HasKind(s, m.id, {"witness"})
  /\ CompleteOwnerSlots(s)

Confined(s, i, e, d) ==
  /\ i \in s.used
  /\ i \in Live(s) => /\ e <= s.items[i].epoch
                      /\ e = s.items[i].epoch => d \in DOMAIN s.items[i].access.to

SealedConfined ==
  \A i \in Items, e \in Nat, d \in Descriptors : <<i, e, d>> \in sealed => Confined(policy, i, e, d)

ReplayInv == /\ Typed /\ Sound(policy) /\ Sound(next) /\ Evolves(policy, next)
             /\ Unique(policy) /\ Unique(next)
             /\ SlotsCurrent(policy) /\ Whole(policy) /\ SealedConfined

(***************************************************************************)
(* What the revision leads to: an item is moved to the next epoch with new *)
(* slots, or keeps its epoch, its slots and its readers, or is new.        *)
(***************************************************************************)
LEMMA ResultIs ==
  ASSUME ReplayInv, RotationsComplete, NEW t \in Nat, NEW s, s = Result(t)
  PROVE  /\ s \in Policies /\ Sound(s) /\ Unique(s)
         /\ s.known = next.known /\ s.principals = next.principals
         /\ s.used = next.used /\ s.tombstones = next.tombstones
         /\ Live(s) = Live(next)
         /\ \A i \in Live(s) \cap Live(policy) :
              \/ s.items[i].epoch = policy.items[i].epoch + 1
              \/ /\ s.items[i].epoch = policy.items[i].epoch
                 /\ s.items[i].access = policy.items[i].access
                 /\ EffectiveReaders(s, i) = EffectiveReaders(policy, i)
         /\ \A i \in Live(s) \ Live(policy) : i \notin policy.used /\ s.items[i].epoch = 1
<1> DEFINE items == [i \in DOMAIN next.items |->
                       IF i \in DOMAIN replaced THEN Rotate(i) ELSE next.items[i]]
<1>1. s = [next EXCEPT !.sequence = Sequence, !.time = t, !.items = items]
  BY DEF Result
<1>2. /\ \A i \in DOMAIN replaced : i \in Live(policy) /\ i \in Live(next) /\ replaced[i] \in Access
      /\ \A i \in Live(policy) : policy.items[i] \in ItemRecords
      /\ \A i \in Live(next) : next.items[i] \in ItemRecords
  BY PartialApplied DEF ReplayInv, Typed, Policies, RotationsComplete, Common, Live
<1>3. ASSUME NEW i \in DOMAIN replaced
      PROVE  /\ Rotate(i) \in ItemRecords
             /\ Rotate(i).epoch = policy.items[i].epoch + 1
  <2>1. policy.items[i].epoch \in Nat BY <1>2 DEF ItemRecords
  <2>2. PICK n \in Nat \ {0} : n = policy.items[i].epoch + 1 BY <2>1
  <2>3. Rotate(i) = [next.items[i] EXCEPT !.epoch = n, !.described = n, !.sealed = n,
                                          !.access = replaced[i]]
    BY <2>2 DEF Rotate
  <2>4. next.items[i] \in ItemRecords /\ replaced[i] \in Access BY <1>2
  <2> QED BY <2>2, <2>3, <2>4, Zenon DEF ItemRecords
<1>4. items \in Partials(Items, ItemRecords)
  <2>1. DOMAIN next.items \in SUBSET Items BY PartialApplied DEF ReplayInv, Typed, Policies
  <2> QED BY <1>2, <1>3, <2>1, PartialMapped, Zenon DEF Live
<1>5. /\ DOMAIN items = DOMAIN next.items
      /\ \A i \in DOMAIN next.items :
           items[i] = IF i \in DOMAIN replaced THEN Rotate(i) ELSE next.items[i]
  OBVIOUS
<1> HIDE DEF items
<1>6. s \in Policies
  <2>1. Sequence \in Nat /\ next \in Policies
    BY DEF ReplayInv, Typed, Policies, Sequence
  <2> QED BY <1>1, <1>4, <2>1, Zenon DEF Policies
<1>7. /\ s.known = next.known /\ s.principals = next.principals
      /\ s.used = next.used /\ s.tombstones = next.tombstones
      /\ s.owners = next.owners /\ s.items = items
  BY <1>1 DEF ReplayInv, Typed, Policies
<1>8. Live(s) = Live(next) /\ Sound(s) BY <1>5, <1>7 DEF ReplayInv, Sound, Live
<1>9. ASSUME NEW i \in Live(s) \cap Live(policy)
      PROVE  \/ s.items[i].epoch = policy.items[i].epoch + 1
             \/ /\ s.items[i].epoch = policy.items[i].epoch
                /\ s.items[i].access = policy.items[i].access
                /\ EffectiveReaders(s, i) = EffectiveReaders(policy, i)
  <2>1. CASE i \in DOMAIN replaced
    BY <1>3, <1>5, <1>7, <1>8, <2>1 DEF Live
  <2>2. CASE i \notin DOMAIN replaced
    <3>1. s.items[i] = next.items[i] BY <1>5, <1>7, <1>8, <2>2 DEF Live
    <3>2. EffectiveReaders(s, i) = EffectiveReaders(next, i)
      BY <1>7, <1>8, <3>1 DEF EffectiveReaders
    <3>3. EffectiveReaders(next, i) = EffectiveReaders(policy, i)
      BY <1>8, <2>2 DEF RotationsComplete, ReadersChanged, Common
    <3>4. /\ next.items[i].epoch = policy.items[i].epoch
          /\ next.items[i].access = policy.items[i].access
      BY <1>8 DEF ReplayInv, Evolves
    <3> QED BY <3>1, <3>2, <3>3, <3>4
  <2> QED BY <2>1, <2>2
<1>10. ASSUME NEW i \in Live(s) \ Live(policy)
       PROVE  i \notin policy.used /\ s.items[i].epoch = 1
  <2>1. i \notin DOMAIN replaced BY <1>2
  <2>2. s.items[i] = next.items[i] BY <1>5, <1>7, <1>8, <2>1 DEF Live
  <2> QED BY <1>8, <2>2 DEF ReplayInv, Evolves
<1>11. Unique(s) BY <1>7, UniqueSame DEF ReplayInv
<1> QED BY <1>6, <1>7, <1>8, <1>9, <1>10, <1>11

(***************************************************************************)
(* A complete state is whole.                                              *)
(***************************************************************************)
LEMMA CompleteIsWhole ==
  ASSUME NEW s, CompleteState(s), CompleteOwnerSlots(s)
  PROVE  SlotsCurrent(s) /\ Whole(s)
<1>1. SlotsCurrent(s) BY DEF CompleteState, SlotsCurrent
<1>2. \A p \in s.owners : Active(s, p) BY DEF CompleteState, HasKind, Active
<1>3. ASSUME NEW i \in Live(s)
      PROVE  /\ DOMAIN s.items[i].access.to # {} \/ s.items[i].access.witnessed # {}
             /\ \A w \in s.items[i].access.witnessed : \A m \in w.members :
                  HasKind(s, m.id, {"witness"})
  BY DEF CompleteState, WitnessBinding, HasKind
<1> QED BY <1>1, <1>2, <1>3 DEF Whole

\* What a policy seals, it seals to the recipients of its slots.
LEMMA SealedTyped ==
  ASSUME NEW s \in Policies
  PROVE  Sealed(s) \subseteq Items \X Nat \X Descriptors
<1> SUFFICES ASSUME NEW x \in Sealed(s) PROVE x \in Items \X Nat \X Descriptors OBVIOUS
<1>1. PICK i \in Live(s) : x \in {<<i, s.items[i].epoch, d>> : d \in DOMAIN s.items[i].access.to}
  BY DEF Sealed
<1>2. PICK d \in DOMAIN s.items[i].access.to : x = <<i, s.items[i].epoch, d>> BY <1>1
<1>3. i \in Items /\ s.items[i] \in ItemRecords BY PartialApplied DEF Policies, Live
<1>4. s.items[i].epoch \in Nat /\ s.items[i].access.to \in SlotSets
  BY <1>3 DEF ItemRecords, Access
<1>5. d \in Descriptors BY <1>4, SlotSetsAssumption
<1> QED BY <1>2, <1>3, <1>4, <1>5

(***************************************************************************)
(* An accepted revision keeps the invariant.                               *)
(***************************************************************************)
LEMMA AdoptKeeps ==
  ASSUME ReplayInv, NEW s, Adopt(s), s \in Policies, Sound(s), Unique(s), SlotsCurrent(s),
         Whole(s), policy.used \subseteq s.used,
         \A i \in Live(s) \cap Live(policy) :
           \/ s.items[i].epoch = policy.items[i].epoch + 1
           \/ /\ s.items[i].epoch = policy.items[i].epoch
              /\ s.items[i].access = policy.items[i].access,
         \A i \in Live(s) \ Live(policy) : i \notin policy.used
  PROVE  ReplayInv'
<1>1. /\ policy' = s /\ next' = s /\ replaced' = Nothing /\ rotated' = {}
      /\ sealed' = sealed \cup Sealed(s)
  BY DEF Adopt
<1>2. Typed'
  <2>1. Nothing \in Partials(Items, Access)
    <3>1. Nothing \in [{} -> Access] BY DEF Nothing
    <3> QED BY <3>1, PartialMapped, Zenon
  <2>2. sealed' \subseteq Items \X Nat \X Descriptors
    BY <1>1, SealedTyped DEF ReplayInv, Typed
  <2> QED BY <1>1, <2>1, <2>2 DEF Typed
<1>3. Sound(policy)' /\ Sound(next)' /\ Evolves(policy, next)'
  <2>1. Evolves(s, s) BY DEF Evolves, Sound
  <2> QED BY <1>1, <2>1
<1>4. SlotsCurrent(policy)' /\ Whole(policy)' /\ Unique(policy)' /\ Unique(next)' BY <1>1
<1>5. ASSUME NEW i \in Items, NEW e \in Nat, NEW d \in Descriptors, <<i, e, d>> \in sealed'
      PROVE  Confined(s, i, e, d)
  <2>1. CASE <<i, e, d>> \in sealed
    <3>1. Confined(policy, i, e, d) BY <2>1 DEF ReplayInv, SealedConfined
    <3>2. i \in s.used BY <3>1 DEF Confined
    <3>3. ASSUME i \in Live(s)
          PROVE  /\ e <= s.items[i].epoch
                 /\ e = s.items[i].epoch => d \in DOMAIN s.items[i].access.to
      <4>1. i \in Live(policy) BY <3>1, <3>3 DEF Confined
      <4>2. policy.items[i].epoch \in Nat
        <5>1. policy.items[i] \in ItemRecords
          BY <4>1, PartialApplied DEF ReplayInv, Typed, Policies, Live
        <5> QED BY <5>1 DEF ItemRecords
      <4>3. CASE s.items[i].epoch = policy.items[i].epoch + 1
        BY <3>1, <4>1, <4>2, <4>3 DEF Confined
      <4>4. CASE /\ s.items[i].epoch = policy.items[i].epoch
                 /\ s.items[i].access = policy.items[i].access
        BY <3>1, <4>1, <4>4 DEF Confined
      <4> QED BY <3>3, <4>1, <4>3, <4>4
    <3> QED BY <3>2, <3>3 DEF Confined
  <2>2. CASE <<i, e, d>> \in Sealed(s)
    <3>1. PICK j \in Live(s) : <<i, e, d>> \in {<<j, s.items[j].epoch, x>> : x \in DOMAIN s.items[j].access.to}
      BY <2>2 DEF Sealed
    <3>2. i = j /\ e = s.items[j].epoch /\ d \in DOMAIN s.items[j].access.to BY <3>1
    <3> QED BY <3>1, <3>2 DEF Confined, Sound
  <2> QED BY <1>1, <1>5, <2>1, <2>2
<1>6. SealedConfined' BY <1>1, <1>5 DEF SealedConfined
<1> QED BY <1>2, <1>3, <1>4, <1>6 DEF ReplayInv

\* A signed revision with operations.
LEMMA AcceptKeeps ==
  ASSUME ReplayInv, NEW author \in Ids, NEW t \in Times, Accept(author, t)
  PROVE  ReplayInv'
<1>1. /\ t \in Nat /\ RotationsComplete /\ CompleteState(Result(t))
      /\ CompleteOwnerSlots(Result(t)) /\ Adopt(Result(t))
  BY PolicyBoundsAssumption DEF Accept
<1>2. PICK s : s = Result(t) OBVIOUS
<1>3. SlotsCurrent(s) /\ Whole(s) BY ZenonT(60), <1>1, <1>2, CompleteIsWhole
<1>4. policy.used \subseteq s.used BY <1>1, <1>2, ResultIs DEF ReplayInv, Evolves
<1> QED BY <1>1, <1>2, <1>3, <1>4, ResultIs, AdoptKeeps

\* The empty first revision changes only the sequence and the time.
LEMMA AcceptEmptyIs ==
  ASSUME ReplayInv, NEW t \in Times, NEW s, s = [policy EXCEPT !.sequence = 1, !.time = t]
  PROVE  /\ s \in Policies /\ s.known = policy.known /\ s.principals = policy.principals
         /\ s.used = policy.used /\ s.tombstones = policy.tombstones
         /\ s.items = policy.items /\ s.owners = policy.owners
BY PolicyBoundsAssumption, Zenon DEF ReplayInv, Typed, Policies

\* The empty first revision keeps the invariant.
LEMMA AcceptEmptyKeeps ==
  ASSUME ReplayInv, NEW author \in Ids, NEW t \in Times, AcceptEmpty(author, t)
  PROVE  ReplayInv'
<1>1. PICK s : s = [policy EXCEPT !.sequence = 1, !.time = t] OBVIOUS
<1>2. Adopt(s) BY <1>1 DEF AcceptEmpty
<1>3. /\ s \in Policies /\ s.known = policy.known /\ s.principals = policy.principals
      /\ s.used = policy.used /\ s.tombstones = policy.tombstones
      /\ s.items = policy.items /\ s.owners = policy.owners
  BY <1>1, AcceptEmptyIs, Zenon
<1>4. Sound(s) /\ Live(s) = Live(policy) BY <1>3 DEF ReplayInv, Sound, Live
<1>5. SlotsCurrent(s)
  BY <1>3, <1>4 DEF ReplayInv, SlotsCurrent, SlotCurrent, HasKind, EffectiveRole
<1>6. Whole(s)
  BY <1>3, <1>4 DEF ReplayInv, Whole, Active, HasKind, CompleteOwnerSlots
<1>7. Unique(s) BY <1>3, UniqueSame DEF ReplayInv
<1> QED BY <1>2, <1>3, <1>4, <1>5, <1>6, <1>7, AdoptKeeps

(***************************************************************************)
(* An operation changes the copy, and announces rotations.                 *)
(***************************************************************************)
LEMMA OperationKeeps ==
  ASSUME ReplayInv, Good \/ next' = next, UNCHANGED <<policy, sealed>>,
         replaced' \in Partials(Items, Access), rotated' \subseteq Items
  PROVE  ReplayInv'
<1>1. next' \in Policies /\ Sound(next') /\ Evolves(policy, next') /\ Unique(next')
  <2>1. CASE Good BY <2>1, EvolvesOn DEF Good, ReplayInv
  <2>2. CASE next' = next BY <2>2 DEF ReplayInv, Typed
  <2> QED BY <2>1, <2>2
<1>2. Typed' BY <1>1 DEF ReplayInv, Typed
<1>3. /\ Sound(policy)' /\ Sound(next)' /\ Evolves(policy, next)'
      /\ Unique(policy)' /\ Unique(next)' /\ SlotsCurrent(policy)' /\ Whole(policy)'
  BY <1>1 DEF ReplayInv
<1>4. SealedConfined' BY DEF ReplayInv, SealedConfined
<1> QED BY <1>2, <1>3, <1>4 DEF ReplayInv

\* Every step keeps the invariant.
LEMMA NextKeeps ==
  ASSUME ReplayInv, Next
  PROVE  ReplayInv'
<1>1. /\ Typed /\ Sound(next) /\ replaced \in Partials(Items, Access)
      /\ rotated \subseteq Items
  BY DEF ReplayInv, Typed
<1>2. ASSUME NEW d \in Descriptors, PrincipalAdd(d) PROVE ReplayInv'
  BY <1>1, <1>2, AddEvolves, OperationKeeps, Zenon DEF PrincipalAdd, Operation
<1>3. ASSUME NEW p \in Ids, PrincipalLabelChange(p) PROVE ReplayInv'
  BY <1>1, <1>3, OperationKeeps DEF PrincipalLabelChange, Operation
<1>4. ASSUME NEW p \in Ids, PrincipalRemove(p) PROVE ReplayInv'
  BY <1>1, <1>4, RemoveEvolves, OperationKeeps DEF PrincipalRemove, Operation
<1>5. ASSUME NEW p \in Ids, OwnerGrant(p) \/ OwnerRevoke(p) PROVE ReplayInv'
  BY <1>1, <1>5, OwnersEvolve, OperationKeeps DEF OwnerGrant, OwnerRevoke, Operation
<1>6. ASSUME NEW p \in Ids, NEW d \in Descriptors, PrincipalReplace(p, d) PROVE ReplayInv'
  <2>1. UNCHANGED <<policy, sealed, rotated, replaced>> BY <1>6 DEF PrincipalReplace, Operation
  <2> QED BY <1>1, <1>6, <2>1, ReplaceEvolves, OperationKeeps
<1>7. ASSUME NEW i \in Items, NEW access \in Access, ItemCreate(i, access) PROVE ReplayInv'
  <2>1. UNCHANGED <<policy, sealed, rotated, replaced>> BY <1>7 DEF ItemCreate, Operation
  <2> QED BY <1>1, <1>7, <2>1, CreateEvolves, OperationKeeps
<1>8. ASSUME NEW i \in Items, NEW access \in Access, ItemSlotsReplace(i, access)
      PROVE  ReplayInv'
  <2>1. UNCHANGED <<policy, sealed, next, rotated>> /\ replaced' = Updated(replaced, i, access)
    BY <1>8 DEF ItemSlotsReplace, Operation
  <2>2. replaced' \in Partials(Items, Access) BY <1>1, <2>1, PartialUpdated
  <2> QED BY <1>1, <2>1, <2>2, OperationKeeps
<1>9. ASSUME NEW i \in Items, ItemRename(i) PROVE ReplayInv'
  <2>1. UNCHANGED <<policy, sealed, rotated, replaced>> BY <1>9 DEF ItemRename, Operation
  <2> QED BY <1>1, <1>9, <2>1, RenameEvolves, OperationKeeps
<1>10. ASSUME NEW i \in Items, ItemDelete(i) PROVE ReplayInv'
  <2>1. UNCHANGED <<policy, sealed, rotated, replaced>> BY <1>10 DEF ItemDelete, Operation
  <2> QED BY <1>1, <1>10, <2>1, DeleteEvolves, OperationKeeps
<1>11. ASSUME NEW i \in Items, ItemReaderSetChange(i) PROVE ReplayInv'
  BY <1>1, <1>11, OperationKeeps DEF ItemReaderSetChange, Operation
<1>12. ASSUME NEW i \in Items, NEW p \in Ids, NEW role \in {"reader", "writer", "none"},
              ItemRoleChange(i, p, role)
       PROVE  ReplayInv'
  <2>1. UNCHANGED <<policy, sealed, rotated, replaced>> BY <1>12 DEF ItemRoleChange, Operation
  <2> QED BY <1>1, <1>12, <2>1, RoleChangeEvolves, OperationKeeps
<1>13. ASSUME NEW p \in Ids, NEW t \in Times, Accept(p, t) \/ AcceptEmpty(p, t)
       PROVE  ReplayInv'
  BY <1>13, AcceptKeeps, AcceptEmptyKeeps
<1>14. ASSUME Refuse PROVE ReplayInv'
  <2>1. /\ next' = policy /\ replaced' = Nothing /\ rotated' = {}
        /\ UNCHANGED <<policy, sealed>>
    BY <1>14 DEF Refuse
  <2>2. Nothing \in Partials(Items, Access)
    <3>1. Nothing \in [{} -> Access] BY DEF Nothing
    <3> QED BY <3>1, PartialMapped, Zenon
  <2>3. Evolves(policy, policy) BY DEF ReplayInv, Evolves, Sound
  <2>4. Typed' BY <2>1, <2>2 DEF ReplayInv, Typed
  <2>5. SealedConfined' BY <2>1 DEF ReplayInv, SealedConfined
  <2> QED BY <2>1, <2>3, <2>4, <2>5 DEF ReplayInv
<1> QED BY ZenonT(60), <1>2, <1>3, <1>4, <1>5, <1>6, <1>7, <1>8, <1>9, <1>10, <1>11, <1>12, <1>13, <1>14
        DEF Next

\* The genesis policy satisfies the invariant.
LEMMA InitInv ==
  ASSUME Init
  PROVE  ReplayInv
<1>1. /\ policy = GenesisPolicy /\ next = GenesisPolicy /\ replaced = Nothing
      /\ rotated = {} /\ sealed = {}
  BY DEF Init
<1>2. Nothing \in [{} -> Access] /\ Nothing \in [{} -> ItemRecords] /\ Nothing \in [{} -> Nat]
  BY DEF Nothing
<1>3. /\ Nothing \in Partials(Items, Access) /\ Nothing \in Partials(Items, ItemRecords)
      /\ Nothing \in Partials(Items, Nat) /\ DOMAIN Nothing = {}
  <2>1. {} \in SUBSET Items OBVIOUS
  <2> QED BY <1>2, <2>1, PartialMapped, Zenon
<1>4. GenesisPolicy \in Policies
  BY <1>3, DescriptorsAssumption DEF GenesisPolicy, Policies, Ids
<1>5. /\ GenesisPolicy.principals = {Genesis} /\ GenesisPolicy.known = {Genesis}
      /\ GenesisPolicy.items = Nothing /\ GenesisPolicy.tombstones = Nothing
      /\ GenesisPolicy.used = {} /\ GenesisPolicy.owners = {Genesis.id}
  BY DEF GenesisPolicy
<1>6. Sound(GenesisPolicy) /\ SlotsCurrent(GenesisPolicy)
  BY <1>3, <1>5 DEF Sound, SlotsCurrent, Live
<1>9. Unique(GenesisPolicy) BY <1>5 DEF Unique
<1>10. Whole(GenesisPolicy)
  BY <1>3, <1>5 DEF Whole, Active, CompleteOwnerSlots, Live
<1>7. Evolves(GenesisPolicy, GenesisPolicy) BY <1>6 DEF Evolves, Sound
<1>8. SealedConfined BY <1>1 DEF SealedConfined
<1> QED BY <1>1, <1>3, <1>4, <1>6, <1>7, <1>8, <1>9, <1>10 DEF ReplayInv, Typed

\* A step that changes nothing keeps the invariant.
LEMMA StutterInv ==
  ASSUME ReplayInv, UNCHANGED vars
  PROVE  ReplayInv'
<1>1. Typed' BY DEF ReplayInv, Typed, vars
<1>2. SealedConfined' BY DEF ReplayInv, SealedConfined, vars
<1> QED BY <1>1, <1>2 DEF ReplayInv, vars

\* The inductive invariant holds throughout.
LEMMA InvAlways == Spec => []ReplayInv
<1>1. ReplayInv /\ [Next]_vars => ReplayInv' BY NextKeeps, StutterInv
<1> QED BY <1>1, InitInv, PTL DEF Spec

-----------------------------------------------------------------------------
(***************************************************************************)
(* Only an accepted revision changes the policy.                           *)
(***************************************************************************)
LEMMA PolicySteps ==
  ASSUME ReplayInv, [Next]_vars
  PROVE  \/ UNCHANGED policy
         \/ \E t \in Nat : /\ RotationsComplete /\ CompleteState(Result(t))
                           /\ policy' = Result(t)
         \/ \E t \in Times : policy' = [policy EXCEPT !.sequence = 1, !.time = t]
<1>1. ASSUME NEW p \in Ids, NEW t \in Times, Accept(p, t)
      PROVE  \E n \in Nat : /\ RotationsComplete /\ CompleteState(Result(n))
                            /\ policy' = Result(n)
  BY <1>1, PolicyBoundsAssumption DEF Accept, Adopt
<1>2. ASSUME NEW p \in Ids, NEW t \in Times, AcceptEmpty(p, t)
      PROVE  \E n \in Times : policy' = [policy EXCEPT !.sequence = 1, !.time = n]
  BY <1>2, Zenon DEF AcceptEmpty, Adopt
<1>3. \/ UNCHANGED policy
      \/ \E p \in Ids, t \in Times : Accept(p, t) \/ AcceptEmpty(p, t)
  BY Zenon DEF Next, vars, Operation, PrincipalAdd, PrincipalLabelChange, PrincipalRemove,
     OwnerGrant, OwnerRevoke, PrincipalReplace, ItemCreate, ItemSlotsReplace, ItemRename,
     ItemDelete, ItemReaderSetChange, ItemRoleChange, Refuse
<1> QED BY <1>1, <1>2, <1>3, Zenon

(***************************************************************************)
(* Whoever was removed or replaced is never active again, the vault never  *)
(* forgets a principal, and a deletion stands, for every set of            *)
(* descriptors and items (add_principal, replace_principal, create_item,   *)
(* delete_item).                                                           *)
(***************************************************************************)
THEOREM DepartedNeverReturn == Spec => DepartedStayAway
<1> DEFINE Away(s, n) ==
      /\ (s.known \ s.principals) \cap n.principals = {}
      /\ s.known \subseteq n.known
      /\ \A i \in DOMAIN s.tombstones : /\ i \in DOMAIN n.tombstones
                                        /\ n.tombstones[i] = s.tombstones[i]
<1>1. ASSUME ReplayInv, [Next]_vars PROVE Away(policy, policy')
  <2>1. CASE UNCHANGED policy BY <2>1
  <2>2. ASSUME NEW t \in Nat, RotationsComplete, policy' = Result(t)
        PROVE  Away(policy, policy')
    <3>1. PICK s : s = Result(t) OBVIOUS
    <3>2. /\ s.known = next.known /\ s.principals = next.principals
          /\ s.tombstones = next.tombstones
      BY <1>1, <2>2, <3>1, ResultIs
    <3> QED BY <1>1, <2>2, <3>1, <3>2 DEF ReplayInv, Evolves
  <2>3. ASSUME NEW t \in Times, policy' = [policy EXCEPT !.sequence = 1, !.time = t]
        PROVE  Away(policy, policy')
    <3>1. PICK s : s = [policy EXCEPT !.sequence = 1, !.time = t] OBVIOUS
    <3>2. /\ s.known = policy.known /\ s.principals = policy.principals
          /\ s.tombstones = policy.tombstones
      BY <1>1, <3>1, AcceptEmptyIs, Zenon
    <3> QED BY <2>3, <3>1, <3>2
  <2> QED BY <1>1, <2>1, <2>2, <2>3, PolicySteps, Zenon
<1>2. ReplayInv /\ [Next]_vars => [Away(policy, policy')]_vars BY <1>1
<1> QED BY <1>2, InvAlways, PTL DEF Spec, DepartedStayAway

(***************************************************************************)
(* In a complete policy only readers hold the key of an item.              *)
(***************************************************************************)
LEMMA HoldersRead ==
  ASSUME NEW s \in Policies, SlotsCurrent(s), NEW i \in Live(s)
  PROVE  Recipients(s.items[i]) \subseteq EffectiveReaders(s, i)
<1>1. s.items[i] \in ItemRecords BY PartialApplied DEF Policies, Live
<1>2. s.items[i].access.to \in SlotSets BY <1>1 DEF ItemRecords, Access
<1> SUFFICES ASSUME NEW d \in DOMAIN s.items[i].access.to
             PROVE  d.id \in EffectiveReaders(s, i)
  BY DEF Recipients
<1>3. SlotCurrent(s, i, d) BY DEF SlotsCurrent
<1>4. s.items[i].access.to[d] \in Roles BY ZenonT(60), <1>2, SlotSetsAssumption
<1>5. EffectiveRole(s, i, d.id) # "none" BY <1>3, <1>4 DEF SlotCurrent, Roles
<1> QED BY <1>5 DEF EffectiveRole, EffectiveReaders

\* In the invariant, what is sealed at the present epoch is one of its slots,
\* and those are current.
LEMMA ConfinedNow ==
  ASSUME ReplayInv
  PROVE  KeyEpochConfined
<1> SUFFICES ASSUME NEW i \in Live(policy), NEW d \in Descriptors,
                    <<i, policy.items[i].epoch, d>> \in sealed
             PROVE  /\ d.id \in EffectiveReaders(policy, i)
                    /\ \E e \in policy.principals : e.id = d.id /\ e.rkey = d.rkey
  BY DEF KeyEpochConfined
<1>1. i \in Items /\ policy.items[i] \in ItemRecords
  BY PartialApplied DEF ReplayInv, Typed, Policies, Live
<1>2. policy.items[i].epoch \in Nat /\ policy.items[i].access.to \in SlotSets
  BY <1>1 DEF ItemRecords, Access
<1>3. d \in DOMAIN policy.items[i].access.to
  BY <1>1, <1>2 DEF ReplayInv, SealedConfined, Confined
<1>4. SlotCurrent(policy, i, d) BY ZenonT(60), <1>3 DEF ReplayInv, SlotsCurrent
<1>5. d.id \in EffectiveReaders(policy, i)
  BY <1>3, HoldersRead DEF ReplayInv, Typed, Recipients
<1> QED BY <1>4, <1>5 DEF SlotCurrent

(***************************************************************************)
(* Whatever was ever sealed at an item's present epoch is addressed to the *)
(* present key of one of its present readers (apply_rotations and          *)
(* validate_complete_state).                                               *)
(***************************************************************************)
THEOREM EpochsConfined == Spec => []KeyEpochConfined
<1>1. ReplayInv => KeyEpochConfined BY ConfinedNow
<1> QED BY <1>1, InvAlways, PTL

\* The types the runs check are those of the invariant.
LEMMA PolicyIsTyped ==
  ASSUME NEW s \in Policies
  PROVE  PolicyTyped(s)
<1>1. /\ s.sequence \in Nat /\ s.time \in Nat
      /\ s.principals \subseteq Descriptors /\ s.known \subseteq Descriptors
      /\ s.owners \subseteq Ids /\ s.used \subseteq Items
      /\ s.items \in Partials(Items, ItemRecords) /\ s.tombstones \in Partials(Items, Nat)
  BY DEF Policies
<1>2. Partial(s.items, Items) /\ Partial(s.tombstones, Items)
  BY <1>1, PartialIs
<1>3. ASSUME NEW i \in DOMAIN s.items PROVE ItemTyped(s.items[i])
  <2>1. s.items[i] \in ItemRecords BY <1>1, PartialApplied
  <2>2. PICK r \in ItemRecords : r = s.items[i] BY <2>1
  <2>3. /\ r.epoch \in Nat \ {0} /\ r.described \in Nat \ {0} /\ r.sealed \in Nat \ {0}
        /\ r.access \in Access /\ r.grants \in Partials(Ids, {"reader", "writer"})
    BY DEF ItemRecords
  <2>4. Partial(r.grants, Ids) /\ \A p \in DOMAIN r.grants : r.grants[p] \in {"reader", "writer"}
    BY <2>3, PartialIs, PartialApplied
  <2> QED BY <2>2, <2>3, <2>4 DEF ItemTyped
<1>4. \A i \in DOMAIN s.tombstones : s.tombstones[i] \in Nat BY <1>1, PartialApplied
<1> QED BY <1>1, <1>2, <1>3, <1>4 DEF PolicyTyped

\* An owner of a whole policy is allowed everything, and has the current key
\* of every item that is opened directly.
LEMMA OwnersHold ==
  ASSUME NEW s \in Policies, SlotsCurrent(s), Whole(s), NEW i \in Live(s), NEW p \in s.owners
  PROVE  /\ Allowed(s, i, p, "administer")
         /\ \/ WitnessedOnly(s.items[i])
            \/ \E d \in DOMAIN s.items[i].access.to :
                 /\ d.id = p /\ s.items[i].access.to[d] = "owner"
                 /\ \E e \in s.principals : e.id = p /\ e.rkey = d.rkey
<1>1. EffectiveRole(s, i, p) = "owner" BY DEF EffectiveRole
<1>2. Active(s, p) /\ (DOMAIN s.items[i].access.to # {} \/ s.items[i].access.witnessed # {})
  BY DEF Whole
<1>3. WitnessedOnly(s.items[i]) \/ p \in Recipients(s.items[i])
  BY DEF Whole, CompleteOwnerSlots
<1>4. Allowed(s, i, p, "administer")
  BY ZenonT(60), <1>1, <1>2, <1>3 DEF Allowed, Permits, WitnessedOnly
<1>5. ASSUME p \in Recipients(s.items[i])
      PROVE  \E d \in DOMAIN s.items[i].access.to :
               /\ d.id = p /\ s.items[i].access.to[d] = "owner"
               /\ \E e \in s.principals : e.id = p /\ e.rkey = d.rkey
  <2>1. PICK d \in DOMAIN s.items[i].access.to : d.id = p BY <1>5 DEF Recipients
  <2>2. SlotCurrent(s, i, d) BY DEF SlotsCurrent
  <2>3. s.items[i].access.to[d] = "owner" BY <1>1, <2>1, <2>2 DEF SlotCurrent
  <2> QED BY <2>1, <2>2, <2>3 DEF SlotCurrent
<1> QED BY <1>3, <1>4, <1>5

\* A whole policy has the quorum of every witness policy its items name.
LEMMA QuorumThere ==
  ASSUME NEW s \in Policies, Whole(s), NEW i \in Live(s)
  PROVE  Reachable(s, i)
<1> SUFFICES ASSUME NEW w \in s.items[i].access.witnessed
             PROVE  Cardinality({m \in w.members : HasKind(s, m.id, {"witness"})}) >= w.threshold
  BY DEF Reachable
<1>1. s.items[i] \in ItemRecords BY PartialApplied DEF Policies, Live
<1>2. w \in Catalog BY <1>1 DEF ItemRecords, Access
<1>3. {m \in w.members : HasKind(s, m.id, {"witness"})} = w.members BY DEF Whole
<1>4. IsFiniteSet(w.members) /\ w.threshold \in 2 .. Cardinality(w.members)
  BY <1>2, CatalogAssumption DEF ValidWitnessPolicy
<1>5. Cardinality(w.members) \in Nat BY <1>4, FS_CardinalityType
<1>6. Cardinality(w.members) >= w.threshold BY <1>4, <1>5
<1> QED BY <1>3, <1>6, Zenon

(***************************************************************************)
(* Whatever revisions are signed, the policy replay accepts is well formed *)
(* and works: present keys are confined to present readers, no owner is    *)
(* locked out, every witness policy in use keeps its quorum, and no two    *)
(* principals of the history share an identifier or a key, for every set   *)
(* of descriptors, slots and witness policies (replay_policy_with_catalog, *)
(* validate_complete_state, validate_complete_owner_slots).                *)
(***************************************************************************)
THEOREM AcceptedPoliciesSound == Spec => []AcceptedPolicySound
<1>1. ASSUME ReplayInv PROVE AcceptedPolicySound
  <2>1. policy \in Policies /\ next \in Policies BY <1>1 DEF ReplayInv, Typed
  <2>2. TypeOK
    <3>1. /\ rotated \subseteq Items /\ sealed \subseteq Items \X Nat \X Descriptors
          /\ replaced \in Partials(Items, Access)
      BY <1>1 DEF ReplayInv, Typed
    <3>2. Partial(replaced, Items) /\ \A i \in DOMAIN replaced : replaced[i] \in Access
      BY ZenonT(60), <3>1, PartialIs, PartialApplied
    <3> QED BY <2>1, <3>1, <3>2, PolicyIsTyped DEF TypeOK
  <2>3. OwnersHoldKeys
    BY <1>1, <2>1, OwnersHold DEF ReplayInv, OwnersHoldKeys
  <2>4. QuorumReachable BY ZenonT(60), <1>1, <2>1, QuorumThere DEF ReplayInv, QuorumReachable
  <2>5. IdentitiesUnique BY ZenonT(60), <1>1 DEF ReplayInv, Unique, Sound, IdentitiesUnique
  <2> QED BY <1>1, <2>2, <2>3, <2>4, <2>5, ConfinedNow DEF AcceptedPolicySound
<1> QED BY <1>1, InvAlways, PTL

-----------------------------------------------------------------------------
(***************************************************************************)
(* The refinement: the key the mapping gives an item in a policy.          *)
(***************************************************************************)
KeyOf(s, i) ==
  CASE i \in Live(s) -> [status |-> "live", epoch |-> s.items[i].epoch,
                         readers |-> EffectiveReaders(s, i),
                         holders |-> Recipients(s.items[i])]
    [] i \in DOMAIN s.tombstones ->
         [status |-> "retired", epoch |-> 0, readers |-> {}, holders |-> {}]
    [] OTHER -> [status |-> "unborn", epoch |-> 0, readers |-> {}, holders |-> {}]

(***************************************************************************)
(* The three kinds of key.                                                 *)
(***************************************************************************)
LEMMA KeyKinds ==
  ASSUME NEW s, NEW i, Live(s) \cap DOMAIN s.tombstones = {}
  PROVE  /\ i \in Live(s) => KeyOf(s, i) =
              [status |-> "live", epoch |-> s.items[i].epoch,
               readers |-> EffectiveReaders(s, i), holders |-> Recipients(s.items[i])]
         /\ i \in DOMAIN s.tombstones => KeyOf(s, i) = Epochs!Retired
         /\ i \notin Live(s) \cup DOMAIN s.tombstones => KeyOf(s, i) = Epochs!Unborn
<1>1. CASE i \in Live(s) BY <1>1 DEF KeyOf
<1>2. CASE i \in DOMAIN s.tombstones BY <1>2 DEF KeyOf, Epochs!Retired
<1>3. CASE i \notin Live(s) \cup DOMAIN s.tombstones BY <1>3 DEF KeyOf, Epochs!Unborn
<1> QED BY <1>1, <1>2, <1>3

\* The fields of the key of a live item, and the two keys of the others.
LEMMA LiveKey ==
  ASSUME NEW s, NEW i \in Live(s), Live(s) \cap DOMAIN s.tombstones = {}
  PROVE  /\ KeyOf(s, i).status = "live" /\ KeyOf(s, i).epoch = s.items[i].epoch
         /\ KeyOf(s, i).readers = EffectiveReaders(s, i)
         /\ KeyOf(s, i).holders = Recipients(s.items[i])
<1>1. KeyOf(s, i) = [status |-> "live", epoch |-> s.items[i].epoch,
                     readers |-> EffectiveReaders(s, i), holders |-> Recipients(s.items[i])]
  BY Zenon, KeyKinds
<1> QED BY <1>1

LEMMA OtherKeys ==
  Epochs!Unborn \in Epochs!Key /\ Epochs!Retired \in Epochs!Key
BY DEF Epochs!Key, Epochs!Status, Epochs!Unborn, Epochs!Retired

\* The mapping gives every item a key of KeyEpochs.
LEMMA KeyTyped ==
  ASSUME NEW s \in Policies, Live(s) \cap DOMAIN s.tombstones = {}, NEW i \in Items
  PROVE  KeyOf(s, i) \in Epochs!Key
<1>1. CASE i \in Live(s)
  <2>1. s.items[i] \in ItemRecords BY <1>1, PartialApplied DEF Policies, Live
  <2>2. s.items[i].epoch \in Nat /\ s.items[i].access.to \in SlotSets
        /\ s.items[i].grants \in Partials(Ids, {"reader", "writer"})
    BY <2>1 DEF ItemRecords, Access
  <2>3. Recipients(s.items[i]) \in SUBSET Ids
    BY <2>2, SlotSetsAssumption DEF Recipients, Ids
  <2>4. EffectiveReaders(s, i) \in SUBSET Ids
    BY <1>1, <2>2, PartialApplied DEF EffectiveReaders, Policies
  <2> QED BY <1>1, <2>2, <2>3, <2>4, KeyKinds DEF Epochs!Key, Epochs!Status
<1>2. CASE i \in DOMAIN s.tombstones
  BY ZenonT(60), <1>2, KeyKinds, OtherKeys
<1>3. CASE i \notin Live(s) \cup DOMAIN s.tombstones
  BY ZenonT(60), <1>3, KeyKinds, OtherKeys
<1> QED BY <1>1, <1>2, <1>3

(***************************************************************************)
(* From one accepted policy to the next, the key of an item stays, is      *)
(* created, is rotated or is retired.                                      *)
(***************************************************************************)
KeyMove(k, l) ==
  \/ l = k
  \/ /\ k = Epochs!Unborn
     /\ l.status = "live" /\ l.epoch = 1 /\ l.holders \subseteq l.readers
  \/ /\ k.status = "live"
     /\ l.status = "live" /\ l.epoch = k.epoch + 1 /\ l.holders \subseteq l.readers
  \/ k # Epochs!Retired /\ l = Epochs!Retired

LEMMA KeyMoves ==
  ASSUME NEW s \in Policies, NEW n \in Policies, Sound(s), Sound(n), SlotsCurrent(n),
         s.used \subseteq n.used,
         DOMAIN s.tombstones \subseteq DOMAIN n.tombstones,
         \A j \in Live(n) \cap Live(s) :
              \/ n.items[j].epoch = s.items[j].epoch + 1
              \/ /\ n.items[j].epoch = s.items[j].epoch
                 /\ n.items[j].access = s.items[j].access
                 /\ EffectiveReaders(n, j) = EffectiveReaders(s, j),
         \A j \in Live(n) \ Live(s) : j \notin s.used /\ n.items[j].epoch = 1,
         NEW i \in Items, NEW k, k = KeyOf(s, i), NEW l, l = KeyOf(n, i)
  PROVE  KeyMove(k, l)
<1>0. /\ Live(s) \cap DOMAIN s.tombstones = {} /\ Live(n) \cap DOMAIN n.tombstones = {}
      /\ s.used = Live(s) \cup DOMAIN s.tombstones
      /\ n.used = Live(n) \cup DOMAIN n.tombstones
  BY ZenonT(60) DEF Sound
<1>1. CASE i \in Live(n)
  <2>1. l = [status |-> "live", epoch |-> n.items[i].epoch,
             readers |-> EffectiveReaders(n, i), holders |-> Recipients(n.items[i])]
    BY ZenonT(60), <1>0, <1>1, KeyKinds
  <2>2. l.status = "live" /\ l.epoch = n.items[i].epoch /\ l.holders \subseteq l.readers
    <3>1. Recipients(n.items[i]) \subseteq EffectiveReaders(n, i)
      BY ZenonT(60), <1>1, HoldersRead
    <3>2. Live(n) \cap DOMAIN n.tombstones = {} BY Zenon, <1>0
    <3>3. /\ l.status = "live" /\ l.epoch = n.items[i].epoch
          /\ l.readers = EffectiveReaders(n, i) /\ l.holders = Recipients(n.items[i])
      BY ZenonT(60), <1>1, <3>2, LiveKey
    <3> QED BY ZenonT(60), <3>1, <3>3
  <2>3. CASE i \in Live(s)
    <3>1. k = [status |-> "live", epoch |-> s.items[i].epoch,
               readers |-> EffectiveReaders(s, i), holders |-> Recipients(s.items[i])]
      BY ZenonT(60), <1>0, <2>3, KeyKinds
    <3>2. CASE n.items[i].epoch = s.items[i].epoch + 1
      <4>1. Live(s) \cap DOMAIN s.tombstones = {} BY Zenon, <1>0
      <4>2. k.status = "live" /\ k.epoch = s.items[i].epoch
        BY ZenonT(60), <2>3, <4>1, LiveKey
      <4> QED BY ZenonT(60), <2>2, <3>2, <4>2 DEF KeyMove
    <3>3. CASE /\ n.items[i].epoch = s.items[i].epoch
               /\ n.items[i].access = s.items[i].access
               /\ EffectiveReaders(n, i) = EffectiveReaders(s, i)
      <4>1. Recipients(n.items[i]) = Recipients(s.items[i]) BY ZenonT(60), <3>3 DEF Recipients
      <4> QED BY ZenonT(60), <2>1, <3>1, <3>3, <4>1 DEF KeyMove
    <3> QED BY ZenonT(60), <1>1, <2>3, <3>2, <3>3
  <2>4. CASE i \notin Live(s)
    <3>1. k = Epochs!Unborn BY ZenonT(60), <1>0, <1>1, <2>4, KeyKinds
    <3> QED BY ZenonT(60), <1>1, <2>2, <2>4, <3>1 DEF KeyMove
  <2> QED BY ZenonT(60), <2>3, <2>4
<1>2. CASE i \in DOMAIN n.tombstones
  BY ZenonT(60), <1>0, <1>2, KeyKinds DEF KeyMove
<1>3. CASE i \notin Live(n) \cup DOMAIN n.tombstones
  BY ZenonT(60), <1>0, <1>3, KeyKinds DEF KeyMove
<1> QED BY ZenonT(60), <1>1, <1>2, <1>3

(***************************************************************************)
(* Replay implements KeyEpochs: an accepted revision keeps, creates,       *)
(* rotates or retires the key of every item, seals it to its readers only, *)
(* and never changes the readers of an epoch (replay_policy_with_catalog). *)
(***************************************************************************)
THEOREM ReplayKeepsEpochs == Spec => ImplementsKeyEpochs
<1>1. Init => Epochs!Init
  <2> SUFFICES ASSUME Init PROVE Epochs!Init OBVIOUS
  <2>1. Live(policy) = {} /\ DOMAIN policy.tombstones = {}
    BY DEF Init, GenesisPolicy, Live, Nothing
  <2>2. \A i \in Items : ItemKeys[i] = Epochs!Unborn
    BY <2>1 DEF ItemKeys, Epochs!Unborn
  <2> QED BY <2>2 DEF ItemKeys, Epochs!Init
<1>2. ASSUME ReplayInv, ReplayInv', [Next]_vars PROVE [Epochs!Next]_ItemKeys
  <2>1. CASE UNCHANGED policy
    BY <2>1 DEF ItemKeys, Live, EffectiveReaders
  <2>2. ASSUME NEW t \in Times, policy' = [policy EXCEPT !.sequence = 1, !.time = t]
        PROVE  UNCHANGED ItemKeys
    <3>1. PICK s : s = [policy EXCEPT !.sequence = 1, !.time = t] OBVIOUS
    <3>2. /\ s.tombstones = policy.tombstones
          /\ s.items = policy.items /\ s.owners = policy.owners
      BY <1>2, <3>1, AcceptEmptyIs, Zenon
    <3>3. policy' = s BY <2>2, <3>1
    <3> QED BY <3>2, <3>3 DEF ItemKeys, Live, EffectiveReaders
  <2>3. ASSUME NEW t \in Nat, RotationsComplete, policy' = Result(t)
        PROVE  Epochs!Next
    <3>1. PICK s, n : s = policy /\ n = policy' OBVIOUS
    <3>2. /\ s \in Policies /\ n \in Policies /\ Sound(s) /\ Sound(n) /\ SlotsCurrent(n)
      BY ZenonT(60), <1>2, <3>1 DEF ReplayInv, Typed
    <3>3. /\ s.used \subseteq n.used /\ DOMAIN s.tombstones \subseteq DOMAIN n.tombstones
          /\ \A j \in Live(n) \cap Live(s) :
               \/ n.items[j].epoch = s.items[j].epoch + 1
               \/ /\ n.items[j].epoch = s.items[j].epoch
                  /\ n.items[j].access = s.items[j].access
                  /\ EffectiveReaders(n, j) = EffectiveReaders(s, j)
          /\ \A j \in Live(n) \ Live(s) : j \notin s.used /\ n.items[j].epoch = 1
      <4>1. n = Result(t) BY ZenonT(60), <2>3, <3>1
      <4>2. n.used = next.used /\ n.tombstones = next.tombstones
        BY ZenonT(60), <1>2, <2>3, <4>1, ResultIs
      <4>3. policy.used \subseteq next.used
            /\ DOMAIN policy.tombstones \subseteq DOMAIN next.tombstones
        BY <1>2 DEF ReplayInv, Evolves
      <4> QED BY <1>2, <2>3, <3>1, <4>1, <4>2, <4>3, ResultIs
    <3>4. /\ ItemKeys = [i \in Items |-> KeyOf(s, i)]
          /\ ItemKeys' = [i \in Items |-> KeyOf(n, i)]
      BY <3>1 DEF ItemKeys, KeyOf
    <3>5. ItemKeys' \in [Items -> Epochs!Key]
      BY <3>2, <3>4, KeyTyped DEF Sound
    <3>6. ASSUME NEW i \in Items
          PROVE  Epochs!Keep(i) \/ Epochs!Create(i) \/ Epochs!Rotate(i) \/ Epochs!Retire(i)
      <4>1. PICK k, l : k = KeyOf(s, i) /\ l = KeyOf(n, i) OBVIOUS
      <4>2. ItemKeys[i] = k /\ ItemKeys'[i] = l BY ZenonT(60), <3>4, <4>1
      <4>3. KeyMove(k, l)
        BY ZenonT(60), <3>2, <3>3, <4>1, KeyMoves
      <4> QED BY <4>2, <4>3 DEF KeyMove, Epochs!Keep, Epochs!Create, Epochs!Rotate, Epochs!Retire,
                                Epochs!SealedAt
    <3> QED BY <3>5, <3>6 DEF Epochs!Next
  <2> QED BY <1>2, <2>1, <2>2, <2>3, PolicySteps, Zenon
<1> QED BY <1>1, <1>2, InvAlways, PTL DEF Spec, ImplementsKeyEpochs, Epochs!Spec

-----------------------------------------------------------------------------
(* The rollover's bootstrap: numbers *)

\* A set of numbers has a least one.
LEMMA LeastNumber ==
    ASSUME NEW N \in SUBSET Nat, N # {}
    PROVE  \E m \in N : \A n \in N : m =< n
<1> DEFINE R == OpToRel(<, Nat)
<1>1. \A x, y \in Nat : x < y => <<x, y>> \in R
  BY DEF OpToRel
<1>2. IsWellFoundedOn(R, Nat)
  BY Zenon, NatLessThanWellFounded
<1> HIDE DEF R
<1>3. PICK m \in N : \A n \in N : <<n, m>> \notin R
  BY Zenon, <1>2, WFMin
<1>4. \A n \in N : ~(n < m)
  BY Zenon, <1>1, <1>3
<1>5. \A n \in N : m =< n
  BY <1>4
<1> QED BY <1>5

\* Max and Min of sets that have them.
LEMMA GreatestOfTwo ==
    ASSUME NEW a \in Int, NEW b \in Int
    PROVE  Max({a, b}) = IF a >= b THEN a ELSE b
<1> DEFINE most == IF a >= b THEN a ELSE b
<1>1. most \in {a, b} /\ \A y \in {a, b} : most >= y
  OBVIOUS
<1>2. \A x \in {a, b} : (\A y \in {a, b} : x >= y) => x = most
  OBVIOUS
<1> HIDE DEF most
<1>3. (CHOOSE x \in {a, b} : \A y \in {a, b} : x >= y) = most
  BY <1>1, <1>2
<1> QED BY <1>3 DEF Max, most

LEMMA MinIsLeast ==
    ASSUME NEW N \in SUBSET Nat, N # {}
    PROVE  Min(N) \in N /\ \A n \in N : Min(N) =< n
<1>1. \E m \in N : \A n \in N : m =< n
  BY ZenonT(60), LeastNumber
<1> QED BY Zenon, <1>1 DEF Min

-----------------------------------------------------------------------------
(* Waiting for registration proofs *)

\* RetryAt, of any directory.
ValidFrom(directory, p) == Max({draft.challenges[p].issued, directory[p].created})
FutureIn(directory, now) ==
    {p \in DOMAIN directory : /\ directory[p].kind = "proof"
                              /\ ValidFrom(directory, p) > now
                              /\ ValidFrom(directory, p) <= draft.challenges[p].expires}
RetryIn(directory, now) ==
    IF FutureIn(directory, now) = {} THEN Nobody
    ELSE Min({ValidFrom(directory, p) : p \in FutureIn(directory, now)})

Directory(fs) ==
    DOMAIN fs = Serving(vault) /\ \A p \in DOMAIN fs : fs[p].kind = "proof" => fs[p].created \in Int

\* The directory that was read last had a proof that was not valid at the
\* time, and the time to try it again was taken of that directory.
ReadBefore ==
    \E fs, t : /\ poll.previous = {fs} /\ t \in Nat /\ t <= clock
               /\ poll.retry = RetryIn(fs, t)
               /\ \E p \in DOMAIN fs : ~AnswersChallenge(p, fs[p], t)

PollInv ==
    /\ clock \in Nat
    /\ Directory(files)
    /\ draft.state \in {"none", "drafted"} => poll.previous = {}
    /\ draft.state = "drafted" => draft.created \in Nat /\ DOMAIN draft.challenges = Serving(vault)
    /\ draft.state = "waiting" =>
         /\ draft.created \in Nat
         /\ \A p \in Serving(vault) : draft.challenges[p].issued \in Nat
                                        /\ draft.challenges[p].expires \in Nat
         /\ poll.previous # {} => ReadBefore

LEMMA RetryIs ==
    ASSUME NEW now
    PROVE  RetryAt(now) = RetryIn(files, now)
BY DEF RetryAt, RetryIn, FutureIn, ValidFrom

LEMMA LaterOfTwo ==
    ASSUME NEW a \in Nat, NEW b \in Int, a <= b
    PROVE  Max({a, b}) = b /\ b \in Nat
BY GreatestOfTwo

LEMMA LeqClimbs ==
    ASSUME NEW a \in Nat, NEW b \in Nat, NEW c \in Nat, a <= b, b <= c
    PROVE  a <= c
OBVIOUS

LEMMA NotLeq ==
    ASSUME NEW a \in Nat, NEW b \in Nat, ~(a <= b)
    PROVE  a > b
OBVIOUS

\* What is valid now and was not at an earlier time is due.
LEMMA PollWakes ==
    ASSUME PollInv
    PROVE  PollNotices
<1> SUFFICES ASSUME draft.state = "waiting", poll.previous = {files},
                    \A p \in DOMAIN files : AnswersChallenge(p, files[p], clock)
             PROVE  poll.retry # Nobody /\ clock >= poll.retry
  BY Zenon DEF PollNotices, Due
<1>1. ReadBefore
  BY DEF PollInv
<1>2. PICK t \in Nat : /\ t <= clock /\ poll.retry = RetryIn(files, t)
                       /\ \E p \in DOMAIN files : ~AnswersChallenge(p, files[p], t)
  BY Zenon, <1>1 DEF ReadBefore
<1>3. PICK p \in DOMAIN files : ~AnswersChallenge(p, files[p], t)
  BY <1>2
<1>4. PICK c, f : c = draft.challenges[p] /\ f = files[p]
  OBVIOUS
<1>5. /\ f.kind = "proof" /\ f.challenge = c /\ f.challenge.issued <= clock /\ clock <= f.challenge.expires
      /\ f.challenge.issued <= f.created /\ f.created <= clock /\ RoleFits(vault, p, f.role)
      /\ SameFreshRole(vault, p, f.role, f.challenge.issued)
  BY Zenon, <1>4 DEF AnswersChallenge, VerifyProof, ProofCurrent
<1>6. ~(f.challenge.issued <= t /\ t <= f.challenge.expires /\ f.created <= t)
  BY Zenon, <1>3, <1>4, <1>5 DEF AnswersChallenge, VerifyProof, ProofCurrent
<1>7. clock \in Nat /\ c.issued \in Nat /\ c.expires \in Nat /\ f.created \in Int
  BY Zenon, <1>4, <1>5 DEF PollInv, Directory
<1>8. PICK v : v = ValidFrom(files, p)
  OBVIOUS
<1>9. v = f.created /\ v \in Nat
  <2>1. v = Max({c.issued, f.created})
    BY Zenon, <1>4, <1>8 DEF ValidFrom
  <2> QED BY ZenonT(60), <1>5, <1>7, <2>1, LaterOfTwo
<1>10. v > t /\ v <= clock /\ v <= c.expires /\ v \in Nat
  <2>1. c.issued <= v /\ v <= clock /\ clock <= c.expires
    BY Zenon, <1>5, <1>9
  <2>2. v <= c.expires /\ t <= c.expires
    BY ZenonT(60), <1>2, <1>7, <1>9, <2>1, LeqClimbs
  <2>3. ~(v <= t)
    <3> SUFFICES ASSUME v <= t PROVE FALSE
      OBVIOUS
    <3>1. c.issued <= t
      BY ZenonT(60), <1>7, <1>9, <2>1, LeqClimbs
    <3> QED BY Zenon, <1>5, <1>6, <1>9, <2>2, <3>1
  <2> QED BY ZenonT(60), <1>9, <2>1, <2>2, <2>3, NotLeq
<1>11. p \in FutureIn(files, t)
  BY Zenon, <1>4, <1>5, <1>8, <1>10 DEF FutureIn
<1> DEFINE times == {ValidFrom(files, q) : q \in FutureIn(files, t)}
<1>12. times \in SUBSET Nat /\ v \in times /\ \A n \in times : n > t
  <2>1. ASSUME NEW q \in FutureIn(files, t) PROVE ValidFrom(files, q) \in Nat /\ ValidFrom(files, q) > t
    <3>1. q \in DOMAIN files /\ files[q].kind = "proof" /\ ValidFrom(files, q) > t
      BY Zenon DEF FutureIn
    <3>2. files[q].created \in Int /\ draft.challenges[q].issued \in Nat
      BY Zenon, <3>1 DEF PollInv, Directory
    <3>3. ValidFrom(files, q) \in Int
      BY <3>2, GreatestOfTwo DEF ValidFrom
    <3> QED BY <1>2, <3>1, <3>3
  <2> QED BY Zenon, <1>8, <1>11, <2>1
<1>13. poll.retry = Min(times)
  BY Zenon, <1>2, <1>11 DEF RetryIn
<1> HIDE DEF times
<1>14. Min(times) \in times /\ Min(times) <= v
  BY Zenon, <1>12, MinIsLeast
<1>15. Min(times) \in Nat /\ Min(times) > t
  BY Zenon, <1>12, <1>14
<1> QED BY <1>2, <1>7, <1>10, <1>13, <1>14, <1>15 DEF Nobody

LEMMA SameRetry ==
    ASSUME UNCHANGED draft
    PROVE  \A fs, t : RetryIn(fs, t)' = RetryIn(fs, t)
BY DEF RetryIn, FutureIn, ValidFrom

LEMMA SameAnswers ==
    ASSUME UNCHANGED <<draft, vault>>
    PROVE  \A p, f, t : AnswersChallenge(p, f, t)' <=> AnswersChallenge(p, f, t)
BY Zenon DEF AnswersChallenge

\* What was read stays read while time passes.
LEMMA ReadStays ==
    ASSUME PollInv, UNCHANGED <<vault, draft, poll>>, clock' \in Nat, clock' >= clock,
           Directory(files)'
    PROVE  PollInv'
<1>1. ReadBefore => ReadBefore'
  <2> SUFFICES ASSUME ReadBefore PROVE ReadBefore'
    OBVIOUS
  <2>1. PICK fs, t : /\ poll.previous = {fs} /\ t \in Nat /\ t <= clock
                     /\ poll.retry = RetryIn(fs, t)
                     /\ \E p \in DOMAIN fs : ~AnswersChallenge(p, fs[p], t)
    BY Zenon DEF ReadBefore
  <2>2. t <= clock'
    <3>1. clock \in Nat BY Zenon DEF PollInv
    <3>2. clock <= clock' BY <3>1
    <3> QED BY ZenonT(60), <2>1, <3>1, <3>2, LeqClimbs
  <2> QED BY Zenon, <2>1, <2>2, SameRetry, SameAnswers DEF ReadBefore
<1> QED BY Zenon, <1>1 DEF PollInv

LEMMA PollSteps ==
    ASSUME PollInv, BootstrapNext
    PROVE  PollInv'
<1> USE BootstrapAssumption
<1>0. clock \in Nat /\ Directory(files)
  BY DEF PollInv
<1>1. CASE UNCHANGED <<vault, draft, poll, files>> /\ clock' \in Nat /\ clock' >= clock
  <2>1. Directory(files)'
    BY Zenon, <1>0, <1>1 DEF Directory, Serving
  <2> QED BY Zenon, <1>1, <2>1, ReadStays
<1>2. CASE TickClock
  BY <1>0, <1>1, <1>2 DEF TickClock
<1>3. CASE RegisterServing \/ (\E p \in Serving(vault) : RemoveServing(p))
           \/ (\E w \in {RenamedPolicy(vault, v) : v \in Templates(vault)} : RevisePolicy(w))
  <2>1. UNCHANGED <<vault, draft, poll, files, clock>>
    BY Zenon, <1>3 DEF RegisterServing, RemoveServing, RevisePolicy
  <2>2. clock >= clock
    BY <1>0
  <2> QED BY Zenon, <1>0, <1>1, <2>1, <2>2
<1>4. CASE /\ UNCHANGED <<vault, clock, files>> /\ draft'.state \notin {"none", "drafted", "waiting"}
  <2>1. Directory(files)'
    BY Zenon, <1>0, <1>4 DEF Directory, Serving
  <2> QED BY Zenon, <1>0, <1>4, <2>1 DEF PollInv
<1>5. CASE PrepareDirect
  BY <1>4, <1>5 DEF PrepareDirect
<1>6. CASE StopWaiting
  BY <1>4, <1>6 DEF StopWaiting
<1>7. CASE PrepareGoverned
  <2>1. UNCHANGED <<vault, clock, files, poll>> /\ draft = NoDraft
    BY Zenon, <1>7 DEF PrepareGoverned
  <2>2. PICK acting, suite :
          draft' = IF /\ LabelLifetime(Labels(vault), clock)
                      /\ \A p \in Serving(vault) : vault.principals[p].since <= clock
                   THEN [state |-> "drafted", acting |-> acting, suite |-> suite, created |-> clock,
                         challenges |-> FreshChallenges(vault, clock), left |-> SourceParts(vault, acting)]
                   ELSE [state |-> "refused"]
    BY Zenon, <1>7 DEF PrepareGoverned
  <2>3. CASE draft' = [state |-> "refused"]
    BY <1>4, <2>1, <2>3
  <2>4. CASE draft' = [state |-> "drafted", acting |-> acting, suite |-> suite, created |-> clock,
                       challenges |-> FreshChallenges(vault, clock), left |-> SourceParts(vault, acting)]
    <3>1. draft'.state = "drafted" /\ draft'.created = clock /\ draft'.challenges = FreshChallenges(vault, clock)
      BY Zenon, <2>4
    <3>2. DOMAIN FreshChallenges(vault, clock) = Serving(vault)
      BY Zenon DEF FreshChallenges
    <3>3. poll.previous = {}
      BY <2>1 DEF PollInv, NoDraft
    <3>4. Directory(files)'
      BY Zenon, <1>0, <2>1 DEF Directory, Serving
    <3>5. Serving(vault)' = Serving(vault)
      BY Zenon, <2>1 DEF Serving
    <3> QED BY Zenon, <1>0, <2>1, <3>1, <3>2, <3>3, <3>4, <3>5 DEF PollInv
  <2> QED BY Zenon, <2>2, <2>3, <2>4
<1>8. CASE AccessPart
  <2>1. UNCHANGED <<vault, clock, files, poll>> /\ draft.state = "drafted" /\ draft' \in OpenPart(draft)
    BY Zenon, <1>8 DEF AccessPart
  <2>2. CASE draft' = [state |-> "refused"]
    BY <1>4, <2>1, <2>2
  <2>3. CASE draft' = [draft EXCEPT !.left = Tail(@)]
    <3>1. draft'.state = draft.state /\ draft'.created = draft.created /\ draft'.challenges = draft.challenges
      BY <2>3
    <3>2. Directory(files)'
      BY Zenon, <1>0, <2>1 DEF Directory, Serving
    <3>3. Serving(vault)' = Serving(vault)
      BY Zenon, <2>1 DEF Serving
    <3> QED BY Zenon, <1>0, <2>1, <3>1, <3>2, <3>3 DEF PollInv
  <2> QED BY Zenon, <2>1, <2>2, <2>3 DEF OpenPart
<1>9. CASE RenewChallenges
  <2>1. UNCHANGED <<vault, clock, files, poll>> /\ draft.state = "drafted"
    BY Zenon, <1>9 DEF RenewChallenges
  <2>2. CASE draft' = [state |-> "refused"]
    BY <1>4, <2>1, <2>2
  <2>3. CASE draft' = [draft EXCEPT !.state = "waiting",
                                    !.challenges = [p \in DOMAIN @ |-> CreateChallenge(2, clock)]]
    <3>1. /\ draft'.state = "waiting" /\ draft'.created = draft.created
          /\ draft'.challenges = [p \in DOMAIN draft.challenges |-> CreateChallenge(2, clock)]
      BY <2>3
    <3>2. Directory(files)'
      BY Zenon, <1>0, <2>1 DEF Directory, Serving
    <3>3. Serving(vault)' = Serving(vault)
      BY Zenon, <2>1 DEF Serving
    <3>4. draft.created \in Nat /\ DOMAIN draft.challenges = Serving(vault) /\ poll.previous = {}
      BY <2>1 DEF PollInv
    <3>5. CreateChallenge(2, clock).issued \in Nat /\ CreateChallenge(2, clock).expires \in Nat
      BY <1>0 DEF CreateChallenge
    <3>6. \A p \in Serving(vault) : draft'.challenges[p].issued \in Nat /\ draft'.challenges[p].expires \in Nat
      BY Zenon, <3>1, <3>4, <3>5
    <3> QED BY Zenon, <1>0, <2>1, <3>1, <3>2, <3>3, <3>4, <3>6 DEF PollInv
  <2> QED BY Zenon, <1>9, <2>2, <2>3 DEF RenewChallenges
<1>10. ASSUME NEW p \in Serving(vault), NEW f, f.kind = "proof" => f.created \in Int,
              UNCHANGED <<vault, clock, draft, poll>>, files' = [files EXCEPT ![p] = f]
       PROVE  PollInv'
  <2>1. Directory(files)'
    <3>1. DOMAIN files' = DOMAIN files /\ \A q \in DOMAIN files : files'[q] = IF q = p THEN f ELSE files[q]
      BY <1>0, <1>10 DEF Directory
    <3>2. Serving(vault)' = Serving(vault)
      BY Zenon, <1>10 DEF Serving
    <3> QED BY Zenon, <1>0, <1>10, <3>1, <3>2 DEF Directory
  <2>2. clock' \in Nat /\ clock' >= clock
    BY <1>0, <1>10
  <2> QED BY Zenon, <1>10, <2>1, <2>2, ReadStays
<1>11. ASSUME NEW p \in Serving(vault), AnswerChallenge(p) PROVE PollInv'
  <2>1. PICK own \in (clock - MaxSkew) .. (clock + MaxSkew) :
          files' = [files EXCEPT ![p] = RolloverAnswer(vault, p, draft.challenges[p], own)]
    BY Zenon, <1>11 DEF AnswerChallenge
  <2>2. RolloverAnswer(vault, p, draft.challenges[p], own).created = own /\ own \in Int
    BY <1>0 DEF RolloverAnswer, AnswerOf
  <2>3. UNCHANGED <<vault, clock, draft, poll>>
    BY Zenon, <1>11 DEF AnswerChallenge
  <2> QED BY Zenon, <1>10, <2>1, <2>2, <2>3
<1>12. ASSUME NEW p \in Serving(vault), MisplaceFile(p) PROVE PollInv'
  <2>1. PICK f \in {[kind |-> "malformed"], RolloverAnswer(vault, p, CreateChallenge(1, draft.created), clock)} :
          files' = [files EXCEPT ![p] = f]
    BY Zenon, <1>12 DEF MisplaceFile
  <2>2. RolloverAnswer(vault, p, CreateChallenge(1, draft.created), clock).created = clock /\ clock \in Int
    BY <1>0 DEF RolloverAnswer, AnswerOf
  <2>3. [kind |-> "malformed"].kind # "proof"
    OBVIOUS
  <2>4. f.kind = "proof" => f.created \in Int
    BY Zenon, <2>1, <2>2, <2>3
  <2>5. UNCHANGED <<vault, clock, draft, poll>>
    BY Zenon, <1>12 DEF MisplaceFile
  <2> QED BY Zenon, <1>10, <2>1, <2>4, <2>5
<1>13. CASE Poll
  <2>1. /\ UNCHANGED <<vault, clock, files>> /\ draft.state = "waiting"
        /\ poll' = [previous |-> {files}, retry |-> RetryAt(clock)]
    BY Zenon, <1>13 DEF Poll
  <2>2. CASE \A p \in DOMAIN files : AnswersChallenge(p, files[p], clock)
    <3>1. draft' = [state |-> "complete"] \/ draft' = [state |-> "stranded"]
      BY Zenon, <1>13, <2>2 DEF Poll
    <3>2. draft'.state \notin {"none", "drafted", "waiting"}
      BY <3>1
    <3> QED BY Zenon, <1>4, <2>1, <3>2
  <2>3. CASE ~(\A p \in DOMAIN files : AnswersChallenge(p, files[p], clock))
    <3>1. UNCHANGED draft
      BY Zenon, <1>13, <2>3 DEF Poll
    <3>2. poll'.previous = {files} /\ poll'.retry = RetryIn(files, clock)
      BY Zenon, <2>1, RetryIs
    <3>3. \E p \in DOMAIN files : ~AnswersChallenge(p, files[p], clock)
      BY Zenon, <2>3
    <3>4. clock' \in Nat /\ clock <= clock'
      BY <1>0, <2>1
    <3>5. ReadBefore'
      BY Zenon, <2>1, <3>1, <3>2, <3>3, <3>4, SameRetry, SameAnswers DEF ReadBefore
    <3>6. Directory(files)'
      BY Zenon, <1>0, <2>1 DEF Directory, Serving
    <3>7. Serving(vault)' = Serving(vault)
      BY Zenon, <2>1 DEF Serving
    <3> QED BY Zenon, <2>1, <3>1, <3>4, <3>5, <3>6, <3>7 DEF PollInv
  <2> QED BY Zenon, <2>2, <2>3
<1> QED BY Zenon, <1>2, <1>3, <1>5, <1>6, <1>7, <1>8, <1>9, <1>11, <1>12, <1>13 DEF BootstrapNext

\* ProofPoll never sleeps over a directory in which every proof is valid:
\* whatever candidates write, and however their clocks differ, a read is due
\* (governed/proofs.rs, changed and read).
THEOREM ProofsNoticed == BootstrapSpec => []PollNotices
<1>1. BootstrapInit => PollInv
  <2> SUFFICES ASSUME BootstrapInit PROVE PollInv
    OBVIOUS
  <2>1. /\ vault \in BootstrapSources /\ clock = vault.time /\ draft = NoDraft
        /\ files = [p \in Serving(vault) |-> NoContribution]
        /\ poll = [previous |-> {}, retry |-> Nobody]
    BY Zenon DEF BootstrapInit
  <2>2. clock \in Nat
    BY Zenon, <2>1, BootstrapAssumption
  <2>3. NoContribution.kind # "proof" /\ NoDraft.state = "none" /\ poll.previous = {}
    BY <2>1 DEF NoContribution, NoDraft
  <2>4. Directory(files)
    BY Zenon, <2>1, <2>3 DEF Directory
  <2> QED BY <2>1, <2>2, <2>3, <2>4 DEF PollInv
<1>2. PollInv /\ [BootstrapNext]_bootstrapVars => PollInv'
  <2>1. ASSUME PollInv, UNCHANGED bootstrapVars PROVE PollInv'
    <3>1. UNCHANGED <<vault, clock, draft, files, poll>> /\ clock \in Nat
      BY Zenon, <2>1 DEF bootstrapVars, PollInv
    <3>2. clock' \in Nat /\ clock' >= clock
      BY <3>1
    <3>3. Directory(files)'
      BY Zenon, <2>1, <3>1 DEF PollInv, Directory, Serving
    <3> QED BY Zenon, <2>1, <3>1, <3>2, <3>3, ReadStays
  <2> QED BY Zenon, <2>1, PollSteps
<1>3. PollInv => PollNotices
  BY PollWakes
<1> QED BY <1>1, <1>2, <1>3, PTL DEF BootstrapSpec

-----------------------------------------------------------------------------
(* Comparing public scopes *)

\* How often each label occurs, and what has one label.
Counts(A, P) == [v \in {P[x] : x \in A} |-> Cardinality({x \in A : P[x] = v})]
Class(A, P, v) == {x \in A : P[x] = v}

\* A function between two finite sets that is one-to-one, onto and keeps a
\* label exists exactly when each label occurs equally often.
Matching(A, B, P, Q) ==
    \E f \in [A -> B] :
         /\ {f[x] : x \in DOMAIN f} = B
         /\ \A x, y \in DOMAIN f : f[x] = f[y] => x = y
         /\ \A x \in DOMAIN f : Q[f[x]] = P[x]

LEMMA BijectionIs ==
    ASSUME NEW S, NEW T
    PROVE  ExistsBijection(S, T) <=>
             \E g \in [S -> T] : /\ \A x, y \in S : g[x] = g[y] => x = y
                                 /\ \A z \in T : \E x \in S : g[x] = z
BY Zenon DEF ExistsBijection, Bijection, Injection, Surjection, IsInjective

LEMMA CountsOf ==
    ASSUME NEW A, NEW P
    PROVE  /\ DOMAIN Counts(A, P) = {P[x] : x \in A}
           /\ \A v \in {P[x] : x \in A} : Counts(A, P)[v] = Cardinality(Class(A, P, v))
BY Zenon DEF Counts, Class

LEMMA ClassFinite ==
    ASSUME NEW A, NEW P, NEW v, IsFiniteSet(A)
    PROVE  IsFiniteSet(Class(A, P, v))
<1>1. Class(A, P, v) \in SUBSET A
  BY Zenon DEF Class
<1> QED BY Zenon, <1>1, FS_Subset

LEMMA EqualCounts ==
    ASSUME NEW A, NEW B, NEW P, NEW Q, IsFiniteSet(A), IsFiniteSet(B),
           Counts(A, P) = Counts(B, Q)
    PROVE  Matching(A, B, P, Q)
<1> DEFINE V == {P[x] : x \in A}
           Fits(v, g) == /\ g \in [Class(A, P, v) -> Class(B, Q, v)]
                         /\ \A x, y \in Class(A, P, v) : g[x] = g[y] => x = y
                         /\ \A z \in Class(B, Q, v) : \E x \in Class(A, P, v) : g[x] = z
           G == [v \in V |-> CHOOSE g : Fits(v, g)]
           f == [x \in A |-> G[P[x]][x]]
<1>0. /\ DOMAIN Counts(A, P) = V /\ DOMAIN Counts(B, Q) = {Q[x] : x \in B}
      /\ \A v \in V : Counts(A, P)[v] = Cardinality(Class(A, P, v))
      /\ \A v \in {Q[x] : x \in B} : Counts(B, Q)[v] = Cardinality(Class(B, Q, v))
  BY ZenonT(60), CountsOf
<1>1. V = {Q[x] : x \in B}
  BY ZenonT(60), <1>0
<1>2. ASSUME NEW v \in V PROVE Fits(v, G[v])
  <2>1. Cardinality(Class(A, P, v)) = Cardinality(Class(B, Q, v))
    BY <1>0, <1>1
  <2>2. ExistsBijection(Class(A, P, v), Class(B, Q, v))
    BY Zenon, <2>1, ClassFinite, FS_SameCardinalityBij
  <2>3. \E g : Fits(v, g)
    BY Zenon, <2>2, BijectionIs
  <2> HIDE DEF Fits
  <2> QED BY Zenon, <2>3
<1> HIDE DEF G
<1>3. ASSUME NEW x \in A
      PROVE  P[x] \in V /\ x \in Class(A, P, P[x]) /\ f[x] = G[P[x]][x] /\ f[x] \in Class(B, Q, P[x])
  <2>1. P[x] \in V /\ x \in Class(A, P, P[x]) /\ f[x] = G[P[x]][x]
    BY Zenon DEF Class
  <2> QED BY Zenon, <1>2, <2>1
<1>4. ASSUME NEW x \in A PROVE f[x] \in B /\ Q[f[x]] = P[x]
  BY Zenon, <1>3 DEF Class
<1>5. f \in [A -> B] /\ DOMAIN f = A
  BY Zenon, <1>4
<1>6. ASSUME NEW x \in A, NEW y \in A, f[x] = f[y] PROVE x = y
  <2>1. P[x] = P[y]
    BY Zenon, <1>4, <1>6
  <2> QED BY Zenon, <1>2, <1>3, <1>6, <2>1
<1>7. ASSUME NEW z \in B PROVE \E x \in A : f[x] = z
  <2>1. Q[z] \in V /\ z \in Class(B, Q, Q[z])
    BY Zenon, <1>1 DEF Class
  <2>2. PICK x \in Class(A, P, Q[z]) : G[Q[z]][x] = z
    BY Zenon, <1>2, <2>1
  <2>3. x \in A /\ P[x] = Q[z]
    BY Zenon, <2>2 DEF Class
  <2> QED BY Zenon, <1>3, <2>2, <2>3
<1> HIDE DEF f
<1>8. {f[x] : x \in DOMAIN f} = B
  BY Zenon, <1>4, <1>5, <1>7
<1> QED BY Zenon, <1>4, <1>5, <1>6, <1>8 DEF Matching

LEMMA MatchingCounts ==
    ASSUME NEW A, NEW B, NEW P, NEW Q, IsFiniteSet(A), IsFiniteSet(B), Matching(A, B, P, Q)
    PROVE  Counts(A, P) = Counts(B, Q)
<1>1. PICK f \in [A -> B] : /\ {f[x] : x \in DOMAIN f} = B
                            /\ \A x, y \in DOMAIN f : f[x] = f[y] => x = y
                            /\ \A x \in DOMAIN f : Q[f[x]] = P[x]
  BY Zenon DEF Matching
<1>2. DOMAIN f = A /\ \A z \in B : \E x \in A : f[x] = z
  BY Zenon, <1>1
<1>3. {P[x] : x \in A} = {Q[z] : z \in B}
  <2>1. ASSUME NEW x \in A PROVE \E z \in B : Q[z] = P[x]
    <3>1. f[x] \in B /\ Q[f[x]] = P[x]
      BY <1>1, <1>2
    <3> QED BY Zenon, <3>1
  <2>2. ASSUME NEW z \in B PROVE \E x \in A : P[x] = Q[z]
    <3>1. PICK x \in A : f[x] = z
      BY Zenon, <1>2
    <3>2. Q[f[x]] = P[x]
      BY Zenon, <1>1, <1>2
    <3> QED BY Zenon, <3>1, <3>2
  <2> QED BY <2>1, <2>2
<1>4. ASSUME NEW v PROVE Cardinality(Class(A, P, v)) = Cardinality(Class(B, Q, v))
  <2> DEFINE g == [x \in Class(A, P, v) |-> f[x]]
  <2>1. \A x \in Class(A, P, v) : x \in A /\ f[x] \in Class(B, Q, v)
    BY Zenon, <1>1, <1>2 DEF Class
  <2>2. g \in [Class(A, P, v) -> Class(B, Q, v)]
    BY Zenon, <2>1
  <2>3. \A x, y \in Class(A, P, v) : g[x] = g[y] => x = y
    BY Zenon, <1>1, <1>2, <2>1
  <2>4. ASSUME NEW z \in Class(B, Q, v) PROVE \E x \in Class(A, P, v) : g[x] = z
    <3>1. z \in B /\ Q[z] = v
      BY Zenon DEF Class
    <3>2. PICK x \in A : f[x] = z
      BY Zenon, <1>2, <3>1
    <3>3. x \in Class(A, P, v)
      BY Zenon, <1>1, <1>2, <3>1, <3>2 DEF Class
    <3> QED BY Zenon, <3>2, <3>3
  <2> HIDE DEF g
  <2>5. ExistsBijection(Class(A, P, v), Class(B, Q, v))
    BY Zenon, <2>2, <2>3, <2>4, BijectionIs
  <2> QED BY Zenon, <2>5, ClassFinite, FS_Bijection
<1>5. Counts(A, P) = Counts(B, Q)
  BY ZenonT(60), <1>3, <1>4 DEF Counts, Class
<1> QED BY <1>5

PatternsOf(uses) == [key \in FieldsOf(uses) |-> <<key[1], UsesOf(uses, key)>>]

LEMMA PatternsCounted ==
    ASSUME NEW uses
    PROVE  CanonicalPatterns(uses) = Counts(FieldsOf(uses), PatternsOf(uses))
<1> DEFINE Pattern(key) == <<key[1], UsesOf(uses, key)>>
           F == FieldsOf(uses)
<1>1. \A key \in F : PatternsOf(uses)[key] = Pattern(key)
  BY Zenon DEF PatternsOf
<1>2. {Pattern(key) : key \in F} = {PatternsOf(uses)[key] : key \in F}
  BY Zenon, <1>1
<1>3. \A p : {key \in F : Pattern(key) = p} = {key \in F : PatternsOf(uses)[key] = p}
  BY Zenon, <1>1
<1>4. CanonicalPatterns(uses) = [p \in {Pattern(key) : key \in F} |-> Cardinality({key \in F : Pattern(key) = p})]
  BY Zenon DEF CanonicalPatterns
<1>5. Counts(F, PatternsOf(uses)) =
       [p \in {PatternsOf(uses)[key] : key \in F} |-> Cardinality({key \in F : PatternsOf(uses)[key] = p})]
  BY Zenon DEF Counts
<1> HIDE DEF Pattern, F
<1> QED BY Zenon, <1>2, <1>3, <1>4, <1>5 DEF F

LEMMA FieldsFinite ==
    ASSUME NEW uses, IsFiniteSet(uses)
    PROVE  IsFiniteSet(FieldsOf(uses))
<1> DEFINE named == {u \in uses : u.field # NoField}
           Key == [u \in named |-> <<u.item, u.field>>]
<1>1. IsFiniteSet(named)
  BY Zenon, FS_Subset
<1>2. FieldsOf(uses) = {Key[u] : u \in named}
  BY Zenon DEF FieldsOf
<1>3. Key \in [named -> FieldsOf(uses)] /\ \A z \in FieldsOf(uses) : \E u \in named : Key[u] = z
  BY Zenon, <1>2
<1>4. Key \in Surjection(named, FieldsOf(uses))
  BY Zenon, <1>3 DEF Surjection
<1> QED BY Zenon, <1>1, <1>4, FS_Surjection

LEMMA ScopesAgree ==
    ASSUME NEW prior, NEW later, IsFiniteSet(prior), IsFiniteSet(later)
    PROVE  ScopesPreserved(prior, later) <=> ScopesBijective(prior, later)
<1> DEFINE A == FieldsOf(prior)
           B == FieldsOf(later)
           P == PatternsOf(prior)
           Q == PatternsOf(later)
<1>1. IsFiniteSet(A) /\ IsFiniteSet(B)
  BY Zenon, FieldsFinite
<1>2. CanonicalPatterns(prior) = CanonicalPatterns(later) <=> Matching(A, B, P, Q)
  <2>1. CanonicalPatterns(prior) = Counts(A, P) /\ CanonicalPatterns(later) = Counts(B, Q)
    BY Zenon, PatternsCounted
  <2>2. Counts(A, P) = Counts(B, Q) => Matching(A, B, P, Q)
    <3> HIDE DEF A, B, P, Q
    <3> QED BY <1>1, EqualCounts
  <2>3. Matching(A, B, P, Q) => Counts(A, P) = Counts(B, Q)
    <3> HIDE DEF A, B, P, Q
    <3> QED BY <1>1, MatchingCounts
  <2> QED BY <2>1, <2>2, <2>3
<1>3. ASSUME NEW f \in [A -> B], NEW key \in A
      PROVE  Q[f[key]] = P[key] <=> (f[key][1] = key[1] /\ UsesOf(later, f[key]) = UsesOf(prior, key))
  <2>1. P[key] = <<key[1], UsesOf(prior, key)>> /\ Q[f[key]] = <<f[key][1], UsesOf(later, f[key])>>
    BY Zenon DEF PatternsOf
  <2> QED BY <2>1
<1>4. Matching(A, B, P, Q) <=>
        \E f \in [A -> B] :
          /\ {f[key] : key \in DOMAIN f} = B
          /\ \A j, k \in DOMAIN f : f[j] = f[k] => j = k
          /\ \A key \in DOMAIN f : f[key][1] = key[1] /\ UsesOf(later, f[key]) = UsesOf(prior, key)
  <2>1. \A f \in [A -> B] : DOMAIN f = A
    BY Zenon
  <2>2. ASSUME NEW f \in [A -> B]
        PROVE  (\A key \in DOMAIN f : Q[f[key]] = P[key])
                 <=> \A key \in DOMAIN f : f[key][1] = key[1] /\ UsesOf(later, f[key]) = UsesOf(prior, key)
    BY Zenon, <1>3, <2>1
  <2> HIDE DEF A, B, P, Q
  <2> QED BY Zenon, <2>2 DEF Matching
<1> QED BY Zenon, <1>2, <1>4 DEF ScopesPreserved, ScopesBijective

ScopesInv == compared[1] \in SUBSET ScopeUses[1] /\ compared[2] \in SUBSET ScopeUses[2]

\* scopes_preserved, which compares the sorted patterns of the fields, accepts
\* a pair of public scopes exactly when the bijection of the fields exists that
\* the comment above PublicScopes asks for, whatever finite sets of uses there
\* are (verify/scopes.rs).
THEOREM ScopesCompared == BootstrapSpec => []ScopesExact
<1>1. BootstrapInit => ScopesInv
  <2> SUFFICES ASSUME BootstrapInit PROVE ScopesInv
    OBVIOUS
  <2>1. compared \in (SUBSET ScopeUses[1]) \X (SUBSET ScopeUses[2]) \/ compared = <<{}, {}>>
    BY Zenon DEF BootstrapInit
  <2> QED BY <2>1 DEF ScopesInv
<1>2. ScopesInv /\ [BootstrapNext]_bootstrapVars => ScopesInv'
  <2>1. ASSUME [BootstrapNext]_bootstrapVars PROVE compared' = compared
    <3>1. CASE UNCHANGED bootstrapVars
      BY Zenon, <3>1 DEF bootstrapVars
    <3>2. CASE BootstrapNext
      BY Zenon, <3>2 DEF BootstrapNext, TickClock, RegisterServing, RemoveServing, RevisePolicy,
          PrepareDirect, PrepareGoverned, AccessPart, RenewChallenges, AnswerChallenge, MisplaceFile,
          Poll, StopWaiting
    <3> QED BY Zenon, <2>1, <3>1, <3>2
  <2> QED BY Zenon, <2>1 DEF ScopesInv
<1>3. ScopesInv => ScopesExact
  <2> SUFFICES ASSUME ScopesInv PROVE ScopesExact
    OBVIOUS
  <2>1. IsFiniteSet(compared[1]) /\ IsFiniteSet(compared[2])
    BY Zenon, BootstrapAssumption, FS_Subset DEF ScopesInv
  <2> QED BY Zenon, <2>1, ScopesAgree DEF ScopesExact
<1> QED BY <1>1, <1>2, <1>3, PTL DEF BootstrapSpec
=============================================================================
