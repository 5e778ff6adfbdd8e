----------------------------- MODULE MCGovernance -----------------------------
(***************************************************************************)
(* Who may do what in a vault, and which copy of it is the later one: the  *)
(* replay of any signed revision at all, the commands that plan revisions, *)
(* and the comparison of two artifacts.  In a behaviour one of them runs,  *)
(* and the others rest in an initial state.                                *)
(***************************************************************************)
EXTENDS PolicyReplay, Sequences, Functions, TLC

CONSTANTS CommandPeople,                        \* the descriptors the commands know
          Names, Fields, MaxBucket,             \* of VaultCommands
          Clones, AncestryItems, MaxJournal     \* of ArtifactAncestry

VARIABLES part,
          scenario,                             \* of the replay
          command, cpolicy, cnext, ckeys, crotated, creplaced, csealed,
          plan, status, body, store, history,   \* of the commands
          artifact                              \* of the comparison

-------------------------------------------------------------------------------
(* Replay: a behaviour follows one scenario, the descriptors, items, slots *)
(* and operations its authors use, and how many go into a revision.        *)

MCPrincipal(id, kind, key) ==
  [id |-> id, kind |-> kind, rkey |-> key, vkey |-> key]

MCAnn    == MCPrincipal("ann", "human", 1)
MCBob    == MCPrincipal("bob", "human", 2)
MCAnna   == MCPrincipal("anna", "human", 4)
MCNoSlots == [d \in {} |-> "owner"]

\* One item, a second human who may become an owner, a machine, a
\* replacement for an owner, and a key of the second human that is not the
\* one in the policy.
MCOldBob == [MCBob EXCEPT !.rkey = 5]
MCEpochDescriptors == {MCAnn, MCBob, MCAnna, MCOldBob}
MCEpochSlots == {MCAnn :> "owner",
                 MCAnn :> "owner" @@ MCBob :> "reader",
                 MCAnn :> "owner" @@ MCBob :> "owner",
                 MCAnn :> "owner" @@ MCOldBob :> "reader",
                 MCBob :> "owner",
                 MCBob :> "owner" @@ MCAnna :> "owner",
                 MCAnna :> "owner"}

\* Two items and descriptors that reuse an identifier or one of the keys.
MCBobAgain == [MCPrincipal("bob", "human", 6) EXCEPT !.rkey = 7]
MCSameRecipient == [MCPrincipal("carl", "human", 8) EXCEPT !.rkey = 2]
MCSameSigner == [MCPrincipal("dora", "human", 9) EXCEPT !.vkey = 2]
MCIdentityDescriptors ==
  {MCAnn, MCBob, MCBobAgain, MCSameRecipient, MCSameSigner}
MCIdentitySlots == {MCAnn :> "owner"}

\* Witnesses of which two or three serve a policy, one with a replacement,
\* and an approver that may be replaced too.
MCW1 == MCPrincipal("w1", "witness", 11)
MCW2 == MCPrincipal("w2", "witness", 12)
MCW3 == MCPrincipal("w3", "witness", 13)
MCAp == MCPrincipal("ap", "approver", 14)
MCWitnessDescriptors == {MCAnn, MCW1, MCW2, MCW3, MCAp}
MCWitnessSlots == {MCNoSlots, MCAnn :> "owner"}
MCWitnessPolicy(seq, members, approvers, threshold) ==
  [sequence |-> seq, members |-> members, approvers |-> approvers,
   threshold |-> threshold]
MCCatalog == {MCWitnessPolicy(2, {MCW1, MCW2}, {MCAp}, 2),
              MCWitnessPolicy(2, {MCW1, MCW3}, {}, 2),
              MCWitnessPolicy(3, {MCW2, MCW3}, {MCAp}, 2)}

MCAccessOperations ==
  {"PrincipalAdd", "PrincipalRemove", "PrincipalReplace", "OwnerGrant",
   "OwnerRevoke", "ItemCreate", "ItemDelete", "ItemRoleChange",
   "ItemReaderSetChange", "ItemSlotsReplace"}
MCIdentityOperations ==
  {"PrincipalAdd", "PrincipalLabelChange", "PrincipalRemove",
   "PrincipalReplace", "OwnerGrant", "OwnerRevoke", "ItemCreate",
   "ItemRename", "ItemDelete", "ItemReaderSetChange", "ItemSlotsReplace"}
MCWitnessOperations ==
  {"PrincipalAdd", "PrincipalRemove", "PrincipalReplace", "ItemCreate",
   "ItemReaderSetChange", "ItemSlotsReplace"}

MCEpochScenario(size, revisions) ==
  [descriptors |-> MCEpochDescriptors, items |-> {"i"},
   slots |-> MCEpochSlots, operations |-> MCAccessOperations,
   size |-> size, revisions |-> revisions, empty |-> FALSE, times |-> {0}]

MCScenarios ==
  <<MCEpochScenario(4, 2), MCEpochScenario(3, 3),
    [descriptors |-> MCIdentityDescriptors, items |-> {"i", "j"},
     slots |-> MCIdentitySlots, operations |-> MCIdentityOperations,
     size |-> 2, revisions |-> 3, empty |-> TRUE, times |-> Times],
    [descriptors |-> MCWitnessDescriptors, items |-> {"i"},
     slots |-> MCWitnessSlots, operations |-> MCWitnessOperations,
     size |-> 4, revisions |-> 3, empty |-> FALSE, times |-> {0}]>>

MCDescriptors == UNION {s.descriptors : s \in Range(MCScenarios)}
MCSlotSets == UNION {s.slots : s \in Range(MCScenarios)}

\* The accesses and the identifiers of each scenario.
MCAccess ==
  [k \in DOMAIN MCScenarios |->
     LET slots == MCScenarios[k].slots
     IN [to : slots, witnessed : {{}} \union (IF MCNoSlots \in slots THEN {{w} : w \in Catalog} ELSE {})]]
MCIds == [k \in DOMAIN MCScenarios |-> {d.id : d \in MCScenarios[k].descriptors}]

\* The operations of scenario s, its identifiers and accesses.
MCOperation(s, ids, accesses) ==
  \/ \E d \in s.descriptors : PrincipalAdd(d)
  \/ \E p \in ids : \/ PrincipalLabelChange(p) \/ PrincipalRemove(p)
                    \/ OwnerGrant(p) \/ OwnerRevoke(p)
  \/ \E p \in ids, d \in s.descriptors : PrincipalReplace(p, d)
  \/ \E i \in s.items, access \in accesses :
       ItemCreate(i, access) \/ ItemSlotsReplace(i, access)
  \/ \E i \in s.items :
       ItemRename(i) \/ ItemDelete(i) \/ ItemReaderSetChange(i)
  \/ \E i \in s.items, p \in ids, role \in {"reader", "writer", "none"} :
       ItemRoleChange(i, p, role)

ReplayScenario(s, ids, accesses) ==
  \/ /\ policy.sequence < s.revisions /\ Cardinality(keys) < s.size
     /\ MCOperation(s, ids, accesses)
     /\ \A k \in keys' : k[1] \in s.operations
  \/ \E p \in ids, t \in s.times :
       Accept(p, t) \/ (s.empty /\ AcceptEmpty(p, t))
  \/ Refuse

ReplayNext == ReplayScenario(MCScenarios[scenario], MCIds[scenario], MCAccess[scenario])

-------------------------------------------------------------------------------
(* Commands: a behaviour follows one scenario, the commands of its first   *)
(* revisions, then any commands of a set.                                  *)

Bob == MCPrincipal("bob", "human", 14)
Bea == MCPrincipal("bea", "human", 15)
Bot == MCPrincipal("bot", "machine", 16)
W1  == MCPrincipal("w1", "witness", 11)
W2  == MCPrincipal("w2", "witness", 12)
W3  == MCPrincipal("w3", "witness", 17)
Ap  == MCPrincipal("ap", "approver", 13)

CommandDescriptors == {MCAnn, Bob, Bea, Bot, W1, W2, W3, Ap}
\* A request needs both witnesses; the second kind cannot be rekeyed.
Controls(operations) ==
  [lineage |-> <<>>, revision |-> 0, sequence |-> 0, members |-> {W1, W2},
   approvers |-> {Ap}, threshold |-> 2, operations |-> operations]

ItemCommands == {"field_set", "field_remove", "privacy_cover"}
RoleCommands == {"access_grant", "access_change", "access_revoke"}
PrincipalCommands ==
  {"principal_add", "principal_label", "principal_replace", "principal_remove",
   "principal_owner_change"}
PolicyCommands == {"policy_require_witnessed", "policy_allow_direct"}

\* Two items, roles and owners; one item and its fields; no item; and two
\* items of which one becomes witnessed.
CommandScenarios ==
  <<[people |-> {Bob, Bea},
     script |-> <<{"principal_add"}, {"item_create"}, {"item_create"}>>,
     free |-> RoleCommands \union PrincipalCommands,
     revisions |-> 6, actors |-> {"ann", "bob"}],
    [people |-> {Bob, Bot},
     script |-> <<{"principal_add"}, {"item_create"}>>,
     free |-> RoleCommands \union ItemCommands \union {"policy_allow_direct"},
     revisions |-> 6, actors |-> {"ann", "bob"}],
    [people |-> {Bob, Bea}, script |-> <<{"principal_add"}>>,
     free |-> {"principal_add", "principal_owner_change", "principal_replace"},
     revisions |-> 4, actors |-> {"ann", "bob"}],
    [people |-> {W1, W2, W3, Ap, Bob},
     script |-> <<{"principal_add"}, {"principal_add"}, {"principal_add"},
                  {"principal_add"}, {"item_create"}, {"policy_require_witnessed"}>>,
     free |-> PolicyCommands \union {"item_create", "principal_owner_change",
                "principal_replace", "principal_remove", "principal_add"},
     revisions |-> 10, actors |-> {"ann", "bob"}]>>

Command == CommandScenarios[command]

Commands == INSTANCE VaultCommands WITH
  Descriptors <- CommandPeople, Rollover <- FALSE, SlotSets <- {}, Catalog <- {}, Times <- {0},
  MaxRevisions <- 20, MaxItems <- 2, MaxOperations <- 20,
  policy <- cpolicy, next <- cnext, keys <- ckeys, rotated <- crotated, replaced <- creplaced,
  sealed <- csealed

MayRun == IF Commands!Sequence =< Len(Command.script) THEN Command.script[Commands!Sequence]
             ELSE Command.free

NewPeople == {d \in Command.people : Commands!Unused(cpolicy, d)}
\* Principals are registered in one order at first.
FirstPeople == IF Commands!Sequence < Len(Command.script) /\ NewPeople # {}
           THEN {CHOOSE d \in NewPeople : \A e \in NewPeople : d.rkey =< e.rkey}
           ELSE NewPeople
Known == {d.id : d \in Command.people} \union {"ann"}
GivenRoles == UNION {[S -> {"reader", "writer"}] : S \in SUBSET Commands!Live(cpolicy)}
Grants == UNION {[S -> {"reader"}] : S \in SUBSET Commands!Grantees}

AnyCommand(a) ==
  \/ /\ "item_create" \in MayRun
     /\ \E i \in Items, n \in Names, grants \in Grants : Commands!item_create(a, i, n, grants)
  \/ /\ "field_set" \in MayRun
     /\ \E i \in Items, f \in Fields : Commands!field_set(a, i, f)
  \/ /\ "field_remove" \in MayRun
     /\ \E i \in Items, f \in Fields : Commands!field_remove(a, i, f)
  \/ "privacy_cover" \in MayRun /\ \E i \in Items : Commands!privacy_cover(a, i)
  \/ /\ "access_grant" \in MayRun
     /\ \E p \in Known, roles \in GivenRoles : Commands!access_grant(a, p, roles)
  \/ /\ "access_change" \in MayRun
     /\ \E p \in Known, i \in Items, role \in {"reader", "writer"} :
          Commands!access_change(a, p, i, role)
  \/ /\ "access_revoke" \in MayRun
     /\ \E p \in Known, items \in SUBSET Commands!Live(cpolicy) : Commands!access_revoke(a, p, items)
  \/ /\ "principal_add" \in MayRun
     /\ \E d \in FirstPeople, roles \in GivenRoles : Commands!principal_add(a, d, roles)
  \/ "principal_label" \in MayRun /\ \E p \in Known : Commands!principal_label(a, p)
  \/ /\ "principal_replace" \in MayRun
     /\ \E p \in Known, d \in NewPeople : Commands!principal_replace(a, p, d)
  \/ "principal_remove" \in MayRun /\ \E p \in Known : Commands!principal_remove(a, p)
  \/ /\ "principal_owner_change" \in MayRun
     /\ \E p \in Known, grant, ack \in BOOLEAN :
          Commands!principal_owner_change(a, p, grant, ack)
  \/ /\ "policy_require_witnessed" \in MayRun
     /\ \E i \in Items, operations \in
          {{"read-stdout", "administrative-rekey"}, {"read-stdout"}} :
          Commands!policy_require_witnessed(a, i, Controls(operations))
  \/ /\ "policy_allow_direct" \in MayRun
     /\ \E i \in Items, people \in SUBSET Known : Commands!policy_allow_direct(a, i, people)

CommandNext ==
  \/ /\ status # "planning" /\ Commands!Sequence =< Command.revisions
     /\ \E a \in Command.actors : AnyCommand(a)
  \/ Commands!ReplayOperation
  \/ Commands!PreparedAlone
  \/ Commands!Commit
  \/ Commands!DryRun
  \/ Commands!Reject

Ancestry == INSTANCE ArtifactAncestry

-------------------------------------------------------------------------------
commandVars == <<cpolicy, cnext, ckeys, crotated, creplaced, csealed, plan, status, body, store, history>>
choices == <<part, scenario, command>>

Parts == {"commands", "replay", "ancestry"}

GovernanceInit ==
  /\ part \in Parts
  /\ scenario \in IF part = "replay" THEN DOMAIN MCScenarios ELSE {1}
  /\ command \in IF part = "commands" THEN DOMAIN CommandScenarios ELSE {1}
  /\ Init /\ Commands!CommandsInit /\ Ancestry!AncestryInit

GovernanceNext ==
  /\ UNCHANGED choices
  /\ \/ part = "commands" /\ CommandNext /\ UNCHANGED <<vars, artifact>>
     \/ part = "replay" /\ ReplayNext /\ UNCHANGED <<commandVars, artifact>>
     \/ part = "ancestry" /\ Ancestry!AncestryNext /\ UNCHANGED <<vars, commandVars>>

GovernanceSpec == GovernanceInit /\ [][GovernanceNext]_<<choices, vars, commandVars, artifact>>

-------------------------------------------------------------------------------
\* A command of an owner that passes its own checks is never turned away by
\* the replay of what it planned, in that order and for any number of items at
\* once (push_batch_operation, finish_item_batch, transition_flags).
CommandsAccepted == Commands!PlansAccepted

\* After any commands the vault is consistent with itself: readers hold the
\* keys of their items, names are unique, and the catalog kept beside the
\* vault suffices to replay its journal (the planners of jury-core with
\* commit_mutation).
CommandsConsistent == Commands!ReadersHoldKeys /\ Commands!NamesUnique /\ Commands!CatalogReplays

\* compare_artifacts finds what the commits behind two copies say.
ComparisonFindsDescent == Ancestry!DescendantsRecognised
===============================================================================
