------------------------------ MODULE MCSharing ------------------------------
(***************************************************************************)
(* What leaves a vault, and what others may conclude from it: exports,     *)
(* the bootstrap of a destination vault, access sessions, requests and     *)
(* receipts, canonical encodings, and the delivery of field values.  The   *)
(* parts share no state: in a behaviour one of them runs, and the others   *)
(* rest in an initial state.                                               *)
(***************************************************************************)
EXTENDS LocalExports, RolloverBootstrap, AccessSession, MCEvidence,
        VaultStatements, WitnessStatements, RecordStatements, MCDelivery

CONSTANTS x1, x2

VARIABLE part

-----------------------------------------------------------------------------
(***************************************************************************)
(* Exports: the commands at work and the mishaps.                          *)
(***************************************************************************)
ExportKinds == {"transfer", "create", "verify", "drill"}
ExportScene(kinds, commands, faults, losses, kills, skews) ==
  [kinds |-> kinds, commands |-> commands,
   chances |-> [faults |-> faults, losses |-> losses, kills |-> kills, skews |-> skews]]
MCExportScenes == {
  ExportScene(ExportKinds, {x1}, 1, 1, 0, 0), ExportScene({"create", "verify"}, {x1}, 1, 0, 1, 2),
  ExportScene({"create"}, {x1, x2}, 0, 0, 0, 2), ExportScene({"transfer"}, {x1, x2}, 1, 0, 1, 0)}
MCSince == [who \in {Owner, Approver} |-> IF who = Owner THEN 1 ELSE 2]

-----------------------------------------------------------------------------
(***************************************************************************)
(* The bootstrap of a destination, for small source vaults.                *)
(***************************************************************************)
Human(label) == [kind |-> "human", label |-> label, since |-> 0, settings |-> "none"]
Scope(id, item, field, text, expires) ==
  [id |-> id, item |-> item, field |-> field, text |-> text, expires |-> expires, issued |-> 1]
NoGrants == [p \in {} |-> "reader"]

\* Two owners, a reader with direct access and a deleted item.
DirectVault ==
  [principals |-> <<Human("first"), Human("second"), [Human("host") EXCEPT !.kind = "machine"]>>,
   owners |-> {1, 2}, used |-> {1, 2, 3}, suite |-> 1, time |-> 1, policies |-> <<>>,
   items |-> [i \in {1, 3} |->
      IF i = 1
      THEN [kind |-> "login", grants |-> [p \in {3} |-> "reader"], direct |-> {1, 2, 3}, policy |-> Nobody, fields |-> {1, 2}]
      ELSE [kind |-> "note", grants |-> NoGrants, direct |-> {1, 2}, policy |-> Nobody, fields |-> {1}]]]

\* One item with approvals and a second, both under one policy whose targets
\* and labels name live fields, removed fields and a deleted item.
GovernedVault(expires) ==
  [principals |-> <<Human("owner"), [kind |-> "approver", label |-> "a", settings |-> "narrow", since |-> 1],
                    [kind |-> "witness", label |-> "w", settings |-> "initial", since |-> 0], Human("reader")>>,
   owners |-> {1}, used |-> {1, 2, 4}, suite |-> 2, time |-> 1,
   policies |-> << [rules |-> "some",
                    targets |-> {Scope(1, 1, 1, "show", Nobody), Scope(2, 1, 3, "show", Nobody),
                                 Scope(3, 1, 4, "run", Nobody), Scope(4, 4, 1, "show", Nobody)},
                    labels |-> {Scope(5, 1, 1, "user", expires), Scope(6, 1, NoField, "site", Nobody),
                                Scope(7, 4, 2, "old", Nobody), Scope(8, Nobody, NoField, "here", Nobody)}] >>,
   items |-> <<[kind |-> "login", grants |-> NoGrants, direct |-> {1}, policy |-> 1, fields |-> {1, 2}],
               [kind |-> "note", grants |-> [p \in {4} |-> "reader"], direct |-> {}, policy |-> 1, fields |-> {1}]>>]

\* No vault: the comparison of scopes by itself.
NoSource == [DirectVault EXCEPT !.time = 0]

MCSources == {NoSource, DirectVault, GovernedVault(6), GovernedVault(5)}
ScopeUse(item, field, token, n) == [item |-> item, field |-> field, token |-> <<token>>, n |-> n]
MCUses ==
  << {ScopeUse(1, 1, "a", 1), ScopeUse(1, 1, "b", 1), ScopeUse(1, 2, "a", 1), ScopeUse(1, 2, "a", 2), ScopeUse(2, 1, "a", 1),
      ScopeUse(1, NoField, "a", 1)},
     {ScopeUse(1, 3, "a", 1), ScopeUse(1, 3, "a", 2), ScopeUse(1, 4, "a", 1), ScopeUse(1, 4, "b", 1), ScopeUse(2, 4, "a", 1),
      ScopeUse(1, 2, "a", 1), ScopeUse(1, NoField, "a", 1)} >>

-----------------------------------------------------------------------------
(***************************************************************************)
(* Sessions, and the statements that are encoded.                          *)
(***************************************************************************)
MCItems == <<"direct", "mixed", "witnessed", "none">>
Bind(item, role, issued, notBefore, expires, v) ==
  [item |-> item, role |-> role, issued |-> issued, notBefore |-> notBefore, expires |-> expires, version |-> v]
MCBindings == {Bind(2, "body", 1, 2, 4, 1), Bind(3, "descriptor", 0, 0, 2, 1),
               Bind(3, "descriptor", 1, 0, 4, 2), Bind(1, "body", 1, 0, 3, 1)}

MCStatements == VaultStatementSet \cup WitnessStatementSet \cup RecordStatementSet

-----------------------------------------------------------------------------
(***************************************************************************)
(* One of the parts runs.                                                  *)
(***************************************************************************)
Parts == {"exports", "bootstrap", "session", "evidence", "encoding", "delivery"}

Resting(p) ==
  CASE p = "exports"   -> ExportStart(CHOOSE x \in ExportScenes : TRUE)
    [] p = "bootstrap" -> /\ vault = DirectVault /\ compared = <<{}, {}>>
                          /\ BootstrapInit
    [] p = "session"   -> SessionInit
    [] p = "evidence"  -> scene = (CHOOSE x \in Scenes : TRUE) /\ EvidenceInit
    [] p = "encoding"  -> form = (CHOOSE x \in Statements : TRUE) /\ EncodingInit
    [] p = "delivery"  -> /\ task = (CHOOSE x \in Tasks : TRUE)
                          /\ programs = (CHOOSE x \in Trees : TRUE)[1]
                          /\ DeliveryInit

Starting(p) ==
  CASE p = "exports"   -> ExportInit
    [] p = "bootstrap" -> BootstrapInit
    [] p = "session"   -> SessionInit
    [] p = "evidence"  -> EvidenceInit
    [] p = "encoding"  -> EncodingInit
    [] p = "delivery"  -> DeliveryInit

Init ==
  \E running \in Parts :
    /\ part = running
    /\ \A p \in Parts : IF p = running THEN Starting(p) ELSE Resting(p)

Next ==
  \/ /\ part = "exports" /\ ExportNext
     /\ UNCHANGED <<part, bootstrapVars, sessionVars, evidenceVars, encodingVars, deliveryVars>>
  \/ /\ part = "bootstrap" /\ BootstrapNext
     /\ UNCHANGED <<part, exportVars, sessionVars, evidenceVars, encodingVars, deliveryVars>>
  \/ /\ part = "session" /\ SessionNext
     /\ UNCHANGED <<part, exportVars, bootstrapVars, evidenceVars, encodingVars, deliveryVars>>
  \/ /\ part = "evidence" /\ EvidenceNext
     /\ UNCHANGED <<part, exportVars, bootstrapVars, sessionVars, encodingVars, deliveryVars>>
  \/ /\ part = "encoding" /\ EncodingNext
     /\ UNCHANGED <<part, exportVars, bootstrapVars, sessionVars, evidenceVars, deliveryVars>>
  \/ /\ part = "delivery" /\ DeliveryNext
     /\ UNCHANGED <<part, exportVars, bootstrapVars, sessionVars, evidenceVars, encodingVars>>

vars == <<part, exportVars, bootstrapVars, sessionVars, evidenceVars, encodingVars,
          deliveryVars>>

Spec == Init /\ [][Next]_vars
==============================================================================
