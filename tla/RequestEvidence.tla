--------------------------- MODULE RequestEvidence ---------------------------
(***************************************************************************)
(* The documents of a witnessed request: the labels an owner signs for an  *)
(* item and its fields, the request a principal signs with what approvers  *)
(* are to be shown, the approvals and denials, the decisions of the        *)
(* witnesses and the receipt that puts them together.  They travel as      *)
(* files between people, so any of them may be read together with any      *)
(* other, and everyone works from a copy of the vault of some age.         *)
(* A digest is the value it is the digest of, or for a request its number; *)
(* a document exists only if its signer made it.  An optional value is a   *)
(* set of at most one element.                                             *)
(***************************************************************************)
EXTENDS Integers, Sequences, FiniteSets

CONSTANTS
  Items, Fields, Approvers, Witnesses,
  Roles,        \* the role of every principal that is no owner, "none" if it has none
  FirstOwners,
  Scenes,       \* what the owner asks of approvers, what principals want, and bounds
  Lifetime, Skew

ASSUME PeopleAssumption == IsFiniteSet(Approvers) /\ IsFiniteSet(Witnesses)

ASSUME ScenesAssumption ==
  \A s \in Scenes :
    /\ s.rule.approvals \in Nat /\ s.rule.quorum \in Nat
    /\ s.rule.eligible \subseteq Approvers /\ s.rule.witnesses \subseteq Witnesses
    /\ \A ask \in s.asks : ask.item \in Items

VARIABLES
  scene,        \* chosen at the start and kept
  journal,      \* the policy after each revision
  marks,        \* the checkpoints owners signed
  artifacts,    \* the request artifacts made, numbered by their request
  desk,         \* the artifact in the file each approver was handed
  reading,      \* what each approve command holds while it waits for its answer
  signed,       \* the approvals and denials, with what was on the terminal
  judged,       \* the decisions of the witnesses
  verified,     \* the receipt that was verified: its request and outcome
  hour

evidenceVars == <<scene, journal, marks, artifacts, desk, reading, signed, judged,
                  verified, hour>>

Principals == DOMAIN Roles
ItemSubject(i) == <<i, "item">>
FieldSubject(i, f) == <<i, f>>
HumanRule(rule) == rule.approvals > 0

ReadOps == {"read_stdout", "write_private_file", "template", "child_environment", "child_stdin"}

\* operation_capability: the capability an operation needs.
Needs(op) == CASE op \in ReadOps -> "read"
               [] op = "mutation" -> "write"
               [] OTHER -> "administer"

RoleOf(pol, p) == IF p \in pol.owners THEN "owner" ELSE Roles[p]
Capabilities(role) == CASE role = "none" -> {}
                        [] role = "reader" -> {"read"}
                        [] role = "writer" -> {"read", "write"}
                        [] OTHER -> {"read", "write", "administer"}

(***************************************************************************)
(* Labels and policies.                                                    *)
(***************************************************************************)
LabelFor(subject, text, seq, owner) ==
  [subject |-> subject, text |-> text, seq |-> seq, by |-> owner, issued |-> hour]

\* verify_owner_review_label, for a label without an expiry.
LabelVerifies(pol, label, seq, now) ==
  /\ label.seq = seq
  /\ label.issued <= now + Skew
  /\ label.by \in pol.owners

MutReissue(label, seq, owner) == [label EXCEPT !.seq = seq]

\* prepare_owner_change_policies: the acting owner signs every label anew
\* for the next sequence.
Reissue(label, seq, owner) == LabelFor(label.subject, label.text, seq, owner)

Current == journal[Len(journal)]

\* policy_require_witnessed: the arguments that make a serviceable policy.
RuleServes(rule, fields) ==
  IF HumanRule(rule)
  THEN /\ rule.eligible # {} /\ rule.approvals <= Cardinality(rule.eligible)
       /\ (rule.ops \cap (ReadOps \union {"mutation"}) # {} => fields # {})
  ELSE rule.eligible = {} /\ rule.ops = {"read_stdout"} /\ fields # {}

\* The witness policy made for the item: labels when people approve, and
\* otherwise the fields that are read without asking anyone.
WitnessPolicyFor(i, rule, fields, text, owner) ==
  LET seq == Len(journal) + 1
      subjects == {ItemSubject(i)} \union {FieldSubject(i, f) : f \in fields}
  IN [rev |-> Current.wp[i].rev + 1, from |-> seq, rule |-> rule,
      labels |-> IF HumanRule(rule)
                 THEN {LabelFor(s, text[s[2]], seq, owner) : s \in subjects} ELSE {},
      automatic |-> IF HumanRule(rule) THEN {} ELSE subjects,
      targets |-> Cardinality(fields) + 1]

Witnessed(pol, i) == pol.wp[i].rev > 0

RequireWitnessed(owner, i, rule, fields, text) ==
  /\ Len(journal) < scene.policies
  /\ owner \in Current.owners
  /\ RuleServes(rule, fields)
  /\ journal' = Append(journal,
       [Current EXCEPT !.wp[i] = WitnessPolicyFor(i, rule, fields, text, owner),
                       !.revision[i] = @ + 1])
  /\ UNCHANGED <<scene, marks, artifacts, desk, reading, signed, judged, verified, hour>>

\* principal_owner_change: ownership is granted or taken away, and every
\* witness policy gets a successor for the next sequence.
OwnerChange(owner, p) ==
  LET grant == p \notin Current.owners
      seq == Len(journal) + 1
      successor(wp) == IF wp.rev = 0 THEN wp
                       ELSE [wp EXCEPT !.rev = @ + 1, !.from = seq,
                                       !.labels = {Reissue(l, seq, owner) : l \in @}]
  IN /\ Len(journal) < scene.policies
     /\ owner \in Current.owners
     /\ ~grant => p # owner /\ Cardinality(Current.owners) > 1
     /\ journal' = Append(journal,
          [owners |-> IF grant THEN Current.owners \union {p} ELSE Current.owners \ {p},
           wp |-> [i \in Items |-> successor(Current.wp[i])],
           revision |-> [i \in Items |-> Current.revision[i] + 1]])
     /\ UNCHANGED <<scene, marks, artifacts, desk, reading, signed, judged, verified, hour>>

\* Any change of the vault that touches the contents of an item only.
ItemChange(i) ==
  /\ Len(journal) < scene.policies
  /\ journal' = Append(journal, [Current EXCEPT !.revision[i] = @ + 1])
  /\ UNCHANGED <<scene, marks, artifacts, desk, reading, signed, judged, verified, hour>>

\* validate_checkpoint_policy, against the policy at a sequence.
CheckpointValid(seq, mark) == mark.seq = seq /\ mark.by \in journal[seq].owners

\* VaultPolicyCheckpointCreator::create.
CreateCheckpoint(owner) ==
  LET mark == [seq |-> Len(journal), by |-> owner]
  IN /\ owner \in Current.owners
     /\ ~\E m \in marks : m.seq = mark.seq      \* one for each sequence is enough
     /\ marks' = marks \union {mark}
     /\ UNCHANGED <<scene, journal, artifacts, desk, reading, signed, judged, verified, hour>>

(***************************************************************************)
(* Requests.  The manifest says what is to be done and with what on the    *)
(* approvers' screens; the request binds the manifest, the policy, the     *)
(* checkpoint and the witnesses.                                           *)
(***************************************************************************)
LabelEntry(label, rev, nonce) ==
  [subject |-> label.subject, display |-> label.text, label |-> {label},
   rev |-> {rev}, nonce |-> nonce, commitment |-> {}]

\* normalized_presentation_entry: the place is committed to under the nonce.
ExactEntry(place, display, nonce) ==
  [subject |-> <<"path", place>>, display |-> display, label |-> {},
   rev |-> {}, nonce |-> nonce, commitment |-> {<<place, nonce, display>>}]

Fieldwise(ask) == {FieldSubject(ask.item, f) : f \in ask.fields}

\* The subjects that need a label, and the ones the approver's target names:
\* create_single_target names one, create_action the item and its fields,
\* except that standard input is one field.
Labelled(ask) ==
  IF ask.single
  THEN IF ask.fields = {} THEN {ItemSubject(ask.item)} ELSE Fieldwise(ask)
  ELSE {ItemSubject(ask.item)} \union Fieldwise(ask)

Targeted(ask) == IF ask.op = "child_stdin" THEN Fieldwise(ask) ELSE Labelled(ask)

LabelsOn(wp, subject) == {l \in wp.labels : l.subject = subject}

\* human_presentation and the single entry of create_single_target.
HumanPresentation(ask, wp, rev, id) ==
  {LabelEntry(CHOOSE l \in LabelsOn(wp, s) : TRUE, rev, id) : s \in Targeted(ask)}
    \union {ExactEntry("directory", d, id) : d \in ask.directory}
    \union {ExactEntry("sink", d, id) : d \in ask.sink}

Committed(presentation, place) ==
  UNION {e.commitment : e \in {x \in presentation : x.subject = <<"path", place>>}}

\* The presentation of a request that no one reviews is empty, and so are
\* the commitments of its targets.
ManifestFor(p, ask, seq, id) ==
  LET pol == journal[seq]
      wp == pol.wp[ask.item]
      human == HumanRule(wp.rule)
      presentation == IF human THEN HumanPresentation(ask, wp, pol.revision[ask.item], id)
                      ELSE {}
      subjects == IF human \/ ask.single THEN Targeted(ask) ELSE Fieldwise(ask)
  IN [id |-> id, item |-> ask.item, role |-> ask.role,
      rev |-> pol.revision[ask.item], seq |-> seq, wprev |-> wp.rev,
      by |-> p, access |-> RoleOf(pol, p), op |-> ask.op, change |-> ask.change,
      child |-> ask.child,
      targets |-> {[subject |-> s,
                    shown |-> {e \in presentation : e.subject = s}] : s \in subjects},
      directory |-> Committed(presentation, "directory"),
      sink |-> Committed(presentation, "sink"),
      issued |-> hour, expires |-> hour + Lifetime, presentation |-> presentation]

TargetSubjects(m) == {t.subject : t \in m.targets}
WholeItem(m) == TargetSubjects(m) = {ItemSubject(m.item)}

\* validate_workload_shape: what each operation may carry.
WorkloadShape(m) ==
  LET nochild == ~m.child /\ m.directory = {}
  IN CASE m.op = "read_stdout" -> nochild /\ m.sink = {}
       [] m.op = "write_private_file" -> nochild /\ m.sink # {}
       [] m.op = "template" -> m.child /\ m.directory # {}
       [] m.op = "child_environment" -> m.child
       [] m.op = "child_stdin" -> m.child /\ Cardinality(m.targets) = 1
       [] m.op = "mutation" -> nochild /\ m.sink = {}
       [] m.op = "recovery" -> nochild /\ WholeItem(m) /\ m.sink # {}
       [] OTHER -> nochild /\ WholeItem(m) /\ m.sink = {}

ManifestShape(m) ==
  /\ m.issued < m.expires
  /\ \A t \in m.targets : t.subject[1] = m.item
  /\ m.role = "descriptor" => WholeItem(m)
  /\ WorkloadShape(m)

RequestFor(m, mark) ==
  [id |-> m.id, item |-> m.item, role |-> m.role, rev |-> m.rev, seq |-> m.seq,
   wprev |-> m.wprev, by |-> m.by, access |-> m.access, op |-> m.op,
   issued |-> m.issued, expires |-> m.expires, manifest |-> m, checkpoint |-> mark,
   witnesses |-> journal[m.seq].wp[m.item].rule.witnesses]

Repeated == {"id", "item", "role", "rev", "seq", "wprev", "by", "access", "op",
             "issued", "expires"}

\* validate_request_manifest.
RequestManifest(r, m) ==
  /\ r.issued < r.expires /\ Cardinality(r.witnesses) >= 2
  /\ ManifestShape(m)
  /\ \A f \in Repeated : r[f] = m[f]
  /\ r.manifest = m

\* validate_request_policy: the request is one this very policy allows.
RequestPolicy(seq, r) ==
  LET pol == journal[seq]
      wp == pol.wp[r.item]
  IN /\ r.seq = seq
     /\ Witnessed(pol, r.item) /\ wp.from <= seq
     /\ r.wprev = wp.rev /\ r.op \in wp.rule.ops
     /\ r.expires - r.issued <= Lifetime
     /\ Needs(r.op) \in Capabilities(RoleOf(pol, r.by)) /\ r.access = RoleOf(pol, r.by)
     /\ r.witnesses = wp.rule.witnesses
     /\ r.rev = pol.revision[r.item]

\* validate_owner_change_context.
OwnerChangeAllowed(seq, by, change) ==
  \A c \in change :
    LET owners == journal[seq].owners
    IN /\ by \in owners
       /\ IF c[1] = "grant" THEN c[2] \notin owners
          ELSE c[2] \in owners /\ c[2] # by /\ Cardinality(owners) > 1

\* validate_automatic_rule: what is read without asking anyone was listed.
AutomaticRule(m, wp) ==
  HumanRule(wp.rule) \/ /\ m.op = "read_stdout"
                        /\ TargetSubjects(m) \subseteq wp.automatic
                        /\ (m.role = "descriptor" <=> WholeItem(m))

\* validate_public_request.
PublicRequest(seq, mark, r, m) ==
  /\ RequestManifest(r, m)
  /\ CheckpointValid(seq, mark)
  /\ r.seq = mark.seq /\ r.checkpoint = mark
  /\ RequestPolicy(seq, r) /\ OwnerChangeAllowed(seq, r.by, m.change)
  /\ Cardinality(m.targets) <= journal[seq].wp[r.item].targets
  /\ AutomaticRule(m, journal[seq].wp[r.item])

(***************************************************************************)
(* What an approver is shown.                                              *)
(***************************************************************************)
\* ApprovalPresentationEntryV1::validate_shape.
EntryShape(e) ==
  IF e.subject[1] = "path" THEN e.commitment # {} /\ e.rev = {} /\ e.label = {}
  ELSE /\ e.commitment = {} /\ e.rev # {}
       /\ \E l \in e.label : l.subject = e.subject /\ l.text = e.display

\* validate_manifest_presentation: every target is opened by the one entry
\* it commits to, and nothing else is on the screen.
ManifestPresentation(m, presentation) ==
  /\ \A e \in presentation : EntryShape(e)
  /\ presentation = m.presentation
  /\ IF HumanRule(journal[m.seq].wp[m.item].rule)
     THEN /\ \A t \in m.targets :
               Cardinality(t.shown) = 1 /\ t.shown = {e \in presentation : e.subject = t.subject}
          /\ Committed(presentation, "directory") = m.directory
          /\ Committed(presentation, "sink") = m.sink
          /\ Cardinality(presentation) =
               Cardinality(m.targets) + Cardinality(m.directory) + Cardinality(m.sink)
     ELSE presentation = {} /\ \A t \in m.targets : t.shown = {}

\* validate_policy_authenticated_presentation.
PresentationAuthentic(seq, a, now) ==
  LET wp == journal[seq].wp[a.request.item]
  IN /\ PublicRequest(seq, a.mark, a.request, a.manifest)
     /\ a.request.issued <= now + Skew /\ now < a.request.expires
     /\ ManifestPresentation(a.manifest, a.presentation)
     /\ a.labels = wp.labels
     /\ \A l \in a.labels : LabelVerifies(journal[seq], l, wp.from, now)
     /\ \A e \in a.presentation :
          /\ e.rev \subseteq {a.request.rev}
          /\ e.label \subseteq a.labels
          /\ e.commitment \subseteq {<<e.subject[2], e.nonce, e.display>>}

\* render_complete_approval_review: a field's entry does not show the item,
\* so the item's label is shown beside it.
ItemLabels(a) ==
  IF ~\E e \in a.presentation : e.subject = ItemSubject(a.request.item)
  THEN {l \in a.labels : l.subject = ItemSubject(a.request.item)} ELSE {}

Renders(seq, a, now) ==
  /\ PresentationAuthentic(seq, a, now)
  /\ HumanRule(journal[seq].wp[a.request.item].rule) =>
       \/ \E e \in a.presentation : e.subject = ItemSubject(a.request.item)
       \/ ItemLabels(a) # {}

Screen(a) == {<<e.subject, e.display>> : e \in a.presentation}
               \union {<<l.subject, l.text>> : l \in ItemLabels(a)}

\* WitnessRequestCreator: the artifact made, and the creator's own checks of
\* it, the same that approvers and witnesses make.
ArtifactFor(p, ask, seq, mark, id) ==
  LET m == ManifestFor(p, ask, seq, id)
  IN [request |-> RequestFor(m, mark), manifest |-> m, presentation |-> m.presentation,
      labels |-> journal[seq].wp[ask.item].labels, mark |-> mark]

Creatable(p, ask, seq, mark, id) ==
  LET wp == journal[seq].wp[ask.item]
  IN /\ CheckpointValid(seq, mark)
     /\ Witnessed(journal[seq], ask.item) /\ ask.op \in wp.rule.ops
     /\ RoleOf(journal[seq], p) # "none"
     /\ ask.single \/ ask.fields # {}
     /\ ask.op = "child_stdin" => Cardinality(ask.fields) = 1
     /\ HumanRule(wp.rule) => \A s \in Labelled(ask) : LabelsOn(wp, s) # {}
     /\ PresentationAuthentic(seq, ArtifactFor(p, ask, seq, mark, id), hour)

CreateRequest(p, ask, seq, mark) ==
  LET id == Len(artifacts) + 1
  IN /\ id <= scene.requests
     /\ Creatable(p, ask, seq, mark, id)
     /\ artifacts' = Append(artifacts, ArtifactFor(p, ask, seq, mark, id))
     /\ UNCHANGED <<scene, journal, marks, desk, reading, signed, judged, verified, hour>>

(***************************************************************************)
(* Approvals.  The approve command reads the vault and the file once,      *)
(* shows what it read, waits for the person to type the answer, and only   *)
(* then unlocks the identity, checks everything again and signs.           *)
(***************************************************************************)
HandOver(ap, n) ==
  /\ desk[ap] # n
  /\ desk' = [desk EXCEPT ![ap] = n]
  /\ UNCHANGED <<scene, journal, marks, artifacts, reading, signed, judged, verified, hour>>

Show(ap, seq, lag) ==
  /\ reading[ap] = {} /\ desk[ap] # 0
  /\ Renders(seq, artifacts[desk[ap]], hour - lag)
  /\ reading' = [reading EXCEPT ![ap] =
       {[file |-> desk[ap], seq |-> seq, lag |-> lag, screen |-> Screen(artifacts[desk[ap]])]}]
  /\ UNCHANGED <<scene, journal, marks, artifacts, desk, signed, judged, verified, hour>>

MutReviewedFile(ap, held) == desk[ap]

\* The artifact that is signed for is the one in memory.
ReviewedFile(ap, held) == held.file

RequestOf(n) == artifacts[n].request
RuleOf(n) == journal[RequestOf(n).seq].wp[RequestOf(n).item].rule

\* validate_approval_against_policy.
ApprovalValid(n, d) ==
  /\ d.request = n /\ d.presentation = artifacts[n].manifest.presentation
  /\ d.by \in RuleOf(n).eligible
  /\ RequestOf(n).issued <= d.issued /\ d.issued < d.expires
  /\ d.expires <= RequestOf(n).expires

\* approve_request after the prompt, with ApprovalDecisionCreator::create.
Sign(ap, verdict) ==
  \E held \in reading[ap] :
    LET n == ReviewedFile(ap, held)
        now == hour - held.lag
        d == [request |-> n, presentation |-> artifacts[n].manifest.presentation,
              by |-> ap, verdict |-> verdict, issued |-> now,
              expires |-> RequestOf(n).expires, screen |-> held.screen]
    IN /\ Cardinality(signed) < scene.signatures
       /\ Renders(held.seq, artifacts[n], now)
       /\ HumanRule(RuleOf(n))
       /\ RequestOf(n).issued <= now
       /\ ApprovalValid(n, d)
       /\ signed' = signed \union {d}
       /\ reading' = [reading EXCEPT ![ap] = {}]
       /\ UNCHANGED <<scene, journal, marks, artifacts, desk, judged, verified, hour>>

\* Not confirmed, the wrong identity, or turned away by the second check.
LeaveReview(ap) ==
  /\ reading[ap] # {}
  /\ reading' = [reading EXCEPT ![ap] = {}]
  /\ UNCHANGED <<scene, journal, marks, artifacts, desk, signed, judged, verified, hour>>

(***************************************************************************)
(* Witnesses and receipts.                                                 *)
(***************************************************************************)
By(documents, verdict) == {d.by : d \in {x \in documents : x.verdict = verdict}}

\* A witness decides once on a request, from the approvals it was given.
Judge(w, n, given) ==
  LET r == RequestOf(n)
      approving == By(given, "approve") \ By(given, "deny")
      open == RuleOf(n).eligible \ {d.by : d \in given}
      verdict == IF hour < r.expires /\ Cardinality(approving) >= RuleOf(n).approvals
                 THEN "approve" ELSE "deny"
  IN /\ w \in r.witnesses /\ ~\E d \in judged : d.by = w /\ d.request = n
     /\ \A d \in given : ApprovalValid(n, d) /\ d.issued <= hour + Skew
     /\ verdict = "deny" =>
          \/ hour >= r.expires
          \/ Cardinality(approving) + Cardinality(open) < RuleOf(n).approvals
     /\ judged' = judged \union {[request |-> n, by |-> w, verdict |-> verdict]}
     /\ UNCHANGED <<scene, journal, marks, artifacts, desk, reading, signed, verified, hour>>

\* validate_approvals and validate_witness_decisions: a signer the policy
\* describes, on what, and when (a witness decides after the request was made).
ApprovalInScope(d, n) ==
  /\ d.request = n /\ d.presentation = artifacts[n].manifest.presentation
  /\ d.expires <= RequestOf(n).expires /\ RequestOf(n).issued <= d.issued + Skew
  /\ d.by \in Approvers

DecisionInScope(d, n) == d.request = n /\ d.by \in Witnesses

\* Only those who count have to be in the rule.
CountedInRule(rc) ==
  /\ By(rc.approvals, "approve") \subseteq RuleOf(rc.request).eligible
  /\ By(rc.decisions, "approve") \subseteq RuleOf(rc.request).witnesses

OnePerSigner(documents) == \A d, e \in documents : d.by = e.by => d = e

MutQuorum(rc) ==
  /\ Cardinality(By(rc.approvals, "approve")) >= RuleOf(rc.request).approvals
  /\ Cardinality(rc.decisions) >= RuleOf(rc.request).quorum

Quorum(rc) ==
  /\ Cardinality(By(rc.approvals, "approve")) >= RuleOf(rc.request).approvals
  /\ Cardinality(By(rc.decisions, "approve")) >= RuleOf(rc.request).quorum

\* verify_witness_receipt: seq is the policy embedded in the receipt.
ReceiptVerifies(rc) ==
  LET r == RequestOf(rc.request)
  IN /\ OnePerSigner(rc.approvals) /\ OnePerSigner(rc.decisions)
     /\ r.issued <= rc.issued + Skew
     /\ rc.outcome = "Approved" => rc.issued < r.expires
     /\ RequestPolicy(rc.seq, r)
     /\ CheckpointValid(rc.seq, rc.mark) /\ rc.mark = r.checkpoint
     /\ \A d \in rc.approvals : ApprovalInScope(d, rc.request)
     /\ \A d \in rc.decisions : DecisionInScope(d, rc.request)
     /\ CountedInRule(rc)
     /\ (rc.outcome = "Approved") = Quorum(rc)

\* receipt_verify, of whatever documents someone put together.  Nothing in
\* it depends on the time, and documents are only ever added, so it is
\* enough to verify at the end.
VerifyReceipt(rc) ==
  /\ hour = scene.hours /\ verified = {} /\ \A ap \in Approvers : reading[ap] = {}
  /\ ReceiptVerifies(rc)
  /\ verified' = {[request |-> rc.request, outcome |-> rc.outcome]}
  /\ UNCHANGED <<scene, journal, marks, artifacts, desk, reading, signed, judged, hour>>

Pass == /\ hour < scene.hours /\ hour' = hour + 1
        /\ UNCHANGED <<scene, journal, marks, artifacts, desk, reading, signed, judged, verified>>

Unwitnessed == [rev |-> 0, from |-> 0, labels |-> {}, automatic |-> {}, targets |-> 0,
                rule |-> [approvals |-> 0, eligible |-> {}, witnesses |-> {}, quorum |-> 2,
                          ops |-> {}]]

EvidenceInit ==
  /\ scene \in Scenes
  /\ journal = <<[owners |-> FirstOwners, wp |-> [i \in Items |-> Unwitnessed],
                  revision |-> [i \in Items |-> 1]]>>
  /\ marks = {} /\ artifacts = <<>>
  /\ desk = [ap \in Approvers |-> 0] /\ reading = [ap \in Approvers |-> {}]
  /\ signed = {} /\ judged = {} /\ verified = {} /\ hour = 0

Change ==
  \/ \E o \in Principals, i \in Items, text \in scene.texts :
       RequireWitnessed(o, i, scene.rule, scene.fields, text)
  \/ \E o \in Principals, p \in scene.candidates : OwnerChange(o, p)
  \/ \E i \in Items : Witnessed(Current, i) /\ ItemChange(i)
  \/ \E o \in Principals : CreateCheckpoint(o)

Ask ==
  \E p \in scene.askers, ask \in scene.asks, seq \in DOMAIN journal, mark \in marks :
    CreateRequest(p, ask, seq, mark)

Approve ==
  \E ap \in scene.rule.eligible :
    \/ \E n \in DOMAIN artifacts : HandOver(ap, n)
    \/ \E seq \in DOMAIN journal, lag \in scene.lags : Show(ap, seq, lag)
    \/ \E verdict \in scene.verdicts : Sign(ap, verdict)
    \/ LeaveReview(ap)

Decide ==
  \E w \in Witnesses, n \in DOMAIN artifacts, given \in SUBSET signed : Judge(w, n, given)

Verify ==
  \E n \in DOMAIN artifacts, approvals \in SUBSET signed, decisions \in SUBSET judged,
     outcome \in {"Approved", "Denied"}, seq \in DOMAIN journal, mark \in marks,
     issued \in {0, scene.hours} :
    VerifyReceipt([request |-> n, approvals |-> approvals,
                   decisions |-> decisions, outcome |-> outcome, seq |-> seq,
                   mark |-> mark, issued |-> issued])

EvidenceNext == Change \/ Ask \/ Approve \/ Decide \/ Verify \/ Pass

EvidenceSpec == EvidenceInit /\ [][EvidenceNext]_evidenceVars

-----------------------------------------------------------------------------
\* What a person approved or denied is what was on the terminal when they
\* were asked: the item, exactly the fields and places of the request that
\* carries their signature, under the names the owner gave them in the
\* policy the request is bound to, whatever happened to the vault and to the
\* file while the command waited (approve_request, support.rs:145).
ShownIsSigned ==
  \A s \in signed :
    LET r == RequestOf(s.request)
        m == artifacts[s.request].manifest
        places == m.directory \union m.sink
        labels == journal[r.seq].wp[r.item].labels
    IN /\ {d[1] : d \in s.screen} = TargetSubjects(m) \union {ItemSubject(r.item)}
                                      \union {<<"path", c[1]>> : c \in places}
       /\ \A d \in s.screen :
            \/ \E l \in labels : l.subject = d[1] /\ l.text = d[2]
            \/ \E c \in places : d[1] = <<"path", c[1]>> /\ d[2] = c[3]
       /\ s.by \in RuleOf(s.request).eligible

\* A receipt that verifies as approved, however its documents were put
\* together, is about a request that enough eligible approvers approved at
\* their terminals and enough of its witnesses approved
\* (verify_witness_receipt, witness_receipt.rs:267).
ReceiptSound ==
  \A rc \in verified :
    LET about(documents) == {d \in documents : d.request = rc.request}
        rule == RuleOf(rc.request)
    IN rc.outcome = "Approved" =>
         /\ Cardinality(By(about(signed), "approve") \cap rule.eligible) >= rule.approvals
         /\ Cardinality(By(about(judged), "approve") \cap rule.witnesses) >= rule.quorum

\* The asks whose subjects the policy of the item names, of a principal.
NamedIn(p, ask) ==
  LET wp == Current.wp[ask.item]
  IN /\ Witnessed(Current, ask.item) /\ ask.op \in wp.rule.ops
     /\ Needs(ask.op) \in Capabilities(RoleOf(Current, p))
     /\ OwnerChangeAllowed(Len(journal), p, ask.change)
     /\ IF HumanRule(wp.rule)
        THEN Labelled(ask) \subseteq {l.subject : l \in wp.labels}
        ELSE (IF ask.single THEN Labelled(ask) ELSE Fieldwise(ask)) \subseteq wp.automatic

\* However ownership and items change, what an owner has put under witnesses
\* can still be asked for by whoever may have it: the request passes its own
\* checks and every approver whose clock is within the accepted skew gets to
\* see it.  Labels are signed by one owner for one sequence, so a change of
\* owners has to sign them all again (prepare_owner_change_policies).
NamedStaysAskable ==
  artifacts = <<>> =>      \* it depends on the journal and the hour alone
  \A p \in Principals, ask \in scene.asks, o \in Current.owners :
    LET mark == [seq |-> Len(journal), by |-> o]
    IN NamedIn(p, ask) =>
         /\ Creatable(p, ask, Len(journal), mark, 1)
         /\ \A now \in (hour - Skew)..hour :
              Renders(Len(journal), ArtifactFor(p, ask, Len(journal), mark, 1), now)
===============================================================================
