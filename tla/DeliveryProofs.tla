--------------------------- MODULE DeliveryProofs ---------------------------
EXTENDS FieldDelivery, FiniteSetTheorems, WellFoundedInduction, TLAPS

-----------------------------------------------------------------------------
(***************************************************************************)
(* Deliveries, for every command line, every vault and everything others   *)
(* do meanwhile.  The properties are about the end of a command; the       *)
(* invariant says at each stage what the command has made sure of by then  *)
(* and that nobody can undo it.                                            *)
(***************************************************************************)
Unopened == {"start", "found", "prepared", "previewed", "loaded", "asked"}
HoldingValues == {"opened", "audit", "output", "ready", "started", "ended"}
DeliveryStages == Unopened \union HoldingValues \union {"over"}
ChildFields == {"kind", "image", "folder", "env", "stdin", "needles", "timeout", "limit", "outcome"}

\* The values are those of the references, from the bodies that were opened.
WholeValues ==
  /\ DOMAIN values = References(task)
  /\ \A r \in References(task) :
       \E i \in opened : values[r] \in Range(Vault[snapshot].items[i].fields)

StageOK ==
  /\ task \in Tasks /\ stage \in DeliveryStages
  /\ stage \in Unopened => opened = {}
  /\ stage \notin {"started", "ended", "over"} => ~Delivered
  /\ stage \notin {"ended", "over"} => shown = {}
  /\ stage # "over" => told = Idle
  /\ stage \in {"found", "ready", "started", "ended"} \/ child # Idle => Executes(task)
  /\ stage \in {"asked", "opened"} => Governed(task)
  /\ stage \in {"audit", "output"} => ~Executes(task)
  /\ (stage \notin {"start", "over"} /\ Executes(task)) => BindingsValid(task)
  /\ stage = "asked" => request.item = TargetItems(task)
  /\ stage \in {"started", "ended"} => DOMAIN child = ChildFields
  /\ stage = "started" => child.needles = Needles(task)

ValuesOK == stage \in HoldingValues \/ Delivered => WholeValues

ReceiptOK ==
  Governed(task) /\ (stage \in HoldingValues \ {"opened"} \/ Delivered) => receipt = <<"receipt">>

IsTrail(s) == s \in Seq({s[i] : i \in DOMAIN s})
Succeeded(s) == \E e \in Range(s) : e.outcome = "Success"

TrailOK ==
  /\ IsTrail(trail)
  /\ stage = "output" /\ (~Governed(task) \/ task.kind = "inject") => Succeeded(trail)

DeliveryInv == StageOK /\ ValuesOK /\ ReceiptOK /\ TrailOK /\ AllOrNothing /\ NothingEscapes

(* What a governed command has made sure of when it asks, and later. *)
PreparedFields == {"path", "program", "cwd", "folder", "timeout", "limit"}

InodesOK ==
  /\ runnable \subseteq Nat \ {0} /\ IsFiniteSet(runnable)
  /\ IsFiniteSet(DOMAIN programs) /\ \A p \in DOMAIN programs : programs[p] \in Nat
  /\ IsFiniteSet(DOMAIN folders) /\ \A d \in DOMAIN folders : folders[d] \in Nat
  /\ Executes(task) => task.cwd \in DOMAIN folders
  /\ prepared.program \in Nat /\ prepared.folder \in Nat

PreparedOK ==
  /\ DOMAIN prepared = PreparedFields
  /\ Executes(task) =>
       /\ stage \notin {"start", "over"} => prepared.folder # 0
       /\ stage \notin {"start", "found", "over"} => prepared.program # 0
       /\ stage \in {"found", "prepared", "previewed", "loaded"} =>
            prepared.timeout = PreparedTimeout(task)

\* The request as ActionFor made it, of what is still there.
Asked ==
  /\ request.revision = snapshot
  /\ request.fields = UNION Range(Targets(task))
  /\ request.stdin = {Targets(task)[r] : r \in task.stdin}
  /\ \A r \in References(task) : Targets(task)[r] # {}
  /\ task.kind = "inject" => request.arguments = TemplateArguments(task)
  /\ Executes(task) =>
       /\ request.executable = <<prepared.path, prepared.program>>
       /\ request.injections = Injections(task)
       /\ request.timeout = prepared.timeout /\ prepared.timeout # {}
       /\ request.limit = prepared.limit

Named(r) == Field(snapshot, CHOOSE x \in Targets(task)[r] : TRUE)

SnapshotOK ==
  /\ latest \in DOMAIN Vault
  /\ stage \in {"loaded", "asked"} => snapshot \in DOMAIN Vault

GovernedOK ==
  Governed(task) =>
    /\ stage \in {"previewed", "loaded", "asked"} \union HoldingValues => GovernedShape(task)
    /\ stage \in {"asked"} \union HoldingValues \/ Delivered => Asked
    /\ stage \in HoldingValues => \A r \in References(task) : values[r] = Named(r)
    /\ Delivered => LabelsAsReviewed /\ ChildAsReviewed /\ OutputAsReviewed

ReviewInv == InodesOK /\ PreparedOK /\ SnapshotOK /\ GovernedOK

\* What ReviewInv speaks of besides the stage.
reviewed == <<task, prepared, snapshot, request, values, outfile, printed, child>>

-----------------------------------------------------------------------------
(* The same state, the same review *)

LEMMA SameTargets ==
    ASSUME UNCHANGED <<task, snapshot>>
    PROVE  Targets(task)' = Targets(task)
BY DEF Targets, Target

LEMMA SameNamed ==
    ASSUME UNCHANGED <<task, snapshot>>, NEW r
    PROVE  Named(r)' = Named(r)
BY DEF Named, Targets, Target

LEMMA SameInjections ==
    ASSUME UNCHANGED <<task, snapshot>>
    PROVE  Injections(task)' = Injections(task)
BY DEF Injections, Targets, Target

LEMMA SameArguments ==
    ASSUME UNCHANGED <<task, snapshot>>
    PROVE  TemplateArguments(task)' = TemplateArguments(task)
BY DEF TemplateArguments, Targets, Target

LEMMA SameReviewed ==
    ASSUME UNCHANGED request, NEW x
    PROVE  Reviewed(x)' = Reviewed(x)
BY DEF Reviewed

LEMMA SameSubstituted ==
    ASSUME UNCHANGED request
    PROVE  Substituted(request.arguments)' = Substituted(request.arguments)
BY DEF Substituted, Reviewed

LEMMA SameLabels ==
    ASSUME UNCHANGED <<task, request>>
    PROVE  LabelsAsReviewed' <=> LabelsAsReviewed
BY DEF LabelsAsReviewed

LEMMA SameChild ==
    ASSUME UNCHANGED <<task, prepared, request, child>>
    PROVE  ChildAsReviewed' <=> ChildAsReviewed
BY DEF ChildAsReviewed, Reviewed

\* The child of the next state, of what it carries.
LEMMA ChildIs ==
    ASSUME UNCHANGED <<task, prepared, request>>,
           child'.kind = "program" => /\ <<prepared.path, child'.image>> = request.executable
                                      /\ child'.image # 0 /\ child'.folder # 0,
           DOMAIN child'.env = {x[1] : x \in request.injections},
           \A x \in request.injections : child'.env[x[1]] = <<Reviewed(x[2])>>,
           child'.stdin = {<<Reviewed(x)>> : x \in request.stdin},
           child'.timeout = request.timeout, child'.timeout # {},
           task.kind = "run" => child'.limit = {request.limit}
    PROVE  ChildAsReviewed'
<1>1. \A x : Reviewed(x)' = Reviewed(x)
  BY Zenon, SameReviewed
<1>2. \A x \in request.injections : child'.env[x[1]] = <<Reviewed(x[2])'>>
  BY Zenon, <1>1
<1>3. {<<Reviewed(x)'>> : x \in request.stdin} = {<<Reviewed(x)>> : x \in request.stdin}
  BY Zenon, <1>1
<1>4. task' = task /\ prepared' = prepared /\ request' = request
  BY Zenon
<1> QED BY ZenonT(60), <1>2, <1>3, <1>4 DEF ChildAsReviewed

LEMMA SameOutput ==
    ASSUME UNCHANGED <<task, request>>,
           UNCHANGED Output \/ Output' \in {Nothing, NoFile, OtherFile}
    PROVE  OutputAsReviewed => OutputAsReviewed'
<1>1. Reviewed(request.fields)' = Reviewed(request.fields)
      /\ Substituted(request.arguments)' = Substituted(request.arguments)
  BY Zenon, SameReviewed, SameSubstituted
<1> QED BY Zenon, <1>1 DEF OutputAsReviewed, WroteOutput

LEMMA SameAsked ==
    ASSUME UNCHANGED <<task, snapshot, request, prepared>>
    PROVE  Asked' <=> Asked
<1>1. /\ Targets(task)' = Targets(task) /\ Injections(task)' = Injections(task)
      /\ TemplateArguments(task)' = TemplateArguments(task)
  BY Zenon, SameTargets, SameInjections, SameArguments
<1> QED BY ZenonT(30), <1>1 DEF Asked

LEMMA SameReview ==
    ASSUME UNCHANGED reviewed
    PROVE  /\ Asked' <=> Asked
           /\ LabelsAsReviewed /\ ChildAsReviewed /\ OutputAsReviewed
                => (LabelsAsReviewed /\ ChildAsReviewed /\ OutputAsReviewed)'
           /\ Delivered' <=> Delivered
           /\ \A r \in References(task) : Named(r)' = Named(r)
           /\ GovernedShape(task)' <=> GovernedShape(task)
           /\ PreparedTimeout(task)' = PreparedTimeout(task)
<1>1. UNCHANGED <<task, prepared, snapshot, request, values, outfile, printed, child>>
  BY Zenon DEF reviewed
<1>2. UNCHANGED Output
  BY Zenon, <1>1 DEF Output
<1>3. Delivered' <=> Delivered
  BY Zenon, <1>1 DEF Delivered
<1> QED BY Zenon, <1>1, <1>2, <1>3, SameAsked, SameLabels, SameChild, SameOutput, SameNamed

-----------------------------------------------------------------------------
(* Numbers and finite sets *)

\* A set of numbers has a least one.
LEMMA LeastNumber ==
    ASSUME NEW N \in SUBSET Nat, N # {}
    PROVE  \E m \in N : \A n \in N : m =< n
<1> DEFINE R == OpToRel(<, Nat)
<1>1. \A x, y \in Nat : x < y => <<x, y>> \in R
  BY DEF OpToRel
<1>2. IsWellFoundedOn(R, Nat)
  BY Zenon, NatLessThanWellFounded
<1> HIDE DEF R
<1>3. PICK m \in N : \A n \in N : <<n, m>> \notin R
  BY Zenon, <1>2, WFMin
<1>4. \A n \in N : ~(n < m)
  BY Zenon, <1>1, <1>3
<1>5. \A n \in N : m =< n
  BY <1>4
<1> QED BY <1>5

\* A finite set of numbers has a greatest one.
LEMMA GreatestNumber ==
    ASSUME NEW S \in SUBSET Nat, IsFiniteSet(S), S # {}
    PROVE  Max(S) \in S
<1> DEFINE Top(T) == \E m \in T : \A y \in T : m >= y
           Bad == {T \in SUBSET S : T # {} /\ ~Top(T)}
           sizes == {Cardinality(T) : T \in Bad}
<1>1. \A T \in SUBSET S : IsFiniteSet(T) /\ Cardinality(T) \in Nat
  BY Zenon, FS_Subset, FS_CardinalityType
<1>2. Bad = {}
  <2> SUFFICES ASSUME Bad # {} PROVE FALSE
    OBVIOUS
  <2>1. sizes \in SUBSET Nat /\ sizes # {}
    BY <1>1
  <2>2. PICK c \in sizes : \A n \in sizes : c =< n
    <3> HIDE DEF sizes
    <3> QED BY ZenonT(60), <2>1, LeastNumber
  <2>3. PICK T \in Bad : c = Cardinality(T)
    BY <2>2
  <2>4. PICK x : x \in T
    BY <2>3
  <2> DEFINE U == T \ {x}
  <2>5. Cardinality(U) = c - 1 /\ U \in SUBSET S /\ c \in Nat /\ x \in Nat
    BY Zenon, <1>1, <2>3, <2>4, FS_RemoveElement
  <2>6. U \notin Bad
    <3>1. U \in Bad => Cardinality(U) \in sizes
      BY Zenon
    <3>2. ~(c =< c - 1)
      BY <2>5
    <3> HIDE DEF U, sizes, Bad
    <3> QED BY <2>2, <2>5, <3>1, <3>2
  <2>7. CASE U = {}
    <3>1. T = {x} /\ x >= x
      BY <2>4, <2>5, <2>7
    <3> QED BY <2>3, <3>1
  <2>8. CASE U # {}
    <3>1. PICK m \in U : \A y \in U : m >= y
      BY <2>5, <2>6, <2>8
    <3>2. m \in Nat /\ m \in T /\ \A y \in T : y \in Nat /\ (y = x \/ y \in U)
      BY <2>3, <2>4, <2>5
    <3>3. CASE m >= x
      <4>1. \A y \in T : m >= y
        BY <3>1, <3>2, <3>3
      <4> QED BY <2>3, <3>2, <4>1
    <3>4. CASE x >= m
      <4>1. \A y \in T : x >= y
        BY <2>5, <3>1, <3>2, <3>4
      <4> QED BY <2>3, <2>4, <4>1
    <3> QED BY <2>5, <3>2, <3>3, <3>4
  <2> QED BY <2>7, <2>8
<1>3. \E m \in S : \A y \in S : m >= y
  BY <1>2
<1> QED BY Zenon, <1>3 DEF Max

\* The image of a finite set is finite.
LEMMA FiniteImage ==
    ASSUME NEW f, IsFiniteSet(DOMAIN f)
    PROVE  IsFiniteSet({f[x] : x \in DOMAIN f})
<1> DEFINE g == [x \in DOMAIN f |-> f[x]]
           T == {f[x] : x \in DOMAIN f}
<1>1. g \in Surjection(DOMAIN f, T)
  BY DEF Surjection
<1> HIDE DEF g, T
<1>2. IsFiniteSet(T)
  BY <1>1, FS_Surjection
<1> QED BY <1>2 DEF T

-----------------------------------------------------------------------------
(* The steps of a governed command *)

\* An inode that is new is one.
LEMMA NewInodeIs ==
    ASSUME InodesOK
    PROVE  NewInode \in Nat \ {0}
<1> DEFINE A == {programs[p] : p \in DOMAIN programs}
           B == {folders[d] : d \in DOMAIN folders}
           C == {prepared.program, prepared.folder}
           S == A \union B \union runnable \union C
<1>1. IsFiniteSet(A) /\ IsFiniteSet(B) /\ IsFiniteSet(runnable) /\ A \subseteq Nat /\ B \subseteq Nat
      /\ runnable \subseteq Nat /\ C \subseteq Nat
  BY FiniteImage DEF InodesOK
<1>2. IsFiniteSet(C)
  <2>1. IsFiniteSet({prepared.program} \union {prepared.folder})
    BY Zenon, FS_Singleton, FS_AddElement
  <2>2. C = {prepared.program} \union {prepared.folder}
    OBVIOUS
  <2> QED BY <2>1, <2>2
<1>3. S # {}
  OBVIOUS
<1> HIDE DEF A, B, C
<1>4. IsFiniteSet(S)
  BY Zenon, <1>1, <1>2, FS_Union
<1>5. Max(S) \in S
  BY <1>1, <1>3, <1>4, GreatestNumber
<1>6. Max(S) \in Nat
  BY Zenon, <1>1, <1>5
<1>7. NewInode = 1 + Max(S)
  BY DEF NewInode, Range, A, B, C
<1> HIDE DEF S
<1> QED BY <1>6, <1>7

\* Labels identify at most one item and one field.
LEMMA LabelsFinite ==
    ASSUME NEW r \in DOMAIN Vault, NEW i, NEW text
    PROVE  IsFiniteSet(LabelledItems(r, text)) /\ IsFiniteSet(LabelledFields(r, i, text))
<1> DEFINE A == {x \in Vault[r].labels : x.field = 0 /\ x.text = text}
           B == {x \in Vault[r].labels : x.item = i /\ x.field # 0 /\ x.text = text}
           f == [l \in A |-> l.item]
           g == [l \in B |-> l.field]
<1>1. IsFiniteSet(A) /\ IsFiniteSet(B)
  BY VaultAssumption, FS_Subset
<1>2. DOMAIN f = A /\ DOMAIN g = B
  OBVIOUS
<1>3. LabelledItems(r, text) = {f[l] : l \in DOMAIN f}
  BY Zenon DEF LabelledItems
<1>4. LabelledFields(r, i, text) = {g[l] : l \in DOMAIN g}
  BY Zenon DEF LabelledFields
<1> HIDE DEF f, g
<1> QED BY <1>1, <1>2, <1>3, <1>4, FiniteImage

\* A reference that is resolved is resolved to one target.
LEMMA OneTarget ==
    ASSUME task \in Tasks, snapshot \in DOMAIN Vault,
           NEW r \in References(task), Targets(task)[r] # {}
    PROVE  \E x : Targets(task)[r] = {x}
<1>1. Targets(task)[r] = Target(snapshot, task, r)
  BY DEF Targets
<1>2. CASE task.byId # {}
  <2>1. IsFiniteSet(task.byId) /\ Cardinality(task.byId) =< 1 /\ Cardinality(task.byId) # 0
        /\ Cardinality(task.byId) \in Nat
    BY <1>2, TasksAssumption, FS_EmptySet, FS_CardinalityType
  <2>2. Cardinality(task.byId) = 1
    BY <2>1
  <2> QED BY Zenon, <1>1, <1>2, <2>1, <2>2, FS_Singleton DEF Target
<1>3. CASE task.byId = {}
  <2>1. Targets(task)[r] = RequestTarget(snapshot, r)
    BY <1>1, <1>3 DEF Target
  <2>2. PICK x \in RequestTarget(snapshot, r) : TRUE
    BY <2>1
  <2>3. Cardinality(LabelledItems(snapshot, r[1])) = 1
    BY <2>2 DEF RequestTarget
  <2>4. PICK i : LabelledItems(snapshot, r[1]) = {i}
    BY Zenon, <2>3, LabelsFinite, FS_Singleton
  <2>5. \A y \in RequestTarget(snapshot, r) :
          /\ y \in {i} \X LabelledFields(snapshot, i, r[2])
          /\ Cardinality(LabelledFields(snapshot, y[1], r[2])) = 1
    BY <2>4 DEF RequestTarget
  <2>6. Cardinality(LabelledFields(snapshot, i, r[2])) = 1
    BY <2>2, <2>5
  <2>7. PICK f : LabelledFields(snapshot, i, r[2]) = {f}
    BY Zenon, <2>6, LabelsFinite, FS_Singleton
  <2>8. \A y \in RequestTarget(snapshot, r) : y = <<i, f>>
    BY <2>5, <2>7
  <2>9. Targets(task)[r] = {<<i, f>>}
    BY <2>1, <2>2, <2>8
  <2> QED BY Zenon, <2>9
<1> QED BY <1>2, <1>3

\* The values found are those of the targets asked about.
LEMMA FoundIsNamed ==
    ASSUME task \in Tasks, snapshot \in DOMAIN Vault,
           NEW r \in References(task), GovernedTarget(r) # {}
    PROVE  Resolved([q \in References(task) |-> GovernedTarget(q)])[r] = Named(r)
<1>1. GovernedTarget(r) \subseteq Targets(task)[r]
  BY DEF GovernedTarget
<1>2. PICK x : Targets(task)[r] = {x}
  BY <1>1, OneTarget
<1>3. GovernedTarget(r) = Targets(task)[r]
  BY <1>1, <1>2
<1> QED BY Zenon, <1>3 DEF Resolved, Named

\* What two sequences in a row hold, one of them holds.
LEMMA InConcatenation ==
    ASSUME NEW s, NEW t, s \in Seq(Range(s)), t \in Seq(Range(t)), NEW b \in Range(s \o t)
    PROVE  b \in Range(s) \/ b \in Range(t)
<1> DEFINE S == Range(s)
           T == Range(t)
<1>1. s \in Seq(S) /\ t \in Seq(T)
  OBVIOUS
<1> HIDE DEF S, T
<1>2. s \in Seq(S \union T) /\ t \in Seq(S \union T)
  BY <1>1
<1>3. PICK i \in DOMAIN (s \o t) : b = (s \o t)[i]
  BY DEF Range
<1>4. Len(s) \in Nat /\ Len(t) \in Nat /\ i \in 1 .. Len(s) + Len(t)
  BY <1>2, <1>3
<1>5. CASE i =< Len(s)
  BY <1>2, <1>3, <1>4, <1>5 DEF Range
<1>6. CASE i > Len(s)
  <2>1. i - Len(s) \in DOMAIN t /\ b = t[i - Len(s)]
    BY <1>2, <1>3, <1>4, <1>6
  <2> QED BY <2>1 DEF Range
<1> QED BY <1>4, <1>5, <1>6

\* A variable carries the value of the target it was asked for.
LEMMA EnvironmentReviewed ==
    ASSUME task \in Tasks, Executes(task), Governed(task), BindingsValid(task), GovernedShape(task), Asked,
           \A r \in References(task) : values[r] = Named(r)
    PROVE  /\ DOMAIN ChildEnvironment(task) = {x[1] : x \in request.injections}
           /\ \A x \in request.injections : ChildEnvironment(task)[x[1]] = <<Reviewed(x[2])>>
           /\ ChildStdin(task) = {<<Reviewed(x)>> : x \in request.stdin}
<1> DEFINE all == task.env \o task.files
           mapped == Range(all)
           names == {b[1] : b \in mapped}
           env == ChildEnvironment(task)
<1>0. References(task) = BoundReferences(task)
  BY DEF References, Executes
<1>1. Inherited(task) = {}
  BY DEF Inherited
<1>2. /\ DOMAIN env = names
      /\ \A n \in names : env[n] = Carried((CHOOSE b \in mapped : b[1] = n)[2])
  BY SMTT(30), <1>1 DEF ChildEnvironment
<1>3. request.injections = {<<b[1], Targets(task)[b[2]]>> : b \in mapped}
  BY Zenon DEF Asked, Injections
<1>4. ASSUME NEW b \in mapped, NEW c \in mapped, b[1] = c[1] PROVE b = c
  <2>1. PICK i \in DOMAIN all : b = all[i]
    BY Zenon DEF Range
  <2>2. PICK j \in DOMAIN all : c = all[j]
    BY Zenon DEF Range
  <2>3. BindingNames(task)[i] = b[1] /\ BindingNames(task)[j] = c[1] /\ DOMAIN BindingNames(task) = DOMAIN all
    BY <2>1, <2>2 DEF BindingNames
  <2>4. i = j
    BY Zenon, <1>4, <2>3 DEF BindingsValid, IsInjective
  <2> QED BY <2>1, <2>2, <2>4
<1>5. ASSUME NEW r \in References(task) PROVE <<values[r].value>> = <<Reviewed(Targets(task)[r])>>
  BY DEF Asked, Named, Reviewed
<1>6. ASSUME NEW b \in mapped PROVE b[2] # LiteralSource
  <2>1. b \in Range(task.env) \/ b \in Range(task.files)
    BY TasksAssumption, InConcatenation
  <2> QED BY <2>1, TasksAssumption DEF GovernedShape
<1>7. ASSUME NEW b \in mapped PROVE b[2] \in References(task)
  BY <1>0, <1>6 DEF BoundReferences
<1>8. ASSUME NEW b \in mapped PROVE env[b[1]] = <<Reviewed(Targets(task)[b[2]])>>
  <2>1. (CHOOSE c \in mapped : c[1] = b[1]) = b
    BY <1>4
  <2>2. b[1] \in names
    OBVIOUS
  <2>3. env[b[1]] = Carried(b[2])
    BY <1>2, <2>1, <2>2
  <2> QED BY <1>5, <1>6, <1>7, <2>3 DEF Carried
<1>9. ChildStdin(task) = {<<Reviewed(x)>> : x \in request.stdin}
  <2>1. request.stdin = {Targets(task)[r] : r \in task.stdin}
    BY DEF Asked
  <2>2. \A r \in task.stdin : r \in References(task)
    BY <1>0, TasksAssumption DEF BoundReferences
  <2>3. ChildStdin(task) = {<<values[r].value>> : r \in task.stdin}
    BY DEF ChildStdin
  <2> QED BY <1>5, <2>1, <2>2, <2>3
<1> HIDE DEF mapped, env
<1>10. \A x \in request.injections : env[x[1]] = <<Reviewed(x[2])>>
  BY <1>3, <1>8
<1>11. DOMAIN env = {x[1] : x \in request.injections}
  <2>1. ASSUME NEW x \in request.injections PROVE x[1] \in names
    BY <1>3
  <2>2. ASSUME NEW n \in names PROVE \E x \in request.injections : n = x[1]
    <3>1. PICK b \in mapped : n = b[1]
      OBVIOUS
    <3>2. <<b[1], Targets(task)[b[2]]>> \in request.injections
      BY <1>3
    <3> QED BY <3>1, <3>2
  <2> QED BY <1>2, <2>1, <2>2
<1> QED BY Zenon, <1>9, <1>10, <1>11 DEF env

\* A label that was typed is among the fields asked for.
LEMMA LabelsReviewed ==
    ASSUME Asked, NEW r \in References(task), task.byId = {}
    PROVE  RequestTarget(request.revision, r) \subseteq request.fields
<1>1. Targets(task)[r] = RequestTarget(request.revision, r) /\ r \in DOMAIN Targets(task)
  BY DEF Asked, Targets, Target
<1> QED BY <1>1 DEF Asked, Range

\* A step of the command that only moves on.
LEMMA QuietReview ==
    ASSUME ReviewInv, UNCHANGED reviewed, UNCHANGED world, stage # "over",
           stage' = "found" => stage' = stage,
           stage' \in {"prepared", "previewed", "loaded"} /\ Executes(task) =>
             stage \in {"prepared", "previewed", "loaded"},
           stage' \in {"previewed", "loaded", "asked"} /\ Governed(task) => GovernedShape(task),
           stage' \in {"loaded", "asked"} => stage' = stage,
           stage' \in HoldingValues =>
             stage \in HoldingValues \/ (~Governed(task) /\ stage \notin {"start", "found", "over"}),
           stage' \in DeliveryStages \ {"start"}
    PROVE  ReviewInv'
<1> USE DEF world, reviewed
<1>1. InodesOK' /\ SnapshotOK'
  BY DEF ReviewInv, InodesOK, SnapshotOK
<1>2. PreparedOK'
  BY SameReview DEF ReviewInv, PreparedOK, DeliveryStages, Unopened, HoldingValues
<1>3. GovernedOK'
  BY SameReview DEF ReviewInv, GovernedOK, DeliveryStages, Unopened, HoldingValues
<1> QED BY <1>1, <1>2, <1>3 DEF ReviewInv

\* The steps that move on, and the ends.
LEMMA MovesReviewed ==
    ASSUME DeliveryInv, ReviewInv,
           CheckSink \/ Preview \/ OpenItems \/ PublishGoverned \/ AuditOutput \/ RecordRun \/ Kill
    PROVE  ReviewInv'
<1>0. task \in Tasks /\ (task.direct \in BOOLEAN) /\ (Governed(task) <=> ~task.direct)
  BY TasksAssumption DEF DeliveryInv, StageOK, Governed
<1>1. CASE CheckSink
  <2>1. UNCHANGED reviewed /\ UNCHANGED world /\ stage = "start" /\ ~Executes(task) /\ stage' \in {"prepared", "over"}
    BY <1>1 DEF CheckSink, reviewed, results, End
  <2> QED BY <2>1, QuietReview DEF DeliveryStages, Unopened, HoldingValues
<1>2. CASE Preview
  <2>1. UNCHANGED reviewed /\ UNCHANGED world /\ stage = "prepared"
        /\ ((stage' = "previewed" /\ GovernedShape(task)) \/ stage' = "over")
    BY <1>2 DEF Preview, reviewed, results, End
  <2> QED BY <2>1, QuietReview DEF DeliveryStages, Unopened, HoldingValues
<1>3. CASE OpenItems
  <2>1. /\ UNCHANGED <<task, prepared, snapshot, request, outfile, printed, child>> /\ UNCHANGED world
        /\ stage = "loaded" /\ ~Governed(task) /\ stage' \in {"ready", "audit", "over"}
    BY <1>3 DEF OpenItems, RefuseDirect, results, End
  <2>2. InodesOK' /\ SnapshotOK' /\ GovernedOK'
    BY Zenon, <2>1 DEF ReviewInv, InodesOK, SnapshotOK, GovernedOK, world
  <2>3. PreparedOK'
    BY <2>1 DEF ReviewInv, PreparedOK
  <2> QED BY <2>2, <2>3 DEF ReviewInv
<1>4. CASE PublishGoverned
  <2>1. UNCHANGED reviewed /\ UNCHANGED world /\ stage = "opened" /\ stage' \in {"ready", "audit", "output", "over"}
    BY <1>0, <1>4, TasksAssumption DEF PublishGoverned, reviewed, results, End, Executes
  <2> QED BY <2>1, QuietReview DEF DeliveryStages, Unopened, HoldingValues
<1>5. CASE AuditOutput
  <2>1. UNCHANGED reviewed /\ UNCHANGED world /\ stage = "audit" /\ stage' \in {"output", "over"}
    BY <1>5 DEF AuditOutput, reviewed, End
  <2> QED BY <2>1, QuietReview DEF DeliveryStages, Unopened, HoldingValues
<1>6. CASE RecordRun
  <2>1. UNCHANGED reviewed /\ UNCHANGED world /\ stage = "ended" /\ stage' = "over"
    BY Zenon, <1>6 DEF RecordRun, reviewed
  <2> QED BY <2>1, QuietReview DEF DeliveryStages, Unopened, HoldingValues
<1>7. CASE Kill
  <2>1. UNCHANGED reviewed /\ UNCHANGED world /\ stage # "over" /\ stage' = "over"
    BY <1>7 DEF Kill, reviewed, results, End
  <2> QED BY <2>1, QuietReview DEF DeliveryStages, Unopened, HoldingValues
<1> QED BY <1>1, <1>2, <1>3, <1>4, <1>5, <1>6, <1>7

\* The program and the directory that were opened are there.
LEMMA PreparingReviewed ==
    ASSUME DeliveryInv, ReviewInv, Prepare \/ OpenProgram
    PROVE  ReviewInv'
<1>1. UNCHANGED <<task, snapshot, request, values, outfile, printed, child>> /\ UNCHANGED world /\ ~Delivered
      /\ stage \in {"start", "found"} /\ Executes(task) /\ stage' \in {"found", "prepared", "over"}
      /\ task \in Tasks
  BY DEF Prepare, OpenProgram, results, End, DeliveryInv, StageOK
<1>2. ~Delivered'
  BY <1>1 DEF Delivered
<1>3. SnapshotOK' /\ GovernedOK'
  BY <1>1, <1>2 DEF ReviewInv, SnapshotOK, GovernedOK, world, HoldingValues
<1>4. InodesOK' /\ PreparedOK'
  <2>1. CASE UNCHANGED prepared /\ stage' = "over"
    BY <1>1, <2>1 DEF ReviewInv, InodesOK, PreparedOK, world
  <2>2. CASE Prepare /\ stage' = "found"
    <3>1. task.cwd \in DOMAIN folders /\ folders[task.cwd] # 0
      BY <1>1, <2>2 DEF Prepare, End, ReviewInv, InodesOK
    <3>2. folders[task.cwd] \in Nat
      BY <3>1 DEF ReviewInv, InodesOK
    <3>3. PICK path : prepared' = [path |-> path, program |-> 0, cwd |-> task.cwd,
                          folder |-> folders[task.cwd],
                          timeout |-> PreparedTimeout(task),
                          limit |-> IF task.kind = "exec" THEN 0 ELSE task.limit]
      BY Zenon, <2>2 DEF Prepare, End
    <3> QED BY <1>1, <2>2, <3>1, <3>2, <3>3 DEF ReviewInv, InodesOK, PreparedOK, PreparedFields, world
  <2>3. CASE OpenProgram /\ stage' = "prepared"
    <3>1. /\ stage = "found" /\ programs[prepared.path] \in runnable
          /\ prepared' = [prepared EXCEPT !.program = programs[prepared.path]]
      BY <2>3 DEF OpenProgram, End
    <3>2. programs[prepared.path] \in Nat \ {0}
      BY <3>1 DEF ReviewInv, InodesOK
    <3>3. /\ DOMAIN prepared' = PreparedFields /\ prepared'.program = programs[prepared.path]
          /\ prepared'.folder = prepared.folder /\ prepared'.timeout = prepared.timeout
      BY <3>1 DEF ReviewInv, PreparedOK, PreparedFields
    <3> QED BY <1>1, <2>3, <3>1, <3>2, <3>3 DEF ReviewInv, InodesOK, PreparedOK, world
  <2> QED BY <2>1, <2>2, <2>3 DEF Prepare, OpenProgram, End
<1> QED BY <1>3, <1>4 DEF ReviewInv

\* The revision that is loaded is one of the vault's.
LEMMA LoadReviewed ==
    ASSUME DeliveryInv, ReviewInv, Load
    PROVE  ReviewInv'
<1>1. /\ UNCHANGED <<task, prepared, request, values, outfile, printed, child>> /\ UNCHANGED world
      /\ stage = (IF Governed(task) THEN "previewed" ELSE "prepared") /\ stage' = "loaded"
      /\ snapshot' = latest /\ ~Delivered
  BY DEF Load, results, DeliveryInv, StageOK
<1>2. ~Delivered'
  BY <1>1 DEF Delivered
<1>3. Governed(task) => GovernedShape(task)
  BY <1>1 DEF ReviewInv, GovernedOK
<1>4. InodesOK' /\ SnapshotOK'
  BY <1>1 DEF ReviewInv, InodesOK, SnapshotOK, world
<1>5. PreparedOK'
  BY <1>1 DEF ReviewInv, PreparedOK
<1>6. GovernedOK'
  BY <1>1, <1>2, <1>3 DEF GovernedOK, HoldingValues
<1> QED BY <1>4, <1>5, <1>6 DEF ReviewInv

\* The request is the action.
LEMMA AskReviewed ==
    ASSUME DeliveryInv, ReviewInv, AskForAction
    PROVE  ReviewInv'
<1>1. /\ UNCHANGED <<task, snapshot, values, outfile, printed, child>> /\ UNCHANGED world
      /\ stage = "loaded" /\ Governed(task) /\ ~Delivered
  BY DEF AskForAction, results, DeliveryInv, StageOK
<1>2. ~Delivered' /\ task \in Tasks
  BY <1>1 DEF Delivered, DeliveryInv, StageOK
<1>3. CASE stage' = "over" /\ UNCHANGED <<request, prepared>>
  <2>1. UNCHANGED reviewed
    BY <1>1, <1>3 DEF reviewed
  <2> QED BY <1>1, <1>3, <2>1, QuietReview DEF DeliveryStages, Unopened, HoldingValues
<1>4. CASE stage' = "asked"
  <2>1. PICK rule : /\ request' = ActionFor(task, rule)
                    /\ prepared' = IF ~Executes(task) THEN prepared
                                   ELSE [prepared EXCEPT !.timeout = GovernedTimeout(task, rule)]
    BY <1>4 DEF AskForAction, End
  <2>2. /\ DOMAIN prepared' = PreparedFields /\ prepared'.path = prepared.path
        /\ prepared'.program = prepared.program /\ prepared'.folder = prepared.folder
        /\ prepared'.limit = prepared.limit
        /\ (Executes(task) => prepared'.timeout = GovernedTimeout(task, rule))
    BY <2>1 DEF ReviewInv, PreparedOK, PreparedFields
  <2>3. Executes(task) => GovernedTimeout(task, rule) # {}
    <3>1. Executes(task) => prepared.timeout = PreparedTimeout(task)
      BY <1>1 DEF ReviewInv, PreparedOK
    <3> QED BY <3>1 DEF GovernedTimeout, PreparedTimeout, Executes
  <2>4. /\ Targets(task)' = Targets(task) /\ Injections(task)' = Injections(task)
        /\ TemplateArguments(task)' = TemplateArguments(task)
    BY Zenon, <1>1, SameTargets, SameInjections, SameArguments
  <2>5. /\ request'.revision = snapshot /\ request'.fields = UNION Range(Targets(task))
        /\ request'.stdin = {Targets(task)[r] : r \in task.stdin}
        /\ task.kind = "inject" => request'.arguments = TemplateArguments(task)
        /\ Executes(task) => /\ request'.executable = <<prepared.path, prepared.program>>
                             /\ request'.injections = Injections(task)
                             /\ request'.timeout = GovernedTimeout(task, rule)
                             /\ request'.limit = prepared.limit
    BY Zenon, <2>1 DEF ActionFor, ExecutableIdentity
  <2>a. \A r \in References(task) : Targets(task)[r] # {}
    BY Zenon, <1>4 DEF AskForAction, End, Askable
  <2>6. Asked'
    BY Zenon, <1>1, <2>2, <2>3, <2>4, <2>5, <2>a DEF Asked
  <2>7. GovernedShape(task)
    BY <1>1 DEF ReviewInv, GovernedOK
  <2>8. GovernedOK'
    BY <1>1, <1>2, <1>4, <2>6, <2>7 DEF GovernedOK, HoldingValues
  <2>9. InodesOK' /\ SnapshotOK'
    BY <1>1, <1>4, <2>2 DEF ReviewInv, InodesOK, SnapshotOK, world
  <2>10. PreparedOK'
    BY Zenon, <1>1, <1>4, <2>2 DEF ReviewInv, PreparedOK
  <2> QED BY <2>8, <2>9, <2>10 DEF ReviewInv
<1> QED BY <1>3, <1>4 DEF AskForAction, End

\* The values are those of the request.
LEMMA AuthorizeReviewed ==
    ASSUME DeliveryInv, ReviewInv, Authorize
    PROVE  ReviewInv'
<1>1. /\ UNCHANGED <<task, prepared, snapshot, request, outfile, printed, child>> /\ UNCHANGED world
      /\ stage = "asked" /\ Governed(task) /\ ~Delivered /\ task \in Tasks
  BY Zenon DEF Authorize, results, DeliveryInv, StageOK
<1>2. ~Delivered'
  BY <1>1 DEF Delivered
<1>3. InodesOK' /\ SnapshotOK' /\ PreparedOK' /\ stage' \in {"over", "opened"}
  BY <1>1 DEF Authorize, End, ReviewInv, InodesOK, SnapshotOK, PreparedOK, world
<1>4. Asked' /\ GovernedShape(task)
  <2>1. Asked /\ GovernedShape(task)
    BY <1>1 DEF ReviewInv, GovernedOK
  <2> QED BY Zenon, <1>1, <2>1, SameAsked
<1>5. stage' = "opened" => \A r \in References(task) : values'[r] = Named(r)
  <2> SUFFICES ASSUME stage' = "opened", NEW r \in References(task) PROVE values'[r] = Named(r)
    OBVIOUS
  <2> DEFINE found == [q \in References(task) |-> GovernedTarget(q)]
  <2>1. values' = Resolved(found) /\ found[r] # {}
    BY DEF Authorize, End
  <2>2. GovernedTarget(r) # {}
    BY <2>1
  <2>3. snapshot \in DOMAIN Vault
    BY <1>1 DEF ReviewInv, SnapshotOK
  <2>4. Resolved(found)[r] = Named(r)
    BY <1>1, <2>2, <2>3, FoundIsNamed
  <2> QED BY <2>1, <2>4
<1>6. \A r \in References(task) : Named(r)' = Named(r)
  BY Zenon, <1>1, SameNamed
<1>7. GovernedOK'
  BY <1>1, <1>2, <1>3, <1>4, <1>5, <1>6 DEF GovernedOK, HoldingValues
<1> QED BY <1>3, <1>7 DEF ReviewInv

\* The child starts with what was asked for.
LEMMA LaunchReviewed ==
    ASSUME DeliveryInv, ReviewInv, Launch
    PROVE  ReviewInv'
<1>1. /\ UNCHANGED <<task, prepared, snapshot, request, values, outfile, printed>> /\ UNCHANGED world
      /\ stage = "ready" /\ Executes(task) /\ BindingsValid(task) /\ task \in Tasks
  BY DEF Launch, DeliveryInv, StageOK
<1>2. CASE stage' = "over" /\ UNCHANGED child
  <2>1. UNCHANGED reviewed
    BY <1>1, <1>2 DEF reviewed
  <2> QED BY <1>1, <1>2, <2>1, QuietReview DEF DeliveryStages, Unopened, HoldingValues
<1>3. CASE stage' = "started"
  <2>1. /\ child'.kind = "helper" /\ child'.env = ChildEnvironment(task)
        /\ child'.stdin = ChildStdin(task) /\ child'.timeout = prepared.timeout
        /\ child'.limit = OutputLimit(task)
    BY <1>3 DEF Launch, End
  <2>2. InodesOK' /\ SnapshotOK' /\ PreparedOK'
    BY <1>1, <1>3 DEF ReviewInv, InodesOK, SnapshotOK, PreparedOK, world
  <2>3. ASSUME Governed(task) PROVE GovernedOK'
    <3>1. Asked /\ GovernedShape(task) /\ \A r \in References(task) : values[r] = Named(r)
      BY <1>1, <2>3 DEF ReviewInv, GovernedOK, HoldingValues
    <3>2. Asked' /\ \A r \in References(task) : Named(r)' = Named(r)
      BY ZenonT(30), <1>1, <3>1, SameAsked, SameNamed
    <3>3. /\ DOMAIN child'.env = {x[1] : x \in request.injections}
          /\ \A x \in request.injections : child'.env[x[1]] = <<Reviewed(x[2])>>
          /\ child'.stdin = {<<Reviewed(x)>> : x \in request.stdin}
      BY SMTT(30), <1>1, <2>1, <2>3, <3>1, EnvironmentReviewed
    <3>4. /\ child'.timeout = request.timeout /\ child'.timeout # {}
          /\ task.kind = "run" => child'.limit = {request.limit}
      BY <1>1, <2>1, <3>1 DEF Asked, OutputLimit
    <3>5. \A r \in References(task) :
            task.byId = {} => RequestTarget(request.revision, r) \subseteq request.fields
      BY <3>1, LabelsReviewed
    <3>6. child'.kind # "program"
      BY Zenon, <2>1
    <3>7. ChildAsReviewed'
      BY Zenon, <1>1, <3>3, <3>4, <3>6, ChildIs
    <3>8. LabelsAsReviewed'
      BY Zenon, <1>1, <3>5, SameLabels DEF LabelsAsReviewed
    <3>9. OutputAsReviewed'
      BY Zenon, <1>1 DEF OutputAsReviewed, Executes
    <3> QED BY Zenon, <1>1, <3>1, <3>2, <3>7, <3>8, <3>9 DEF GovernedOK
  <2> QED BY <1>1, <2>2, <2>3 DEF ReviewInv, GovernedOK
<1> QED BY <1>2, <1>3 DEF Launch, End

\* The child becomes the program that was reviewed, and ends.
LEMMA ChildReviewed ==
    ASSUME DeliveryInv, ReviewInv, HelperExec \/ ChildEnds
    PROVE  ReviewInv'
<1>1. /\ UNCHANGED <<task, prepared, snapshot, request, values, outfile, printed>> /\ UNCHANGED world
      /\ stage = "started" /\ stage' \in {"started", "ended"} /\ Executes(task)
      /\ DOMAIN child = ChildFields /\ child # Idle
  BY DEF HelperExec, ChildEnds, DeliveryInv, StageOK, ChildFields, Idle
<1>2. /\ \/ child'.kind = child.kind /\ child'.image = child.image /\ child'.folder = child.folder
         \/ child'.kind = "program" /\ child'.image = prepared.program /\ child'.folder = prepared.folder
         \/ child'.kind = "failed"
      /\ child'.env = child.env /\ child'.stdin = child.stdin /\ child'.timeout = child.timeout
      /\ child'.limit = child.limit
  BY Zenon, <1>1 DEF HelperExec, ChildEnds, ChildFields
<1>3. InodesOK' /\ SnapshotOK' /\ PreparedOK'
  BY <1>1 DEF ReviewInv, InodesOK, SnapshotOK, PreparedOK, world
<1>4. prepared.program # 0 /\ prepared.folder # 0
  BY <1>1 DEF ReviewInv, PreparedOK
<1>5. ASSUME Governed(task) PROVE GovernedOK'
  <2>1. /\ Asked /\ GovernedShape(task) /\ \A r \in References(task) : values[r] = Named(r)
        /\ LabelsAsReviewed /\ ChildAsReviewed
    BY <1>1, <1>5 DEF ReviewInv, GovernedOK, HoldingValues, Delivered
  <2>2. Asked' /\ \A r \in References(task) : Named(r)' = Named(r)
    BY ZenonT(30), <1>1, <2>1, SameAsked, SameNamed
  <2>3. request.executable = <<prepared.path, prepared.program>>
    BY <1>1, <2>1 DEF Asked
  <2>4. ChildAsReviewed'
    <3>1. child'.kind = "program" => /\ <<prepared.path, child'.image>> = request.executable
                                     /\ child'.image # 0 /\ child'.folder # 0
      BY Zenon, <1>1, <1>2, <1>4, <2>1, <2>3 DEF ChildAsReviewed
    <3>2. /\ DOMAIN child'.env = {x[1] : x \in request.injections}
          /\ \A x \in request.injections : child'.env[x[1]] = <<Reviewed(x[2])>>
          /\ child'.stdin = {<<Reviewed(x)>> : x \in request.stdin}
          /\ child'.timeout = request.timeout /\ child'.timeout # {}
          /\ task.kind = "run" => child'.limit = {request.limit}
      BY Zenon, <1>1, <1>2, <2>1 DEF ChildAsReviewed
    <3> QED BY Zenon, <1>1, <3>1, <3>2, ChildIs
  <2>5. LabelsAsReviewed' /\ OutputAsReviewed'
    BY Zenon, <1>1, <2>1, SameLabels DEF OutputAsReviewed, Executes
  <2> QED BY Zenon, <1>1, <2>1, <2>2, <2>4, <2>5 DEF GovernedOK
<1> QED BY <1>1, <1>3, <1>5 DEF ReviewInv, GovernedOK

-----------------------------------------------------------------------------
(* Whole and accounted for *)

\* An audit that is appended to keeps its events.
LEMMA TrailGrows ==
    ASSUME NEW event, NEW ok \in BOOLEAN, IsTrail(trail), AppendAudit(event, ok)
    PROVE  IsTrail(trail') /\ Range(trail) \subseteq Range(trail') /\ (ok => event \in Range(trail'))
<1> DEFINE s == trail
           t == Append(s, event)
           S == {s[i] : i \in DOMAIN s}
<1>1. /\ s \in Seq(S) /\ s \in Seq(S \union {event})
  BY DEF IsTrail
<1>2. /\ t \in Seq(S \union {event}) /\ Len(t) = Len(s) + 1 /\ t[Len(s) + 1] = event
      /\ \A i \in 1 .. Len(s) : t[i] = s[i]
  BY <1>1
<1>3. DOMAIN s = 1 .. Len(s) /\ DOMAIN t = 1 .. Len(s) + 1 /\ Len(s) \in Nat
  BY <1>1, <1>2
<1>4. Range(s) \subseteq Range(t) /\ event \in Range(t)
  BY <1>2, <1>3 DEF Range
<1>5. IsTrail(t)
  <2>1. \A i \in 1 .. Len(t) : t[i] \in {t[j] : j \in DOMAIN t}
    BY <1>2, <1>3
  <2> QED BY <1>2, <1>3, <2>1 DEF IsTrail
<1>6. trail' = s \/ (trail' = t)
  BY DEF AppendAudit
<1>7. ok => trail' = t
  BY DEF AppendAudit
<1> HIDE DEF t
<1> QED BY <1>4, <1>5, <1>6, <1>7

\* What the properties say depends on what the command holds, not on its stage.
LEMMA SameValues ==
    ASSUME UNCHANGED <<task, snapshot, values>>
    PROVE  Needles(task)' = Needles(task) /\ TargetItems(task)' = TargetItems(task)
BY DEF Needles, TargetItems, Targets, Target

\* A command that goes on without touching anything but its stage and its end.
LEMMA QuietDelivery ==
    ASSUME DeliveryInv, stage # "over", stage' \in DeliveryStages,
           UNCHANGED <<task, snapshot, opened, request, values, results>>,
           stage' # "over" => UNCHANGED told,
           stage' = "over" => told' = Idle \/ told'.recorded = FALSE,
           stage' \in Unopened => stage \in Unopened,
           stage' \in HoldingValues => stage' = stage,
           stage' = "found" => Executes(task),
           stage' = "asked" => stage' = stage,
           stage' \notin {"start", "over"} /\ stage = "start" /\ Executes(task) => BindingsValid(task)
    PROVE  DeliveryInv'
<1> USE DEF results
<1>1. StageOK'
  BY SMTT(30), SameValues DEF DeliveryInv, StageOK, Delivered, Unopened, HoldingValues, DeliveryStages
<1>2. ValuesOK' /\ ReceiptOK' /\ AllOrNothing'
  BY ZenonT(60) DEF DeliveryInv, StageOK, ValuesOK, ReceiptOK, AllOrNothing, Delivered, WholeValues,
         Unopened, HoldingValues, DeliveryStages
<1>3. TrailOK' /\ NothingEscapes'
  BY DEF DeliveryInv, StageOK, TrailOK, NothingEscapes, Delivered, Unopened, HoldingValues,
         DeliveryStages, Idle
<1> QED BY <1>1, <1>2, <1>3 DEF DeliveryInv

\* A command that stops.
LEMMA EndKeeps ==
    ASSUME DeliveryInv, NEW status, stage # "over", End(status),
           UNCHANGED <<task, snapshot, opened, request, values, results>>
    PROVE  DeliveryInv'
<1>1. stage' = "over" /\ told'.recorded = FALSE
  BY DEF End
<1> QED BY Zenon, <1>1, QuietDelivery DEF DeliveryStages, Unopened, HoldingValues

\* The steps that load and look, and open nothing.
LEMMA LooksKeep ==
    ASSUME DeliveryInv, Prepare \/ OpenProgram \/ CheckSink \/ Preview \/ Kill
    PROVE  DeliveryInv'
<1>1. CASE Prepare
  <2>1. UNCHANGED <<task, snapshot, opened, request, values, results>> /\ stage = "start" /\ Executes(task)
    BY Zenon, <1>1 DEF Prepare
  <2>2. CASE stage' = "found" /\ UNCHANGED told /\ BindingsValid(task)
    BY <2>1, <2>2, QuietDelivery DEF DeliveryStages, Unopened, HoldingValues
  <2>3. CASE End("refused")
    BY <2>1, <2>3, EndKeeps
  <2> QED BY ZenonT(30), <1>1, <2>2, <2>3 DEF Prepare
<1>2. CASE OpenProgram
  <2>1. UNCHANGED <<task, snapshot, opened, request, values, results>> /\ stage = "found"
    BY <1>2 DEF OpenProgram
  <2>2. CASE stage' = "prepared" /\ UNCHANGED told
    BY <2>1, <2>2, QuietDelivery DEF DeliveryStages, Unopened, HoldingValues
  <2>3. CASE End("refused")
    BY <2>1, <2>3, EndKeeps
  <2> QED BY <1>2, <2>2, <2>3 DEF OpenProgram
<1>3. CASE CheckSink
  <2>1. UNCHANGED <<task, snapshot, opened, request, values, results>> /\ stage = "start" /\ ~Executes(task)
    BY <1>3 DEF CheckSink
  <2>2. CASE stage' = "prepared" /\ UNCHANGED told
    BY <2>1, <2>2, QuietDelivery DEF DeliveryStages, Unopened, HoldingValues
  <2>3. CASE End("refused")
    BY <2>1, <2>3, EndKeeps
  <2> QED BY <1>3, <2>2, <2>3 DEF CheckSink
<1>4. CASE Preview
  <2>1. UNCHANGED <<task, snapshot, opened, request, values, results>> /\ stage = "prepared"
    BY <1>4 DEF Preview
  <2>2. CASE stage' = "previewed" /\ UNCHANGED told
    BY <2>1, <2>2, QuietDelivery DEF DeliveryStages, Unopened, HoldingValues
  <2>3. CASE End("refused")
    BY <2>1, <2>3, EndKeeps
  <2> QED BY <1>4, <2>2, <2>3 DEF Preview
<1>5. CASE Kill
  BY <1>5, EndKeeps DEF Kill
<1> QED BY SMTT(30), <1>1, <1>2, <1>3, <1>4, <1>5

\* The snapshot is taken before anything is opened.
LEMMA LoadKeeps ==
    ASSUME DeliveryInv, Load
    PROVE  DeliveryInv'
<1>1. /\ stage \in {"prepared", "previewed"} /\ stage' = "loaded"
      /\ UNCHANGED <<task, opened, request, values, results, told>>
  BY DEF Load
<1> USE DEF results
<1>2. StageOK'
  BY SMTT(30), <1>1 DEF DeliveryInv, StageOK, Delivered, Unopened, HoldingValues, DeliveryStages
<1>3. ValuesOK' /\ ReceiptOK' /\ AllOrNothing'
  BY SMTT(30), <1>1, <1>2 DEF DeliveryInv, StageOK, ValuesOK, ReceiptOK, AllOrNothing, Delivered,
         Unopened, HoldingValues, DeliveryStages
<1>4. TrailOK' /\ NothingEscapes'
  BY Zenon, <1>1 DEF DeliveryInv, StageOK, TrailOK, NothingEscapes, Delivered, Unopened, HoldingValues,
         DeliveryStages, Idle
<1> QED BY <1>2, <1>3, <1>4 DEF DeliveryInv

\* What others do.
LEMMA OthersKeep ==
    ASSUME DeliveryInv, CommitRevision \/ ReplaceProgram \/ ReplaceFolder \/ TakePath
    PROVE  DeliveryInv'
<1>1. UNCHANGED <<task, stage, snapshot, opened, request, values, printed, child, shown, trail, told>>
  BY DEF CommitRevision, ReplaceProgram, ReplaceFolder, TakePath, command
<1>2. \/ UNCHANGED receipt
      \/ receipt = NoFile /\ receipt' = OtherFile
  BY DEF CommitRevision, ReplaceProgram, ReplaceFolder, TakePath
<1>3. \/ UNCHANGED outfile
      \/ outfile = NoFile /\ outfile' = OtherFile
  BY DEF CommitRevision, ReplaceProgram, ReplaceFolder, TakePath
<1>4. Delivered' = Delivered
  BY <1>1, <1>3 DEF Delivered
<1>5. receipt = <<"receipt">> => UNCHANGED receipt
  BY <1>2 DEF NoFile
<1>6. StageOK'
  BY <1>1, <1>4, SameValues DEF DeliveryInv, StageOK
<1>7. ValuesOK' /\ ReceiptOK' /\ AllOrNothing'
  BY SMTT(30), <1>1, <1>4, <1>5 DEF DeliveryInv, ValuesOK, ReceiptOK, AllOrNothing, WholeValues
<1>8. TrailOK' /\ NothingEscapes'
  BY ZenonT(60), <1>1, <1>4, <1>5 DEF DeliveryInv, TrailOK, NothingEscapes
<1> QED BY <1>6, <1>7, <1>8 DEF DeliveryInv

\* A direct reference is resolved among the items its caller reads.
LEMMA NamedResolved ==
    ASSUME FieldsComplete(task), NEW r \in References(task)
    PROVE  \E i \in NamedItems(task) :
             Resolved([q \in References(task) |-> NamedTarget(q)])[r]
               \in Range(Vault[snapshot].items[i].fields)
<1> DEFINE x == CHOOSE y \in NamedTarget(r) : TRUE
<1>1. NamedTarget(r) # {}
  BY DEF FieldsComplete
<1>2. x \in NamedTarget(r)
  BY <1>1
<1>3. PICK i \in ItemsNamed(snapshot, r[1]) : x \in {i} \X FieldsNamed(snapshot, i, r[2])
  BY <1>2 DEF NamedTarget
<1>4. x[1] = i /\ x[2] \in FieldsNamed(snapshot, i, r[2])
  BY <1>3
<1>5. x[2] \in DOMAIN Vault[snapshot].items[i].fields
  BY <1>4 DEF FieldsNamed
<1>6. Field(snapshot, x) \in Range(Vault[snapshot].items[i].fields)
  BY Zenon, <1>4, <1>5 DEF Field, Range
<1>7. i \in NamedItems(task)
  BY <1>3 DEF NamedItems, ItemNames
<1>8. Resolved([q \in References(task) |-> NamedTarget(q)])[r] = Field(snapshot, x)
  BY DEF Resolved
<1> QED BY <1>6, <1>7, <1>8

\* Direct items are opened when all their names are there.
LEMMA OpenItemsKeeps ==
    ASSUME DeliveryInv, OpenItems
    PROVE  DeliveryInv'
<1> DEFINE held == Resolved([r \in References(task) |-> NamedTarget(r)])
<1>1. /\ stage = "loaded" /\ ~Governed(task)
      /\ UNCHANGED <<task, snapshot, request, receipt, outfile, printed, child, shown>>
  BY DEF OpenItems, RefuseDirect, results
<1>2. opened = {} /\ ~Delivered /\ shown = {} /\ told = Idle /\ child = Idle /\ task \in Tasks
  BY <1>1 DEF DeliveryInv, StageOK, Delivered, Unopened
<1>3. ~Delivered'
  BY <1>1, <1>2 DEF Delivered
<1>4. Executes(task) => BindingsValid(task)
  BY <1>1 DEF DeliveryInv, StageOK
<1>5. \/ stage' = "over" /\ told'.recorded = FALSE /\ UNCHANGED values
      \/ /\ stage' = (IF Executes(task) THEN "ready" ELSE "audit") /\ UNCHANGED <<told, trail>>
         /\ values' = held /\ opened' = NamedItems(task) /\ FieldsComplete(task)
  BY DEF OpenItems, RefuseDirect, End, results
<1>6. \/ UNCHANGED opened
      \/ opened' \subseteq NamedItems(task) /\ NamesAvailable(task)
  BY Zenon DEF OpenItems
<1>7. IsTrail(trail')
  <2>1. UNCHANGED trail \/ \E event : \E ok \in BOOLEAN : AppendAudit(event, ok)
    BY DEF OpenItems, RefuseDirect, results
  <2> QED BY <2>1, TrailGrows DEF DeliveryInv, TrailOK
<1>8. StageOK'
  BY <1>1, <1>2, <1>3, <1>4, <1>5 DEF StageOK, DeliveryStages, Unopened, HoldingValues
<1>9. ValuesOK'
  <2>1. CASE stage' = "over"
    BY <1>3, <2>1 DEF ValuesOK, HoldingValues
  <2>2. CASE values' = held /\ opened' = NamedItems(task) /\ FieldsComplete(task)
    <3>1. DOMAIN held = References(task)
      BY DEF Resolved
    <3>2. \A r \in References(task) : \E i \in NamedItems(task) :
            held[r] \in Range(Vault[snapshot].items[i].fields)
      BY <2>2, NamedResolved
    <3> HIDE DEF held
    <3> QED BY <1>1, <2>2, <3>1, <3>2 DEF ValuesOK, WholeValues
  <2> QED BY <1>5, <2>1, <2>2
<1>10. AllOrNothing'
  <2>1. \A i \in NamedItems(task) : Vault[snapshot].items[i].reader
    BY ZenonT(60) DEF NamedItems, ItemsNamed
  <2> QED BY <1>1, <1>2, <1>3, <1>6, <2>1 DEF AllOrNothing, NamesAvailable
<1>11. ReceiptOK' /\ TrailOK' /\ NothingEscapes'
  BY <1>1, <1>2, <1>3, <1>5, <1>7 DEF ReceiptOK, TrailOK, NothingEscapes
<1> QED BY SMTT(30), <1>8, <1>9, <1>10, <1>11 DEF DeliveryInv

\* The request names the items it is about.
LEMMA AskKeeps ==
    ASSUME DeliveryInv, AskForAction
    PROVE  DeliveryInv'
<1>1. /\ stage = "loaded" /\ Governed(task)
      /\ UNCHANGED <<task, snapshot, opened, values, results>>
  BY DEF AskForAction
<1>2. CASE stage' = "asked"
  <2>1. UNCHANGED told
    BY <1>2 DEF AskForAction, End
  <2>2. request'.item = TargetItems(task)
    <3>1. PICK rule : request' = ActionFor(task, rule)
      BY <1>2 DEF AskForAction, End
    <3> QED BY Zenon, <3>1 DEF ActionFor
  <2>3. TargetItems(task)' = TargetItems(task)
    BY ZenonT(60), <1>1, SameValues
  <2> USE DEF results
  <2>4. StageOK'
    BY ZenonT(60), <1>1, <1>2, <2>1, <2>2, <2>3 DEF DeliveryInv, StageOK, Delivered, Unopened, HoldingValues, DeliveryStages
  <2>5. ValuesOK' /\ ReceiptOK' /\ AllOrNothing'
    BY SMTT(30), <1>1, <1>2, <2>4 DEF DeliveryInv, StageOK, ValuesOK, ReceiptOK, AllOrNothing, Delivered,
           Unopened, HoldingValues, DeliveryStages
  <2>6. TrailOK' /\ NothingEscapes'
    BY Zenon, <1>1, <1>2, <2>1 DEF DeliveryInv, StageOK, TrailOK, NothingEscapes, Delivered, Unopened,
           HoldingValues, DeliveryStages, Idle
  <2> QED BY <2>4, <2>5, <2>6 DEF DeliveryInv
<1>3. CASE stage' # "asked"
  <2>1. End("refused") /\ UNCHANGED request
    BY SMTT(30), <1>3 DEF AskForAction
  <2> QED BY <1>1, <2>1, EndKeeps
<1> QED BY <1>2, <1>3

\* A governed reference is resolved in the item that was asked for.
LEMMA GovernedResolved ==
    ASSUME NEW r \in References(task), GovernedTarget(r) # {}
    PROVE  \E i \in TargetItems(task) :
             Resolved([q \in References(task) |-> GovernedTarget(q)])[r]
               \in Range(Vault[snapshot].items[i].fields)
<1> DEFINE x == CHOOSE y \in GovernedTarget(r) : TRUE
<1>1. x \in GovernedTarget(r)
  OBVIOUS
<1>2. x \in Targets(task)[r] /\ x[2] \in DOMAIN Vault[snapshot].items[x[1]].fields
  BY Zenon, <1>1 DEF GovernedTarget
<1>3. x[1] \in TargetItems(task)
  BY Zenon, <1>2 DEF TargetItems, Targets, Range
<1>4. Field(snapshot, x) \in Range(Vault[snapshot].items[x[1]].fields)
  BY Zenon, <1>2 DEF Field, Range
<1>5. Resolved([q \in References(task) |-> GovernedTarget(q)])[r] = Field(snapshot, x)
  BY SMTT(30) DEF Resolved
<1> QED BY Zenon, <1>3, <1>4, <1>5

\* A granted request opens the item it names.
LEMMA AuthorizeKeeps ==
    ASSUME DeliveryInv, Authorize
    PROVE  DeliveryInv'
<1> DEFINE found == [r \in References(task) |-> GovernedTarget(r)]
<1>1. /\ stage = "asked" /\ Governed(task) /\ request.item = TargetItems(task)
      /\ UNCHANGED <<task, snapshot, request, receipt, outfile, printed, child, shown, trail>>
  BY Zenon DEF Authorize, results, DeliveryInv, StageOK
<1>2. ~Delivered /\ shown = {} /\ told = Idle /\ child = Idle /\ task \in Tasks
      /\ (Executes(task) => BindingsValid(task)) /\ IsTrail(trail)
  BY <1>1 DEF DeliveryInv, StageOK, Delivered, Unopened, TrailOK
<1>3. ~Delivered'
  BY <1>1, <1>2 DEF Delivered
<1>4. \/ stage' = "over" /\ told'.recorded = FALSE
      \/ /\ stage' = "opened" /\ UNCHANGED told /\ opened' = request.item
         /\ values' = Resolved(found) /\ \A r \in References(task) : found[r] # {}
  BY SMTT(30) DEF Authorize, End
<1>5. StageOK'
  BY Zenon, <1>1, <1>2, <1>3, <1>4 DEF StageOK, DeliveryStages, Unopened, HoldingValues
<1>6. ValuesOK'
  <2>1. CASE stage' = "over"
    BY <1>3, <2>1 DEF ValuesOK, HoldingValues
  <2>2. CASE /\ opened' = request.item
             /\ values' = Resolved(found) /\ \A r \in References(task) : found[r] # {}
    <3>1. DOMAIN Resolved(found) = References(task)
      BY DEF Resolved
    <3>2. \A r \in References(task) : GovernedTarget(r) # {}
      BY <2>2
    <3>3. \A r \in References(task) : \E i \in TargetItems(task) :
            Resolved(found)[r] \in Range(Vault[snapshot].items[i].fields)
      BY <3>2, GovernedResolved
    <3>4. opened' = TargetItems(task)
      BY <1>1, <2>2
    <3>5. \A r \in References(task) : values'[r] = Resolved(found)[r]
      BY <2>2
    <3>6. DOMAIN values' = References(task)
      BY <2>2, <3>1
    <3> QED BY Zenon, <1>1, <3>3, <3>4, <3>5, <3>6 DEF ValuesOK, WholeValues
  <2> QED BY <1>4, <2>1, <2>2
<1>7. AllOrNothing'
  BY SMTT(30), <1>1, <1>3 DEF AllOrNothing
<1>8. ReceiptOK' /\ TrailOK' /\ NothingEscapes'
  BY Zenon, <1>1, <1>2, <1>3, <1>4 DEF ReceiptOK, TrailOK, NothingEscapes, HoldingValues
<1> QED BY <1>5, <1>6, <1>7, <1>8 DEF DeliveryInv

\* The receipt comes before the value is used.
LEMMA PublishKeeps ==
    ASSUME DeliveryInv, PublishGoverned
    PROVE  DeliveryInv'
<1>1. /\ stage = "opened" /\ Governed(task)
      /\ UNCHANGED <<task, snapshot, opened, request, values, outfile, printed, child, shown, trail>>
  BY DEF PublishGoverned, DeliveryInv, StageOK
<1>2. ~Delivered /\ shown = {} /\ told = Idle /\ child = Idle /\ task \in Tasks
      /\ (Executes(task) => BindingsValid(task)) /\ IsTrail(trail)
  BY <1>1 DEF DeliveryInv, StageOK, Delivered, TrailOK
<1>3. ~Delivered'
  BY <1>1, <1>2 DEF Delivered
<1>4. \/ stage' = "over" /\ told'.recorded = FALSE
      \/ /\ receipt' = <<"receipt">> /\ UNCHANGED told
         /\ \/ stage' = "ready" /\ Executes(task)
            \/ stage' = "audit" /\ task.kind = "inject" /\ ~Executes(task)
            \/ stage' = "output" /\ task.kind = "read" /\ ~Executes(task)
  BY <1>2, TasksAssumption DEF PublishGoverned, End, Executes
<1>5. WholeValues'
  BY <1>1 DEF DeliveryInv, ValuesOK, WholeValues, HoldingValues
<1>6. StageOK' /\ ValuesOK'
  BY <1>1, <1>2, <1>3, <1>4, <1>5 DEF StageOK, ValuesOK, DeliveryStages, Unopened, HoldingValues
<1>7. AllOrNothing'
  BY SMTT(30), <1>1, <1>3 DEF AllOrNothing
<1>8. ReceiptOK' /\ TrailOK' /\ NothingEscapes'
  BY <1>1, <1>2, <1>3, <1>4 DEF ReceiptOK, TrailOK, NothingEscapes, HoldingValues
<1> QED BY <1>6, <1>7, <1>8 DEF DeliveryInv

\* No event, no output.
LEMMA AuditKeeps ==
    ASSUME DeliveryInv, AuditOutput
    PROVE  DeliveryInv'
<1>1. /\ stage = "audit" /\ ~Executes(task)
      /\ UNCHANGED <<task, snapshot, opened, request, values, receipt, outfile, printed, child, shown>>
  BY DEF AuditOutput, DeliveryInv, StageOK
<1>2. ~Delivered /\ shown = {} /\ told = Idle /\ child = Idle /\ task \in Tasks /\ IsTrail(trail)
  BY <1>1 DEF DeliveryInv, StageOK, Delivered, TrailOK
<1>3. ~Delivered'
  BY <1>1, <1>2 DEF Delivered
<1>4. PICK ok \in BOOLEAN : /\ AppendAudit(Event(opened, "Success"), ok)
                            /\ IF ok THEN stage' = "output" /\ UNCHANGED told ELSE End("refused")
  BY DEF AuditOutput
<1>5. IsTrail(trail') /\ (ok => Event(opened, "Success") \in Range(trail'))
  BY <1>2, <1>4, TrailGrows
<1>6. Event(opened, "Success").outcome = "Success"
  BY DEF Event
<1>7. \/ stage' = "over" /\ told'.recorded = FALSE
      \/ stage' = "output" /\ UNCHANGED told /\ Succeeded(trail')
  BY <1>4, <1>5, <1>6 DEF End, Succeeded
<1>8. WholeValues'
  BY <1>1 DEF DeliveryInv, ValuesOK, WholeValues, HoldingValues
<1>9. StageOK' /\ ValuesOK'
  BY SMTT(30), <1>1, <1>2, <1>3, <1>7, <1>8 DEF StageOK, ValuesOK, DeliveryStages, Unopened, HoldingValues
<1>10. AllOrNothing'
  BY <1>1, <1>3 DEF DeliveryInv, AllOrNothing
<1>11. ReceiptOK'
  BY ZenonT(60), <1>1, <1>3, <1>7 DEF DeliveryInv, ReceiptOK, HoldingValues
<1>12. TrailOK' /\ NothingEscapes'
  BY <1>1, <1>2, <1>3, <1>5, <1>7 DEF TrailOK, NothingEscapes
<1> QED BY <1>9, <1>10, <1>11, <1>12 DEF DeliveryInv

\* The output is what is held.
LEMMA WriteKeeps ==
    ASSUME DeliveryInv, WriteOutput
    PROVE  DeliveryInv'
<1>0. stage' = "over" /\ told'.recorded = FALSE
  <2>1. PICK status : End(status)
    BY Zenon DEF WriteOutput
  <2>2. told' = [kind |-> status, recorded |-> FALSE, outcome |-> "none"] /\ stage' = "over"
    BY Zenon, <2>1 DEF End
  <2> QED BY <2>2
<1>1. /\ stage = "output" /\ stage' = "over" /\ ~Executes(task) /\ told'.recorded = FALSE
      /\ UNCHANGED <<task, snapshot, opened, request, values, receipt, child, shown, trail>>
  BY Zenon, <1>0 DEF WriteOutput, DeliveryInv, StageOK
<1>2. ~Delivered /\ shown = {} /\ child = Idle /\ task \in Tasks /\ TrailOK
  BY <1>1 DEF DeliveryInv, StageOK, Delivered
<1>3. WholeValues'
  BY <1>1 DEF DeliveryInv, ValuesOK, WholeValues, HoldingValues
<1>4. StageOK' /\ ValuesOK'
  BY <1>1, <1>2, <1>3 DEF StageOK, ValuesOK, DeliveryStages, Unopened, HoldingValues
<1>5. AllOrNothing'
  BY <1>1, <1>3 DEF DeliveryInv, AllOrNothing, WholeValues
<1>6. Governed(task) => receipt' = <<"receipt">>
  BY <1>1 DEF DeliveryInv, ReceiptOK, HoldingValues
<1>7. ReceiptOK' /\ TrailOK'
  BY SMTT(30), <1>1, <1>2, <1>6 DEF ReceiptOK, TrailOK
<1>8. NothingEscapes'
  <2>1. ~Governed(task) \/ task.kind = "inject" => Succeeded(trail)
    BY ZenonT(60), <1>1, <1>2 DEF TrailOK
  <2> QED BY Zenon, <1>1, <1>2, <1>6, <2>1 DEF NothingEscapes, Succeeded
<1> QED BY SMTT(30), <1>4, <1>5, <1>7, <1>8 DEF DeliveryInv

\* No variable of Jury's own is handed to a child.
LEMMA EnvironmentClean ==
    ASSUME task \in Tasks, Executes(task), BindingsValid(task)
    PROVE  DOMAIN ChildEnvironment(task) \intersect Reserved = {}
<1> DEFINE mapped == Range(task.env \o task.files)
           names == {b[1] : b \in mapped}
<1>1. DOMAIN ChildEnvironment(task) = Inherited(task) \union names
  BY DEF ChildEnvironment
<1>2. Inherited(task) \intersect Reserved = {}
  <2>1. task.kind \in {"exec", "run"} /\ task.direct \in BOOLEAN
    BY TasksAssumption DEF Executes
  <2>2. Inherited(task) = {} \/ Inherited(task) = Ambient \ Reserved \/ Inherited(task) = Ambient \intersect Allowlist
    BY <2>1 DEF Inherited, Governed
  <2> QED BY <2>2, NamesAssumption
<1>3. ASSUME NEW b \in mapped PROVE b[1] \notin Reserved
  <2>1. PICK i \in DOMAIN (task.env \o task.files) : b = (task.env \o task.files)[i]
    BY Zenon, <1>3 DEF Range
  <2>2. BindingNames(task)[i] = b[1] /\ i \in DOMAIN BindingNames(task)
    BY Zenon, <2>1 DEF BindingNames
  <2>3. b[1] \in Range(BindingNames(task))
    BY SMTT(30), <2>2 DEF Range
  <2> QED BY <2>3 DEF BindingsValid, MappingName, EnvironmentName
<1> QED BY <1>1, <1>2, <1>3

\* The child gets what is held, and the redactor knows all of it.
LEMMA LaunchKeeps ==
    ASSUME DeliveryInv, Launch
    PROVE  DeliveryInv'
<1>1. /\ stage = "ready" /\ Executes(task) /\ BindingsValid(task)
      /\ UNCHANGED <<task, snapshot, opened, request, values, receipt, outfile, printed, shown, trail>>
  BY DEF Launch, DeliveryInv, StageOK
<1>2. CASE stage' = "over"
  <2>1. End("refused") /\ UNCHANGED child
    BY ZenonT(60), <1>2 DEF Launch
  <2> QED BY <1>1, <2>1, EndKeeps DEF results
<1>3. CASE stage' = "started"
  <2>1. /\ DOMAIN child' = ChildFields /\ child'.needles = Needles(task)
        /\ child'.env = ChildEnvironment(task) /\ UNCHANGED told
    BY <1>3 DEF Launch, End, ChildFields
  <2>2. shown = {} /\ told = Idle /\ task \in Tasks /\ TrailOK
    BY <1>1 DEF DeliveryInv, StageOK
  <2>3. WholeValues'
    BY <1>1 DEF DeliveryInv, ValuesOK, WholeValues, HoldingValues
  <2>4. Needles(task)' = Needles(task)
    BY SMTT(30), <1>1, SameValues
  <2>5. StageOK' /\ ValuesOK'
    <3>1. task' = task /\ request' = request /\ opened' = opened /\ shown' = {} /\ told' = Idle
      BY Zenon, <1>1, <2>1, <2>2
    <3>2. /\ stage' \in DeliveryStages /\ stage' \notin Unopened
          /\ stage' \notin {"asked", "opened"} /\ stage' \notin {"audit", "output"}
      BY <1>3 DEF DeliveryStages, Unopened, HoldingValues
    <3>3. /\ child'.needles = Needles(task)' /\ DOMAIN child' = ChildFields
      BY Zenon, <2>1, <2>4
    <3>4. StageOK'
      BY ZenonT(60), <1>1, <1>3, <2>2, <3>1, <3>2, <3>3 DEF StageOK
    <3> QED BY Zenon, <2>3, <3>4 DEF ValuesOK
  <2>6. AllOrNothing'
    BY <1>1, <2>3 DEF DeliveryInv, AllOrNothing, WholeValues
  <2>7. Governed(task) => receipt' = <<"receipt">>
    BY <1>1 DEF DeliveryInv, ReceiptOK, HoldingValues
  <2>8. ReceiptOK' /\ TrailOK'
    BY <1>1, <1>3, <2>2, <2>7 DEF ReceiptOK, TrailOK
  <2>9. DOMAIN child'.env \intersect Reserved = {}
    BY ZenonT(60), <1>1, <2>1, <2>2, EnvironmentClean
  <2>10. NothingEscapes'
    BY <1>1, <2>1, <2>2, <2>7, <2>9 DEF NothingEscapes
  <2> QED BY <2>5, <2>6, <2>8, <2>10 DEF DeliveryInv
<1> QED BY SMTT(30), <1>2, <1>3 DEF Launch, End

\* The helper turns into the program with what it was given.
LEMMA HelperKeeps ==
    ASSUME DeliveryInv, HelperExec
    PROVE  DeliveryInv'
<1>1. /\ stage = "started" /\ stage' = stage /\ Executes(task) /\ DOMAIN child = ChildFields
      /\ UNCHANGED <<task, snapshot, opened, request, values, receipt, outfile, printed, shown, trail, told>>
  BY DEF HelperExec, DeliveryInv, StageOK
<1>2. DOMAIN child' = ChildFields /\ child'.needles = child.needles /\ child'.env = child.env
  BY <1>1 DEF HelperExec, ChildFields
<1>3. child # Idle
  BY <1>1 DEF Idle, ChildFields
<1>4. shown = {} /\ told = Idle /\ task \in Tasks /\ TrailOK /\ BindingsValid(task)
      /\ child.needles = Needles(task)
  BY <1>1 DEF DeliveryInv, StageOK
<1>5. WholeValues'
  BY <1>1 DEF DeliveryInv, ValuesOK, WholeValues, HoldingValues
<1>6. Needles(task)' = Needles(task)
  BY SMTT(30), <1>1, SameValues
<1>7. StageOK' /\ ValuesOK'
  BY ZenonT(30), <1>1, <1>2, <1>4, <1>5, <1>6 DEF StageOK, ValuesOK, DeliveryStages, Unopened, HoldingValues
<1>8. AllOrNothing'
  BY <1>1, <1>5 DEF DeliveryInv, AllOrNothing, WholeValues
<1>9. Governed(task) => receipt' = <<"receipt">>
  BY <1>1 DEF DeliveryInv, ReceiptOK, HoldingValues
<1>10. ReceiptOK' /\ TrailOK'
  BY ZenonT(60), <1>1, <1>4, <1>9 DEF ReceiptOK, TrailOK
<1>11. NothingEscapes'
  BY <1>1, <1>2, <1>3, <1>4, <1>9 DEF DeliveryInv, NothingEscapes
<1> QED BY <1>7, <1>8, <1>10, <1>11 DEF DeliveryInv

\* What a child prints has passed the redactor.
LEMMA ChildEndKeeps ==
    ASSUME DeliveryInv, ChildEnds
    PROVE  DeliveryInv'
<1>1. /\ stage = "started" /\ stage' = "ended" /\ Executes(task) /\ DOMAIN child = ChildFields
      /\ UNCHANGED <<task, snapshot, opened, request, values, receipt, outfile, printed, trail, told>>
  BY DEF ChildEnds, DeliveryInv, StageOK
<1>2. DOMAIN child' = ChildFields /\ child'.env = child.env
  BY <1>1 DEF ChildEnds, ChildFields
<1>3. child # Idle
  BY <1>1 DEF Idle, ChildFields
<1>4. told = Idle /\ task \in Tasks /\ TrailOK /\ BindingsValid(task) /\ child.needles = Needles(task)
  BY <1>1 DEF DeliveryInv, StageOK
<1>5. \A r \in DOMAIN values' : values'[r].concealed => values'[r].value \notin shown'
  <2>1. shown' = {} \/ shown' = Received(child) \ Needles(task)
    BY <1>4 DEF ChildEnds
  <2>2. \A r \in DOMAIN values : values[r].concealed => values[r].value \in Needles(task)
    BY DEF Needles
  <2> QED BY <1>1, <2>1, <2>2
<1>6. WholeValues'
  BY ZenonT(60), <1>1 DEF DeliveryInv, ValuesOK, WholeValues, HoldingValues
<1>7. StageOK' /\ ValuesOK'
  BY SMTT(30), <1>1, <1>2, <1>4, <1>6 DEF StageOK, ValuesOK, DeliveryStages, Unopened, HoldingValues
<1>8. AllOrNothing'
  BY <1>1, <1>6 DEF DeliveryInv, AllOrNothing, WholeValues
<1>9. Governed(task) => receipt' = <<"receipt">>
  BY <1>1 DEF DeliveryInv, ReceiptOK, HoldingValues
<1>10. ReceiptOK' /\ TrailOK'
  BY ZenonT(60), <1>1, <1>4, <1>9 DEF ReceiptOK, TrailOK
<1>11. NothingEscapes'
  BY <1>1, <1>2, <1>3, <1>4, <1>5, <1>9 DEF DeliveryInv, NothingEscapes
<1> QED BY <1>7, <1>8, <1>10, <1>11 DEF DeliveryInv

\* What is claimed to be recorded is.
LEMMA RecordKeeps ==
    ASSUME DeliveryInv, RecordRun
    PROVE  DeliveryInv'
<1>1. /\ stage = "ended" /\ stage' = "over" /\ Executes(task)
      /\ UNCHANGED <<task, snapshot, opened, request, values, receipt, outfile, printed, child, shown>>
  BY DEF RecordRun, DeliveryInv, StageOK
<1>2. task \in Tasks /\ IsTrail(trail)
  BY ZenonT(60) DEF DeliveryInv, StageOK, TrailOK
<1>3. PICK ok \in BOOLEAN :
        /\ AppendAudit(Event(opened, child.outcome), ok)
        /\ told' = [kind |-> IF child.outcome = "Success" THEN "done" ELSE "refused",
                    recorded |-> ok /\ child.outcome = "Success",
                    outcome |-> child.outcome]
  BY DEF RecordRun
<1>4. IsTrail(trail') /\ (ok => Event(opened, child.outcome) \in Range(trail'))
  BY SMTT(30), <1>2, <1>3, TrailGrows
<1>5. /\ Event(opened, child.outcome).outcome = child.outcome
      /\ Event(opened, child.outcome).items \subseteq opened
  BY SMTT(30) DEF Event
<1>6. told'.recorded => \E e \in Range(trail') : e.outcome = told'.outcome /\ e.items \subseteq opened
  BY Zenon, <1>3, <1>4, <1>5
<1>7. WholeValues'
  BY <1>1 DEF DeliveryInv, ValuesOK, WholeValues, HoldingValues
<1>8. StageOK' /\ ValuesOK'
  BY SMTT(30), <1>1, <1>2, <1>7 DEF StageOK, ValuesOK, DeliveryStages, Unopened, HoldingValues
<1>9. AllOrNothing'
  BY <1>1, <1>7 DEF DeliveryInv, AllOrNothing, WholeValues
<1>10. Governed(task) => receipt' = <<"receipt">>
  BY <1>1 DEF DeliveryInv, ReceiptOK, HoldingValues
<1>11. ReceiptOK' /\ TrailOK'
  BY ZenonT(60), <1>1, <1>4, <1>10 DEF ReceiptOK, TrailOK
<1>12. NothingEscapes'
  BY <1>1, <1>6, <1>10 DEF DeliveryInv, NothingEscapes
<1> QED BY SMTT(30), <1>8, <1>9, <1>11, <1>12 DEF DeliveryInv

\* The invariant holds at first and every step keeps it.
LEMMA DeliveryInductive ==
    /\ DeliveryInit => DeliveryInv
    /\ DeliveryInv /\ [DeliveryNext]_deliveryVars => DeliveryInv'
<1>1. ASSUME DeliveryInit PROVE DeliveryInv
  <2>1. /\ task \in Tasks /\ stage = "start" /\ opened = {} /\ values = <<>> /\ shown = {} /\ trail = <<>>
        /\ told = Idle /\ child = Idle /\ printed = Nothing /\ outfile = NoFile
    BY Zenon, <1>1 DEF DeliveryInit
  <2>2. ~Delivered
    BY <2>1 DEF Delivered
  <2>3. IsTrail(trail)
    BY <2>1 DEF IsTrail
  <2>4. StageOK
    BY <2>1, <2>2 DEF StageOK, DeliveryStages, Unopened, HoldingValues
  <2>5. ValuesOK /\ ReceiptOK /\ TrailOK /\ AllOrNothing
    BY <2>1, <2>2, <2>3 DEF ValuesOK, ReceiptOK, TrailOK, AllOrNothing, HoldingValues
  <2>6. NothingEscapes
    BY <2>1, <2>2 DEF NothingEscapes
  <2> QED BY <2>4, <2>5, <2>6 DEF DeliveryInv
<1>2. ASSUME DeliveryInv, DeliveryNext PROVE DeliveryInv'
  BY SMTT(30), <1>2, LooksKeep, LoadKeeps, OpenItemsKeeps, AskKeeps, AuthorizeKeeps, PublishKeeps, AuditKeeps,
     WriteKeeps, LaunchKeeps, HelperKeeps, ChildEndKeeps, RecordKeeps, OthersKeep DEF DeliveryNext
<1>3. ASSUME DeliveryInv, UNCHANGED deliveryVars PROVE DeliveryInv'
  <2>1. UNCHANGED <<task, stage, snapshot, opened, request, values, results, told>>
    BY <1>3 DEF deliveryVars
  <2> USE DEF results
  <2>2. StageOK'
    BY <1>3, <2>1, SameValues DEF DeliveryInv, StageOK, Delivered
  <2>3. ValuesOK' /\ ReceiptOK' /\ TrailOK' /\ AllOrNothing' /\ NothingEscapes'
    BY Zenon, <1>3, <2>1 DEF DeliveryInv, ValuesOK, ReceiptOK, TrailOK, AllOrNothing, NothingEscapes,
                      Delivered, WholeValues
  <2> QED BY <2>2, <2>3 DEF DeliveryInv
<1> QED BY <1>1, <1>2, <1>3

\* A refused command decrypts and delivers nothing, and what is delivered is
\* complete, from one revision, and the caller's to read (open_items,
\* resolve_values).
THEOREM DeliveriesWhole == DeliverySpec => []AllOrNothing
<1>1. DeliveryInv => AllOrNothing
  BY DEF DeliveryInv
<1> QED BY <1>1, DeliveryInductive, PTL DEF DeliverySpec

\* No value goes out without its receipt or its audit event, no concealed one
\* comes back out of a child, and no child sees a variable of Jury's own
\* (publish_governed, run_resolved).
THEOREM DeliveriesAccounted == DeliverySpec => []NothingEscapes
<1>1. DeliveryInv => NothingEscapes
  BY DEF DeliveryInv
<1> QED BY <1>1, DeliveryInductive, PTL DEF DeliverySpec

-----------------------------------------------------------------------------
(* Joined sequences *)

\* Induction up to a bound, for a set.
LEMMA Stepwise ==
    ASSUME NEW top \in Nat, NEW G, 0 \in G, \A k \in 1 .. top : k - 1 \in G => k \in G
    PROVE  \A k \in 0 .. top : k \in G
<1> DEFINE bad == (0 .. top) \ G
<1>1. bad # {} => \E m \in bad : \A n \in bad : m =< n
  <2>1. bad \in SUBSET Nat
    OBVIOUS
  <2> HIDE DEF bad
  <2> QED BY <2>1, LeastNumber
<1>2. ASSUME NEW m \in bad, \A n \in bad : m =< n PROVE FALSE
  <2>1. m \in 1 .. top /\ m \in Nat
    OBVIOUS
  <2>2. m - 1 \notin bad
    <3>1. ~(m =< m - 1)
      BY <2>1
    <3> HIDE DEF bad
    <3> QED BY <1>2, <3>1
  <2>3. m - 1 \in 0 .. top
    BY <2>1
  <2> QED BY <2>1, <2>2, <2>3
<1> QED BY <1>1, <1>2

-----------------------------------------------------------------------------
(* Sequences of sequences *)

Joins(parts) ==
  CHOOSE f : f = [n \in 0 .. Len(parts) |-> IF n = 0 THEN <<>> ELSE f[n - 1] \o parts[n]]

LEMMA JoinsDefined ==
    ASSUME NEW parts, Len(parts) \in Nat
    PROVE  /\ Joined(parts) = Joins(parts)[Len(parts)]
           /\ Joins(parts)[0] = <<>>
           /\ \A n \in 1 .. Len(parts) : Joins(parts)[n] = Joins(parts)[n - 1] \o parts[n]
<1> DEFINE Good(f, k) == f = [n \in 0 .. k |-> IF n = 0 THEN <<>> ELSE f[n - 1] \o parts[n]]
           G == {k \in Nat : \E f : Good(f, k)}
<1>1. \A k \in 0 .. Len(parts) : k \in G
  <2>1. 0 \in G
    <3>1. Good([n \in 0 .. 0 |-> <<>>], 0)
      OBVIOUS
    <3> QED BY Zenon, <3>1
  <2>2. ASSUME NEW k \in 1 .. Len(parts), k - 1 \in G PROVE k \in G
    <3>1. k - 1 \in Nat /\ k \in Nat
      OBVIOUS
    <3>2. PICK f : Good(f, k - 1)
      BY Zenon, <2>2
    <3> DEFINE g == [n \in 0 .. k |-> IF n = 0 THEN <<>> ELSE f[n - 1] \o parts[n]]
    <3>3. \A n \in 0 .. k - 1 : g[n] = f[n]
      BY <3>1, <3>2
    <3>4. \A n \in 0 .. k : n # 0 => n - 1 \in 0 .. k - 1
      BY <3>1
    <3>5. \A n \in 0 .. k : n # 0 => g[n - 1] = f[n - 1]
      BY Zenon, <3>3, <3>4
    <3>6. g = [n \in 0 .. k |-> IF n = 0 THEN <<>> ELSE g[n - 1] \o parts[n]]
      <4> HIDE DEF Good
      <4> QED BY Zenon, <3>5
    <3> QED BY Zenon, <3>1, <3>6
  <2> HIDE DEF G
  <2> QED BY ZenonT(60), <2>1, <2>2, Stepwise
<1>2. PICK f : Good(f, Len(parts))
  <2>1. Len(parts) \in G
    <3> HIDE DEF G
    <3> QED BY <1>1
  <2> HIDE DEF Good
  <2> QED BY Zenon, <2>1
<1>3. Good(Joins(parts), Len(parts))
  BY Zenon, <1>2 DEF Joins
<1>4. Joined(parts) = Joins(parts)[Len(parts)]
  BY Zenon DEF Joined, Joins
<1> HIDE DEF Good
<1>5. Joins(parts) = [n \in 0 .. Len(parts) |-> IF n = 0 THEN <<>> ELSE Joins(parts)[n - 1] \o parts[n]]
  BY Zenon, <1>3 DEF Good
<1>6. ASSUME NEW J, J = [n \in 0 .. Len(parts) |-> IF n = 0 THEN <<>> ELSE J[n - 1] \o parts[n]]
      PROVE  J[0] = <<>> /\ \A n \in 1 .. Len(parts) : J[n] = J[n - 1] \o parts[n]
  BY <1>6
<1> QED BY Zenon, <1>4, <1>5, <1>6

LEMMA JoinsTyped ==
    ASSUME NEW T, NEW parts \in Seq(Seq(T))
    PROVE  /\ \A n \in 0 .. Len(parts) : Joins(parts)[n] \in Seq(T)
           /\ Joined(parts) \in Seq(T)
<1>0. Len(parts) \in Nat /\ \A n \in 1 .. Len(parts) : parts[n] \in Seq(T)
  OBVIOUS
<1> PICK J : J = Joins(parts)
  OBVIOUS
<1>1. /\ J[0] = <<>> /\ \A n \in 1 .. Len(parts) : J[n] = J[n - 1] \o parts[n]
      /\ Joined(parts) = J[Len(parts)]
  BY Zenon, <1>0, JoinsDefined
<1> DEFINE G == {n \in Nat : J[n] \in Seq(T)}
<1>2. 0 \in G
  <2>1. J[0] \in Seq(T)
    <3>1. <<>> \in Seq(T)
      OBVIOUS
    <3> QED BY Zenon, <1>1, <3>1
  <2> QED BY <2>1
<1>3. ASSUME NEW k \in 1 .. Len(parts), k - 1 \in G PROVE k \in G
  <2>1. J[k - 1] \in Seq(T) /\ parts[k] \in Seq(T) /\ k \in Nat
    BY <1>0, <1>3
  <2>2. J[k - 1] \o parts[k] \in Seq(T)
    BY <2>1
  <2> QED BY Zenon, <1>1, <2>1, <2>2
<1>4. \A k \in 0 .. Len(parts) : k \in G
  <2> HIDE DEF G
  <2> QED BY Zenon, <1>0, <1>2, <1>3, Stepwise
<1>5. \A k \in 0 .. Len(parts) : J[k] \in Seq(T)
  BY <1>4
<1>6. Len(parts) \in 0 .. Len(parts)
  BY <1>0
<1> QED BY Zenon, <1>1, <1>5, <1>6

\* What is joined of two sequences is what is joined of the first, then of
\* the second.
LEMMA JoinedConcatenation ==
    ASSUME NEW T, NEW s \in Seq(Seq(T)), NEW t \in Seq(Seq(T))
    PROVE  Joined(s \o t) = Joined(s) \o Joined(t)
<1>b. \A a, b, c \in Seq(T) : (a \o b) \o c = a \o (b \o c)
  OBVIOUS
<1>c. PICK st : st = s \o t
  BY Zenon
<1>d. PICK m : m = Len(s)
  OBVIOUS
<1>0. /\ m \in Nat /\ Len(t) \in Nat /\ Len(st) = m + Len(t) /\ st \in Seq(Seq(T))
      /\ \A n \in 1 .. m : st[n] = s[n] /\ s[n] \in Seq(T)
      /\ \A n \in 1 .. Len(t) : st[m + n] = t[n] /\ t[n] \in Seq(T)
  BY <1>c, <1>d
<1>e. PICK J, S, U : J = Joins(st) /\ S = Joins(s) /\ U = Joins(t)
  OBVIOUS
<1>a. Len(st) \in Nat
  BY <1>0
<1>1. /\ J[0] = <<>> /\ \A n \in 1 .. Len(st) : J[n] = J[n - 1] \o st[n]
      /\ Joined(st) = J[Len(st)]
  BY Zenon, <1>a, <1>e, JoinsDefined
<1>2. /\ S[0] = <<>> /\ \A n \in 1 .. m : S[n] = S[n - 1] \o s[n]
      /\ Joined(s) = S[m] 
  BY Zenon, <1>0, <1>d, <1>e, JoinsDefined
<1>3. /\ U[0] = <<>> /\ \A n \in 1 .. Len(t) : U[n] = U[n - 1] \o t[n]
      /\ Joined(t) = U[Len(t)]
  BY Zenon, <1>0, <1>d, <1>e, JoinsDefined
<1>4. /\ \A n \in 0 .. m : S[n] \in Seq(T)
      /\ \A n \in 0 .. Len(t) : U[n] \in Seq(T)
  BY Zenon, <1>d, <1>e, JoinsTyped
<1> DEFINE G == {n \in Nat : J[n] = S[n]}
           H == {n \in Nat : J[m + n] = S[m] \o U[n]}
<1>5. \A k \in 0 .. m : k \in G
  <2>1. 0 \in G
    BY <1>1, <1>2
  <2>2. ASSUME NEW k \in 1 .. m, k - 1 \in G PROVE k \in G
    <3>1. k \in 1 .. Len(st) /\ k \in Nat
      BY <1>0
    <3>2. J[k] = J[k - 1] \o st[k] /\ S[k] = S[k - 1] \o s[k] /\ st[k] = s[k]
      BY Zenon, <1>0, <1>1, <1>2, <3>1
    <3>3. J[k - 1] = S[k - 1]
      BY <2>2
    <3>4. J[k] = S[k]
      BY Zenon, <3>2, <3>3
    <3> QED BY <3>1, <3>4
  <2> HIDE DEF G
  <2> QED BY Zenon, <1>0, <2>1, <2>2, Stepwise
<1>6. S[m] \in Seq(T) /\ J[m] = S[m]
  <2>1. m \in 0 .. m
    BY <1>0
  <2> QED BY <1>4, <1>5, <2>1
<1>7. \A k \in 0 .. Len(t) : k \in H
  <2>1. 0 \in H
    <3>1. S[m] \o <<>> = S[m]
      BY <1>6
    <3>2. m + 0 = m
      BY <1>0
    <3>3. J[m + 0] = S[m] \o U[0]
      BY Zenon, <1>3, <1>6, <3>1, <3>2
    <3> QED BY Zenon, <3>3
  <2>2. ASSUME NEW k \in 1 .. Len(t), k - 1 \in H PROVE k \in H
    <3>1. /\ m + k \in 1 .. Len(st) /\ (m + k) - 1 = m + (k - 1) /\ k \in Nat
          /\ k - 1 \in 0 .. Len(t)
      BY <1>0
    <3>2. J[m + (k - 1)] = S[m] \o U[k - 1]
      BY Zenon, <2>2
    <3>3. U[k - 1] \in Seq(T) /\ t[k] \in Seq(T) /\ st[m + k] = t[k]
      BY Zenon, <1>0, <1>4, <3>1
    <3>4. J[m + k] = J[m + (k - 1)] \o t[k]
      BY Zenon, <1>1, <3>1, <3>3
    <3>5. (S[m] \o U[k - 1]) \o t[k] = S[m] \o (U[k - 1] \o t[k])
      BY Zenon, <1>6, <3>3, <1>b
    <3>6. J[m + k] = S[m] \o U[k]
      BY Zenon, <1>3, <3>2, <3>4, <3>5
    <3> QED BY Zenon, <3>1, <3>6
  <2> HIDE DEF H
  <2> QED BY Zenon, <1>0, <2>1, <2>2, Stepwise
<1>8. J[m + Len(t)] = S[m] \o U[Len(t)]
  <2>1. Len(t) \in 0 .. Len(t)
    BY <1>0
  <2> QED BY Zenon, <1>7, <2>1
<1> QED BY Zenon, <1>0, <1>1, <1>2, <1>3, <1>8, <1>c

LEMMA JoinedOne ==
    ASSUME NEW T, NEW s \in Seq(T)
    PROVE  Joined(<<s>>) = s
<1>1. Len(<<s>>) = 1 /\ 1 \in 1 .. Len(<<s>>) /\ <<s>>[1] = s /\ 1 - 1 = 0
  OBVIOUS
<1>2. Joined(<<s>>) = Joins(<<s>>)[1] /\ Joins(<<s>>)[0] = <<>> /\ Joins(<<s>>)[1] = Joins(<<s>>)[0] \o s
  BY Zenon, <1>1, JoinsDefined
<1>3. <<>> \o s = s
  OBVIOUS
<1> QED BY Zenon, <1>2, <1>3

-----------------------------------------------------------------------------
(* Public text in chunks *)

LEMMA LeastOfTwo ==
    ASSUME NEW a \in Nat, NEW b \in Nat
    PROVE  Min({a, b}) = IF a =< b THEN a ELSE b
<1> DEFINE least == IF a =< b THEN a ELSE b
<1>1. least \in {a, b} /\ \A y \in {a, b} : least =< y
  OBVIOUS
<1>2. \A x \in {a, b} : (\A y \in {a, b} : x =< y) => x = least
  OBVIOUS
<1> HIDE DEF least
<1>3. (CHOOSE x \in {a, b} : \A y \in {a, b} : x =< y) = least
  BY <1>1, <1>2
<1> QED BY <1>3 DEF Min, least

LEMMA ChunksJoin ==
    ASSUME NEW T, NEW text \in Seq(T)
    PROVE  Chunks(text) \in Seq(Seq(T)) /\ Joined(Chunks(text)) = text
<1> DEFINE L == Len(text)
           N == (L + Chunk - 1) \div Chunk
           C == Chunks(text)
           upto(k) == Min({k * Chunk, L})
<1>1. Chunk \in Nat /\ Chunk >= 1 /\ L \in Nat
  BY DeliveryAssumption
<1>2. N \in Nat /\ N * Chunk >= L
  BY <1>1
<1>3. \A k \in Nat : k * Chunk \in Nat
  BY <1>1
<1>4. \A k \in Nat : upto(k) = IF k * Chunk =< L THEN k * Chunk ELSE L
  BY <1>1, <1>3, LeastOfTwo
<1> HIDE DEF N
<1>5. C = [k \in 1 .. N |-> SubSeq(text, (k - 1) * Chunk + 1, upto(k))]
  BY DEF Chunks, N
<1>6. \A k \in 1 .. N : (k - 1) * Chunk \in Nat /\ k * Chunk = (k - 1) * Chunk + Chunk
  BY <1>1, <1>2
<1> HIDE DEF upto, L
<1>7. \A k \in 1 .. N : C[k] \in Seq(T)
  <2> TAKE k \in 1 .. N
  <2>1. (k - 1) * Chunk + 1 \in Nat /\ (k - 1) * Chunk + 1 >= 1 /\ upto(k) \in Nat /\ upto(k) =< L
    BY <1>1, <1>2, <1>3, <1>4, <1>6
  <2>2. SubSeq(text, (k - 1) * Chunk + 1, upto(k)) \in Seq(T)
    BY <2>1 DEF L
  <2> QED BY <1>5, <2>2
<1>8. C \in Seq(Seq(T)) /\ Len(C) = N
  BY <1>2, <1>5, <1>7
<1>9. PICK J : J = Joins(C)
  OBVIOUS
<1>10. /\ J[0] = <<>> /\ \A k \in 1 .. N : J[k] = J[k - 1] \o C[k]
       /\ Joined(C) = J[N]
  BY Zenon, <1>2, <1>8, <1>9, JoinsDefined
<1> DEFINE G == {k \in Nat : J[k] = SubSeq(text, 1, upto(k))}
<1> HIDE DEF C
<1>11. 0 \in G
  <2>1. upto(0) = 0
    BY <1>1, <1>4
  <2>2. SubSeq(text, 1, 0) = <<>>
    OBVIOUS
  <2> QED BY Zenon, <1>10, <2>1, <2>2
<1>12. ASSUME NEW k \in 1 .. N, k - 1 \in G PROVE k \in G
  <2>1. PICK a, b : a = upto(k - 1) /\ b = upto(k)
    OBVIOUS
  <2>2. k \in Nat /\ k - 1 \in Nat
    BY <1>2
  <2>3. PICK c : c = (k - 1) * Chunk
    OBVIOUS
  <2>4. c \in Nat /\ k * Chunk = c + Chunk
    BY <1>6, <2>3
  <2>5. a = IF c =< L THEN c ELSE L
    BY <1>4, <2>1, <2>2, <2>3
  <2>6. b = IF c + Chunk =< L THEN c + Chunk ELSE L
    BY <1>4, <2>1, <2>2, <2>4
  <2>7. J[k] = SubSeq(text, 1, a) \o SubSeq(text, c + 1, b)
    BY Zenon, <1>5, <1>10, <1>12, <2>1, <2>3 DEF C
  <2>8. a \in Nat /\ b \in Nat /\ a =< b /\ b =< L
    BY <1>1, <2>4, <2>5, <2>6
  <2>9. SubSeq(text, 1, a) \o SubSeq(text, c + 1, b) = SubSeq(text, 1, b)
    <3>1. CASE c =< L
      <4>1. a = c
        BY <2>5, <3>1
      <4> QED BY <2>8, <4>1 DEF L
    <3>2. CASE c > L
      <4>1. a = L /\ b = L
        BY <1>1, <2>4, <2>5, <2>6, <3>2
      <4>2. SubSeq(text, c + 1, b) = <<>>
        BY <1>1, <2>4, <3>2, <4>1
      <4>3. SubSeq(text, 1, a) \in Seq(T)
        BY <2>8 DEF L
      <4>4. SubSeq(text, 1, a) \o <<>> = SubSeq(text, 1, a)
        BY <4>3
      <4> QED BY Zenon, <4>1, <4>2, <4>4
    <3>3. c =< L \/ c > L
      BY <1>1, <2>4
    <3> QED BY Zenon, <3>1, <3>2, <3>3
  <2> QED BY Zenon, <2>1, <2>2, <2>7, <2>9
<1>13. \A k \in 0 .. N : k \in G
  <2> HIDE DEF G
  <2> QED BY Zenon, <1>2, <1>11, <1>12, Stepwise
<1>14. J[N] = SubSeq(text, 1, upto(N))
  BY <1>2, <1>13
<1>15. upto(N) = L
  <2>1. N * Chunk \in Nat
    BY <1>2, <1>3
  <2> QED BY <1>1, <1>2, <1>4, <2>1
<1>16. SubSeq(text, 1, L) = text
  BY DEF L
<1> QED BY Zenon, <1>8, <1>10, <1>14, <1>15, <1>16 DEF C
-----------------------------------------------------------------------------
(* The pieces of a template *)

\* Every place of a set in order holds a number of the set.
LEMMA OrderMembers ==
    ASSUME NEW S \in SUBSET Nat, IsFiniteSet(S)
    PROVE  /\ Cardinality(S) \in Nat
           /\ \A n \in 1 .. Cardinality(S) : InOrder(S)[n] \in S
<1> DEFINE below(x) == {y \in S : y < x}
           N == Cardinality(S)
           G == {k \in Nat : k < N => \E x \in S : Cardinality(below(x)) = k}
<1>1. N \in Nat /\ (N = 0 <=> S = {})
  BY Zenon, FS_CardinalityType, FS_EmptySet
<1>2. \A x : below(x) \in SUBSET S /\ IsFiniteSet(below(x)) /\ Cardinality(below(x)) \in Nat
  BY Zenon, FS_Subset, FS_CardinalityType
<1>3. 0 \in G
  <2> SUFFICES ASSUME 0 < N PROVE \E x \in S : Cardinality(below(x)) = 0
    OBVIOUS
  <2>1. S # {}
    <3> HIDE DEF N
    <3> QED BY <1>1
  <2>2. PICK m \in S : \A n \in S : m =< n
    BY <2>1, LeastNumber
  <2>3. below(m) = {}
    <3>1. \A y \in S : y \in Nat /\ m \in Nat
      OBVIOUS
    <3>2. \A y \in S : ~(y < m)
      BY <2>2, <3>1
    <3> QED BY Zenon, <3>2
  <2> HIDE DEF below
  <2> QED BY Zenon, <2>2, <2>3, FS_EmptySet
<1>4. ASSUME NEW k \in 1 .. N, k - 1 \in G PROVE k \in G
  <2>1. k \in Nat /\ k - 1 \in Nat /\ k - 1 < N
    BY <1>1 DEF N
  <2> SUFFICES ASSUME k < N PROVE \E x \in S : Cardinality(below(x)) = k
    BY <2>1
  <2>2. PICK x \in S : Cardinality(below(x)) = k - 1
    BY Zenon, <1>4, <2>1
  <2> DEFINE low == below(x) \union {x}
             high == S \ low
  <2>3. x \notin below(x)
    OBVIOUS
  <2>4. Cardinality(low) = Cardinality(below(x)) + 1
    BY Zenon, <1>2, <2>3, FS_AddElement
  <2>5. Cardinality(low) = k
    <3> HIDE DEF low, below
    <3> QED BY <2>1, <2>2, <2>4
  <2>6. high # {}
    <3>1. low \subseteq S
      OBVIOUS
    <3>2. high = {} => low = S
      BY <3>1
    <3>3. low = S => k = N
      BY Zenon, <2>5
    <3>4. k # N
      <4> HIDE DEF N
      <4> QED BY <1>1, <2>1
    <3> QED BY Zenon, <3>2, <3>3, <3>4
  <2>7. PICK m \in high : \A n \in high : m =< n
    <3>1. high \in SUBSET Nat
      BY Zenon
    <3> HIDE DEF high
    <3> QED BY <2>6, <3>1, LeastNumber
  <2>8. m \in S /\ x < m
    BY <2>7
  <2>9. below(m) = low
    <3>1. \A y \in S : y \in Nat /\ m \in Nat /\ x \in Nat
      BY <2>8
    <3>2. \A y \in S : y \in high <=> ~(y < x) /\ y # x
      BY Zenon
    <3>3. \A y \in S : y < m <=> y < x \/ y = x
      <4> HIDE DEF high
      <4> QED BY <2>7, <2>8, <3>1, <3>2
    <3> QED BY Zenon, <2>8, <3>3
  <2> HIDE DEF low, below
  <2> QED BY Zenon, <2>5, <2>8, <2>9
<1>5. \A k \in 0 .. N : k \in G
  <2> HIDE DEF G, N
  <2> QED BY <1>1, <1>3, <1>4, Stepwise
<1>6. ASSUME NEW n \in 1 .. N PROVE InOrder(S)[n] \in S
  <2>1. n - 1 \in 0 .. N /\ n - 1 < N
    <3> HIDE DEF N
    <3> QED BY <1>1
  <2>2. \E x \in S : Cardinality(below(x)) = n - 1
    BY Zenon, <1>5, <2>1
  <2>3. (CHOOSE x \in S : Cardinality({y \in S : y < x}) = n - 1) \in S
    BY Zenon, <2>2
  <2>4. InOrder(S)[n] = CHOOSE x \in S : Cardinality({y \in S : y < x}) = n - 1
    BY Zenon DEF InOrder
  <2> QED BY Zenon, <2>3, <2>4
<1> QED BY <1>1, <1>6

\* A piece is a stretch of the template, and one at a reference begins with it.
LEMMA PiecesTyped ==
    ASSUME NEW t, t.template \in Seq(Range(t.template))
    PROVE  /\ Len(Pieces(t)) \in Nat /\ DOMAIN Pieces(t) = 1 .. Len(Pieces(t))
           /\ \A n \in DOMAIN Pieces(t) :
                /\ Pieces(t)[n].reference \in BOOLEAN
                /\ Pieces(t)[n].text \in Seq(Range(t.template))
                /\ Pieces(t)[n].reference =>
                     Pieces(t)[n].text[1] \in {t.template[i] : i \in TemplateReferences(t)}
<1> DEFINE s == t.template
           marks == TemplateReferences(t)
           plain(i) == ~IsBrace(t.template[i]) /\ i \notin marks
           starts == {i \in DOMAIN t.template :
                        \/ i \in marks
                        \/ plain(i) /\ (i = 1 \/ ~plain(i - 1))}
           stretch(i) == {j \in DOMAIN t.template : i =< j /\ \A k \in i .. j : plain(k)}
           end(i) == IF i \in marks THEN i ELSE Max(stretch(i))
           order == InOrder(starts)
           N == Cardinality(starts)
<1>1. DOMAIN s = 1 .. Len(s) /\ Len(s) \in Nat /\ IsFiniteSet(1 .. Len(s))
  BY FS_Interval
<1>2. \A S \in SUBSET DOMAIN s : S \in SUBSET Nat /\ IsFiniteSet(S)
  <2>1. \A S \in SUBSET (1 .. Len(s)) : IsFiniteSet(S)
    BY Zenon, <1>1, FS_Subset
  <2> QED BY <1>1, <2>1
<1>3. starts \in SUBSET DOMAIN s
  BY Zenon
<1>4. N \in Nat /\ \A n \in 1 .. N : order[n] \in starts
  <2> HIDE DEF starts
  <2> QED BY Zenon, <1>2, <1>3, OrderMembers
<1>5. DOMAIN order = 1 .. N
  BY Zenon DEF InOrder
<1>6. Pieces(t) = [n \in DOMAIN order |->
                     [reference |-> order[n] \in marks,
                      text |-> SubSeq(s, order[n], end(order[n]))]]
  BY Zenon DEF Pieces
<1>7. ASSUME NEW i \in starts PROVE end(i) \in DOMAIN s /\ i \in DOMAIN s
  <2>0. i \in DOMAIN s
    BY Zenon
  <2>1. CASE i \in marks
    BY Zenon, <2>0, <2>1
  <2>2. CASE i \notin marks
    <3>1. plain(i)
      BY Zenon, <2>2
    <3>2. i =< i /\ i .. i = {i}
      BY <1>1, <2>0
    <3>3. i \in stretch(i)
      BY Zenon, <2>0, <3>1, <3>2
    <3>4. stretch(i) \in SUBSET DOMAIN s /\ stretch(i) # {}
      BY Zenon, <3>3
    <3>5. Max(stretch(i)) \in stretch(i)
      <4> HIDE DEF stretch
      <4> QED BY Zenon, <1>2, <3>4, GreatestNumber
    <3>6. Max(stretch(i)) \in DOMAIN s
      <4> HIDE DEF stretch
      <4> QED BY Zenon, <3>4, <3>5
    <3> QED BY Zenon, <2>0, <2>2, <3>6
  <2> QED BY Zenon, <2>1, <2>2
<1>8. \A i, j \in DOMAIN s : SubSeq(s, i, j) \in Seq(Range(s))
  BY <1>1
<1>9. \A i \in DOMAIN s : SubSeq(s, i, i)[1] = s[i]
  BY <1>1
<1> HIDE DEF starts, end, marks, order, N
<1>10. DOMAIN Pieces(t) = 1 .. N /\ \A n \in 1 .. N :
         Pieces(t)[n] = [reference |-> order[n] \in marks,
                         text |-> SubSeq(s, order[n], end(order[n]))]
  BY Zenon, <1>5, <1>6
<1>11. Len(Pieces(t)) = N
  BY <1>4, <1>10
<1>12. ASSUME NEW n \in 1 .. N
       PROVE  /\ Pieces(t)[n].reference \in BOOLEAN
              /\ Pieces(t)[n].text \in Seq(Range(s))
              /\ Pieces(t)[n].reference => Pieces(t)[n].text[1] \in {s[i] : i \in marks}
  <2>1. PICK i : i = order[n]
    OBVIOUS
  <2>2. Pieces(t)[n] = [reference |-> i \in marks, text |-> SubSeq(s, i, end(i))]
    BY Zenon, <1>10, <2>1
  <2>a. (i \in marks) \in BOOLEAN
    BY SMT
  <2>b. PICK b \in BOOLEAN : b <=> i \in marks
    BY Zenon, <2>a
  <2>c. (i \in marks) = b
    BY Zenon, <2>b
  <2>d. Pieces(t)[n] = [reference |-> b, text |-> SubSeq(s, i, end(i))]
    BY Zenon, <2>2, <2>c
  <2>e. PICK p, x : p = Pieces(t)[n] /\ x = SubSeq(s, i, end(i))
    BY Zenon
  <2>f. p = [reference |-> b, text |-> x]
    BY Zenon, <2>d, <2>e
  <2>g. p.reference = b /\ p.text = x
    BY Zenon, <2>f
  <2>3. Pieces(t)[n].reference = b /\ Pieces(t)[n].text = SubSeq(s, i, end(i))
    BY Zenon, <2>e, <2>g
  <2>4. i \in DOMAIN s /\ end(i) \in DOMAIN s
    BY Zenon, <1>4, <1>7, <2>1
  <2>5. i \in marks => end(i) = i
    BY Zenon DEF end
  <2>6. i \in marks => SubSeq(s, i, end(i))[1] = s[i]
    BY Zenon, <1>9, <2>4, <2>5
  <2>7. i \in marks => s[i] \in {s[m] : m \in marks}
    BY Zenon
  <2>8. SubSeq(s, i, end(i)) \in Seq(Range(s))
    BY Zenon, <1>8, <2>4
  <2> QED BY Zenon, <2>b, <2>3, <2>6, <2>7, <2>8
<1> QED BY Zenon, <1>4, <1>10, <1>11, <1>12 DEF marks

-----------------------------------------------------------------------------
(* Filling in an action's arguments *)

\* What one argument stands for.
Filling(a) == IF a.target # {} THEN <<Reviewed(a.target)>> ELSE a.text

Filled(arguments) == [n \in DOMAIN arguments |-> Filling(arguments[n])]

LEMMA FilledTyped ==
    ASSUME NEW R, NEW T, \A a \in R : Filling(a) \in Seq(T), NEW s \in Seq(R)
    PROVE  Filled(s) \in Seq(Seq(T)) /\ Substituted(s) = Joined(Filled(s))
<1>1. DOMAIN s = 1 .. Len(s) /\ Len(s) \in Nat /\ \A n \in 1 .. Len(s) : s[n] \in R
  OBVIOUS
<1>2. Filled(s) = [n \in 1 .. Len(s) |-> Filling(s[n])]
  BY Zenon, <1>1 DEF Filled
<1>3. \A n \in 1 .. Len(s) : Filling(s[n]) \in Seq(T)
  BY Zenon, <1>1
<1>4. Filled(s) \in Seq(Seq(T))
  BY <1>1, <1>2, <1>3
<1>5. Substituted(s) = Joined(Filled(s))
  BY Zenon DEF Substituted, Filled, Filling
<1> QED BY <1>4, <1>5

LEMMA SameSequence ==
    ASSUME NEW T, NEW a \in Seq(T), NEW b \in Seq(T), Len(a) = Len(b),
           \A n \in 1 .. Len(a) : a[n] = b[n]
    PROVE  a = b
OBVIOUS

LEMMA SequenceOf ==
    ASSUME NEW n \in Nat, NEW X, NEW f \in [1 .. n -> X]
    PROVE  f \in Seq(X) /\ Len(f) = n
OBVIOUS

LEMMA Together ==
    ASSUME NEW T, NEW a \in Seq(T), NEW b \in Seq(T)
    PROVE  a \o b \in Seq(T) /\ Len(a \o b) = Len(a) + Len(b)
OBVIOUS

LEMMA Places ==
    ASSUME NEW T, NEW a \in Seq(T), NEW b \in Seq(T), NEW k, k = Len(a) + Len(b), NEW n \in 1 .. k
    PROVE  (a \o b)[n] = IF n =< Len(a) THEN a[n] ELSE b[n - Len(a)]
OBVIOUS

LEMMA SubstitutedConcatenation ==
    ASSUME NEW R, NEW T, \A a \in R : Filling(a) \in Seq(T), NEW s \in Seq(R), NEW t \in Seq(R)
    PROVE  Substituted(s \o t) = Substituted(s) \o Substituted(t)
<1>1. s \o t \in Seq(R)
  OBVIOUS
<1>2. PICK F : F = [a \in R |-> Filling(a)]
  BY Zenon
<1>3. \A q \in Seq(R) : Filled(q) = [n \in DOMAIN q |-> F[q[n]]]
  <2>1. \A q \in Seq(R) : \A n \in DOMAIN q : q[n] \in R
    OBVIOUS
  <2> QED BY Zenon, <1>2, <2>1 DEF Filled
<1>4. \A a \in R : F[a] \in Seq(T)
  BY Zenon, <1>2
<1>5. [n \in DOMAIN (s \o t) |-> F[(s \o t)[n]]] = [n \in DOMAIN s |-> F[s[n]]] \o [n \in DOMAIN t |-> F[t[n]]]
  <2>0. PICK q \in Seq(R) : q = s \o t
    BY Zenon, <1>1
  <2>1. PICK u, v, w : u = [n \in DOMAIN s |-> F[s[n]]] /\ v = [n \in DOMAIN t |-> F[t[n]]]
                       /\ w = [n \in DOMAIN q |-> F[q[n]]]
    BY Zenon
  <2>2. Len(s) \in Nat /\ Len(t) \in Nat /\ DOMAIN s = 1 .. Len(s) /\ DOMAIN t = 1 .. Len(t)
    OBVIOUS
  <2>3. PICK K \in Nat : K = Len(s) + Len(t)
    BY <2>2
  <2>4. DOMAIN q = 1 .. K /\ \A n \in 1 .. K : q[n] \in R
    BY SMTT(30), <2>0, <2>2, <2>3
  <2>5. u \in Seq(Seq(T)) /\ Len(u) = Len(s) /\ \A n \in 1 .. Len(s) : u[n] = F[s[n]]
    BY SMTT(30), <1>4, <2>1, <2>2
  <2>6. v \in Seq(Seq(T)) /\ Len(v) = Len(t) /\ \A n \in 1 .. Len(t) : v[n] = F[t[n]]
    BY <1>4, <2>1, <2>2
  <2>7. w = [n \in 1 .. K |-> F[q[n]]] /\ \A n \in 1 .. K : F[q[n]] \in Seq(T)
    BY Zenon, <1>4, <2>1, <2>4
  <2>8. w \in Seq(Seq(T)) /\ Len(w) = K /\ \A n \in 1 .. K : w[n] = F[q[n]]
    BY <2>7
  <2>9. PICK p : p = u \o v
    BY Zenon
  <2>10. p \in Seq(Seq(T)) /\ Len(p) = K
    <3>1. Len(u) + Len(v) = K
      BY <2>3, <2>5, <2>6
    <3>2. u \o v \in Seq(Seq(T)) /\ Len(u \o v) = Len(u) + Len(v)
      BY Zenon, <2>5, <2>6, Together
    <3> QED BY Zenon, <2>9, <3>1, <3>2
  <2>11. \A n \in 1 .. K : p[n] = IF n =< Len(s) THEN u[n] ELSE v[n - Len(s)]
    <3>1. K = Len(u) + Len(v)
      BY <2>3, <2>5, <2>6
    <3>2. ASSUME NEW n \in 1 .. K PROVE (u \o v)[n] = IF n =< Len(u) THEN u[n] ELSE v[n - Len(u)]
      BY SMTT(30), <2>5, <2>6, <3>1, Places
    <3> QED BY Zenon, <2>5, <2>9, <3>2
  <2>12. \A n \in 1 .. K : q[n] = IF n =< Len(s) THEN s[n] ELSE t[n - Len(s)]
    BY Zenon, <2>0, <2>3, Places
  <2>13. \A n \in 1 .. K : w[n] = p[n]
    <3> TAKE n \in 1 .. K
    <3>1. CASE n =< Len(s)
      <4>1. n \in 1 .. Len(s)
        BY <2>2, <2>3, <3>1
      <4>2. p[n] = u[n] /\ q[n] = s[n]
        BY Zenon, <2>11, <2>12, <3>1
      <4> QED BY Zenon, <2>5, <2>8, <4>1, <4>2
    <3>2. CASE ~(n =< Len(s))
      <4>1. n - Len(s) \in 1 .. Len(t)
        BY <2>2, <2>3, <3>2
      <4>2. p[n] = v[n - Len(s)] /\ q[n] = t[n - Len(s)]
        BY Zenon, <2>11, <2>12, <3>2
      <4> QED BY Zenon, <2>6, <2>8, <4>1, <4>2
    <3> QED BY <3>1, <3>2
  <2>14. w = p
    BY Zenon, <2>8, <2>10, <2>13, SameSequence
  <2> QED BY Zenon, <2>0, <2>1, <2>9, <2>14
<1>6. Filled(s \o t) = Filled(s) \o Filled(t)
  BY Zenon, <1>1, <1>3, <1>5
<1>7. \A q \in Seq(R) : Filled(q) \in Seq(Seq(T)) /\ Substituted(q) = Joined(Filled(q))
  BY Zenon, FilledTyped
<1>8. PICK f, g : f = Filled(s) /\ g = Filled(t)
  OBVIOUS
<1>9. Joined(f \o g) = Joined(f) \o Joined(g)
  BY Zenon, <1>7, <1>8, JoinedConcatenation
<1> QED BY Zenon, <1>1, <1>6, <1>7, <1>8, <1>9

\* Filling in what is joined is joining what is filled in.
LEMMA SubstitutedJoined ==
    ASSUME NEW R, NEW T, \A a \in R : Filling(a) \in Seq(T), NEW A \in Seq(Seq(R)),
           NEW V \in Seq(Seq(T)), Len(V) = Len(A), \A n \in 1 .. Len(A) : Substituted(A[n]) = V[n]
    PROVE  Substituted(Joined(A)) = Joined(V)
<1>1. Len(A) \in Nat /\ \A n \in 1 .. Len(A) : A[n] \in Seq(R)
  OBVIOUS
<1>2. PICK J, K, N : J = Joins(A) /\ K = Joins(V) /\ N = Len(A)
  OBVIOUS
<1>3. /\ Joined(A) = J[N] /\ J[0] = <<>>
      /\ \A n \in 1 .. N : J[n] = J[n - 1] \o A[n]
  BY Zenon, <1>1, <1>2, JoinsDefined
<1>4. /\ Joined(V) = K[N] /\ K[0] = <<>>
      /\ \A n \in 1 .. N : K[n] = K[n - 1] \o V[n]
  BY Zenon, <1>1, <1>2, JoinsDefined
<1>5. \A n \in 0 .. N : J[n] \in Seq(R)
  BY Zenon, <1>2, JoinsTyped
<1> DEFINE G == {n \in Nat : Substituted(J[n]) = K[n]}
<1>6. 0 \in G
  <2>1. <<>> \in Seq(R) /\ Len(<<>>) = 0 /\ DOMAIN <<>> = {}
    OBVIOUS
  <2>2. Filled(<<>>) \in Seq(Seq(T)) /\ Substituted(<<>>) = Joined(Filled(<<>>))
    BY Zenon, <2>1, FilledTyped
  <2>3. PICK f : f = Filled(<<>>)
    OBVIOUS
  <2>4. DOMAIN f = {}
    BY Zenon, <2>1, <2>3 DEF Filled
  <2>5. Len(f) = 0
    BY <2>2, <2>3, <2>4
  <2>6. Joined(f) = <<>>
    <3>1. 0 \in Nat
      OBVIOUS
    <3> QED BY Zenon, <2>5, <3>1, JoinsDefined
  <2> QED BY Zenon, <1>3, <1>4, <2>2, <2>3, <2>6
<1>7. ASSUME NEW n \in 1 .. N, n - 1 \in G PROVE n \in G
  <2>1. n \in Nat /\ n - 1 \in 0 .. N
    BY <1>1, <1>2
  <2>2. PICK a, b, c : a = J[n - 1] /\ b = A[n] /\ c = J[n]
    OBVIOUS
  <2>3. a \in Seq(R) /\ b \in Seq(R) /\ c = a \o b
    BY Zenon, <1>1, <1>2, <1>3, <1>5, <2>1, <2>2
  <2>4. Substituted(a \o b) = Substituted(a) \o Substituted(b)
    BY Zenon, <2>3, SubstitutedConcatenation
  <2>5. Substituted(a) = K[n - 1] /\ Substituted(b) = V[n]
    BY Zenon, <1>2, <1>7, <2>2
  <2>6. Substituted(J[n]) = K[n - 1] \o V[n]
    BY Zenon, <2>2, <2>3, <2>4, <2>5
  <2>7. Substituted(J[n]) = K[n]
    BY Zenon, <1>4, <2>6
  <2> QED BY Zenon, <2>1, <2>7
<1>8. \A n \in 0 .. N : n \in G
  <2> HIDE DEF G
  <2> QED BY Zenon, <1>1, <1>2, <1>6, <1>7, Stepwise
<1>9. N \in 0 .. N
  BY <1>1, <1>2
<1> QED BY Zenon, <1>3, <1>4, <1>8, <1>9

\* An argument of its own for each chunk of a public text.
Public(text) == [k \in DOMAIN Chunks(text) |-> [target |-> {}, text |-> Chunks(text)[k]]]

LEMMA PublicText ==
    ASSUME NEW T, NEW text \in Seq(T)
    PROVE  /\ Public(text) \in Seq([target : {{}}, text : Seq(T)])
           /\ Substituted(Public(text)) = text
<1>1. PICK C \in Seq(Seq(T)) : C = Chunks(text) /\ Joined(C) = text
  BY ChunksJoin
<1>2. DOMAIN C = 1 .. Len(C) /\ Len(C) \in Nat /\ \A k \in 1 .. Len(C) : C[k] \in Seq(T)
  OBVIOUS
<1>3. PICK P : P = [k \in 1 .. Len(C) |-> [target |-> {}, text |-> C[k]]]
  BY Zenon
<1>4. Public(text) = P
  BY Zenon, <1>1, <1>2, <1>3 DEF Public
<1>5. \A k \in 1 .. Len(C) : P[k].target = {} /\ P[k].text = C[k] /\ P[k] \in [target : {{}}, text : Seq(T)]
  BY SMTT(30), <1>2, <1>3
<1>6. P \in Seq([target : {{}}, text : Seq(T)])
  BY <1>2, <1>3, <1>5
<1>7. DOMAIN P = DOMAIN C /\ \A k \in DOMAIN C : P[k].target = {} /\ P[k].text = C[k]
  BY Zenon, <1>2, <1>3, <1>5
<1>8. [n \in DOMAIN P |-> IF P[n].target # {} THEN <<Reviewed(P[n].target)>> ELSE P[n].text] = C
  <2>1. \A n \in DOMAIN P : (IF P[n].target # {} THEN <<Reviewed(P[n].target)>> ELSE P[n].text) = C[n]
    BY Zenon, <1>7
  <2>2. C = [n \in DOMAIN C |-> C[n]]
    OBVIOUS
  <2> QED BY Zenon, <1>7, <2>1, <2>2
<1>9. Substituted(P) = Joined(C)
  BY Zenon, <1>8 DEF Substituted
<1> QED BY Zenon, <1>1, <1>4, <1>6, <1>9

LEMMA Placeholder ==
    ASSUME NEW T, NEW x, x # {}, Reviewed(x) \in T
    PROVE  Substituted(<<[target |-> x, text |-> <<>>]>>) = <<Reviewed(x)>>
<1>1. PICK a : a = [target |-> x, text |-> <<>>]
  BY Zenon
<1>2. a.target = x
  BY Zenon, <1>1
<1>3. PICK v \in T : v = Reviewed(x)
  OBVIOUS
<1>4. Filling(a) = <<v>>
  BY Zenon, <1>2, <1>3 DEF Filling
<1>5. <<a>> \in Seq({a}) /\ DOMAIN <<a>> = {1} /\ <<a>>[1] = a
  OBVIOUS
<1>6. Substituted(<<a>>) = Joined(Filled(<<a>>))
  BY Zenon DEF Substituted, Filled, Filling
<1>7. Filled(<<a>>) = [n \in {1} |-> <<v>>]
  BY Zenon, <1>4, <1>5 DEF Filled
<1>8. [n \in {1} |-> <<v>>] = <<<<v>>>>
  OBVIOUS
<1>9. <<v>> \in Seq(T)
  OBVIOUS
<1>10. Joined(<<<<v>>>>) = <<v>>
  BY Zenon, <1>9, JoinedOne
<1> QED BY Zenon, <1>1, <1>3, <1>6, <1>7, <1>8, <1>10

\* What a template is rendered to is what its arguments stand for, once the
\* fields they name are filled in.
LEMMA RenderedAsAsked ==
    ASSUME NEW t, t.template \in Seq(Range(t.template)), t.kind = "inject", NEW held,
           \A r \in References(t) : Targets(t)[r] # {} /\ held[r].value = Reviewed(Targets(t)[r])
    PROVE  Rendered(t, held) = Substituted(TemplateArguments(t))
<1>1. References(t) = {t.template[i] : i \in TemplateReferences(t)}
  <2>1. ~Executes(t)
    BY DEF Executes
  <2> QED BY <2>1 DEF References
<1>2. PICK P, N, S : P = Pieces(t) /\ N = Len(P) /\ S = References(t)
  BY Zenon
<1>3. PICK TG : TG = Targets(t)
  OBVIOUS
<1> DEFINE T == Range(t.template) \union {held[r].value : r \in S}
           R == {[target |-> TG[r], text |-> <<>>] : r \in S}
                  \union [target : {{}}, text : Seq(T)]
           one(p) == IF p.reference THEN <<[target |-> TG[p.text[1]], text |-> <<>>]>>
                     ELSE Public(p.text)
           fill(p) == IF p.reference THEN <<held[p.text[1]].value>> ELSE p.text
           A == [n \in DOMAIN P |-> one(P[n])]
           V == [n \in DOMAIN P |-> fill(P[n])]
<1>4. N \in Nat /\ DOMAIN P = 1 .. N
  BY Zenon, <1>2, PiecesTyped
<1>5. \A n \in 1 .. N : /\ P[n].reference \in BOOLEAN /\ P[n].text \in Seq(Range(t.template))
                        /\ P[n].reference => P[n].text[1] \in S
  BY Zenon, <1>1, <1>2, PiecesTyped
<1>6. \A r \in S : TG[r] # {} /\ held[r].value = Reviewed(TG[r])
  BY Zenon, <1>2, <1>3
<1>7. Rendered(t, held) = Joined(V)
  BY Zenon, <1>2 DEF Rendered
<1>8. TemplateArguments(t) = Joined(A)
  BY Zenon, <1>2, <1>3 DEF TemplateArguments, Public
<1> HIDE DEF T
<1>9. \A q \in Seq(Range(t.template)) : q \in Seq(T)
  <2>1. Range(t.template) \subseteq T
    BY DEF T
  <2> QED BY <2>1
<1>10. \A r \in S : held[r].value \in T
  BY Zenon DEF T
<1>11. ASSUME NEW a \in R PROVE Filling(a) \in Seq(T)
  <2>1. ASSUME NEW r \in S, a = [target |-> TG[r], text |-> <<>>] PROVE Filling(a) \in Seq(T)
    <3>1. a.target = TG[r]
      BY Zenon, <2>1
    <3>2. PICK v \in T : v = Reviewed(TG[r])
      BY Zenon, <1>6, <1>10
    <3>3. Filling(a) = <<v>>
      BY Zenon, <1>6, <3>1, <3>2 DEF Filling
    <3>4. <<v>> \in Seq(T)
      OBVIOUS
    <3> QED BY Zenon, <3>3, <3>4
  <2>2. ASSUME a \in [target : {{}}, text : Seq(T)] PROVE Filling(a) \in Seq(T)
    <3>1. a.target = {} /\ a.text \in Seq(T)
      BY <2>2
    <3> QED BY Zenon, <3>1 DEF Filling
  <2>3. (\E r \in S : a = [target |-> TG[r], text |-> <<>>]) \/ a \in [target : {{}}, text : Seq(T)]
    BY Zenon
  <2> QED BY Zenon, <2>1, <2>2, <2>3
<1>12. ASSUME NEW n \in 1 .. N
       PROVE  one(P[n]) \in Seq(R) /\ fill(P[n]) \in Seq(T) /\ Substituted(one(P[n])) = fill(P[n])
  <2>1. PICK p : p = P[n]
    OBVIOUS
  <2>2. CASE p.reference
    <3>1. PICK r \in S : r = p.text[1]
      BY Zenon, <1>5, <2>1, <2>2
    <3>2. PICK a, v : a = [target |-> TG[r], text |-> <<>>] /\ v = held[r].value
      BY Zenon
    <3>3. a \in R /\ v \in T
      BY Zenon, <1>10, <3>2
    <3>4. one(p) = <<a>> /\ fill(p) = <<v>>
      BY Zenon, <2>2, <3>1, <3>2
    <3>5. <<a>> \in Seq(R) /\ <<v>> \in Seq(T)
      <4> HIDE DEF R
      <4> QED BY <3>3
    <3>6. TG[r] # {} /\ Reviewed(TG[r]) = v
      BY Zenon, <1>6, <3>2
    <3>7. Substituted(<<a>>) = <<v>>
      BY Zenon, <3>2, <3>3, <3>6, Placeholder
    <3> QED BY Zenon, <2>1, <3>4, <3>5, <3>7
  <2>3. CASE ~p.reference
    <3>1. p.text \in Seq(T)
      BY Zenon, <1>5, <1>9, <2>1
    <3>2. one(p) = Public(p.text) /\ fill(p) = p.text
      BY Zenon, <2>3
    <3>3. /\ Public(p.text) \in Seq([target : {{}}, text : Seq(T)])
          /\ Substituted(Public(p.text)) = p.text
      BY Zenon, <3>1, PublicText
    <3>4. Public(p.text) \in Seq(R)
      <4>1. [target : {{}}, text : Seq(T)] \subseteq R
        BY Zenon
      <4>2. \A X : X \subseteq R => \A q \in Seq(X) : q \in Seq(R)
        <5> HIDE DEF R
        <5> QED OBVIOUS
      <4> QED BY Zenon, <3>3, <4>1, <4>2
    <3> QED BY Zenon, <2>1, <3>1, <3>2, <3>3, <3>4
  <2> QED BY Zenon, <2>2, <2>3
<1> HIDE DEF R, one, fill
<1>13. A = [n \in 1 .. N |-> one(P[n])] /\ V = [n \in 1 .. N |-> fill(P[n])]
  BY Zenon, <1>4
<1> HIDE DEF A, V
<1>14. A \in Seq(Seq(R)) /\ Len(A) = N /\ \A n \in 1 .. N : A[n] = one(P[n])
  <2>1. A \in [1 .. N -> Seq(R)] /\ \A n \in 1 .. N : A[n] = one(P[n])
    BY Zenon, <1>12, <1>13
  <2> QED BY Zenon, <1>4, <2>1, SequenceOf
<1>15. V \in Seq(Seq(T)) /\ Len(V) = N /\ \A n \in 1 .. N : V[n] = fill(P[n])
  <2>1. V \in [1 .. N -> Seq(T)] /\ \A n \in 1 .. N : V[n] = fill(P[n])
    BY Zenon, <1>12, <1>13
  <2> QED BY Zenon, <1>4, <2>1, SequenceOf
<1>16. Len(V) = Len(A) /\ \A n \in 1 .. Len(A) : Substituted(A[n]) = V[n]
  BY ZenonT(30), <1>12, <1>14, <1>15
<1>17. Substituted(Joined(A)) = Joined(V)
  <2>1. \A a \in R : Filling(a) \in Seq(T)
    BY Zenon, <1>11
  <2> QED BY <2>1, <1>14, <1>15, <1>16, SubstitutedJoined
<1> QED BY Zenon, <1>7, <1>8, <1>17
\* What is read is the field asked for.
LEMMA WriteReviewed ==
    ASSUME DeliveryInv, ReviewInv, WriteOutput
    PROVE  ReviewInv'
<1>1. /\ UNCHANGED <<task, prepared, snapshot, request, values, child>> /\ UNCHANGED world
      /\ stage = "output" /\ stage' = "over" /\ child = Idle /\ task \in Tasks /\ ~Delivered
  BY Zenon DEF WriteOutput, End, DeliveryInv, StageOK, Delivered
<1>2. InodesOK' /\ SnapshotOK' /\ PreparedOK'
  BY <1>1 DEF ReviewInv, InodesOK, SnapshotOK, PreparedOK, world
<1>3. ASSUME Governed(task) PROVE GovernedOK'
  <2>1. Asked /\ \A r \in References(task) : values[r] = Named(r)
    BY <1>1, <1>3 DEF ReviewInv, GovernedOK, HoldingValues
  <2>2. Asked'
    BY Zenon, <1>1, <2>1, SameAsked
  <2>3. \A r \in References(task) :
          task.byId = {} => RequestTarget(request.revision, r) \subseteq request.fields
    BY ZenonT(30), <2>1, LabelsReviewed
  <2>4. Output' = Contents(task) \/ Output' = Nothing \/ Output' \in {NoFile, OtherFile}
    <3>1. printed = Nothing /\ outfile \in {NoFile, OtherFile}
      BY <1>1 DEF Delivered
    <3> QED BY Zenon, <1>1, <3>1 DEF WriteOutput, Output
  <2>5. task.kind = "read" => Contents(task) = <<Reviewed(request.fields)>>
    <3> SUFFICES ASSUME task.kind = "read" PROVE Contents(task) = <<Reviewed(request.fields)>>
      OBVIOUS
    <3>1. References(task) = {task.reference}
      BY DEF References, Executes
    <3>2. UNION Range(Targets(task)) = Targets(task)[task.reference]
      <4>1. DOMAIN Targets(task) = {task.reference}
        BY <3>1 DEF Targets
      <4> QED BY <4>1 DEF Range
    <3>3. values[task.reference] = Named(task.reference)
      BY <2>1, <3>1
    <3> QED BY Zenon, <2>1, <3>2, <3>3 DEF Contents, Asked, Named, Reviewed
  <2>6. task.kind = "inject" => Contents(task) = Substituted(request.arguments)
    <3> SUFFICES ASSUME task.kind = "inject" PROVE Contents(task) = Substituted(request.arguments)
      OBVIOUS
    <3>1. \A r \in References(task) : Targets(task)[r] # {} /\ values[r].value = Reviewed(Targets(task)[r])
      BY Zenon, <2>1 DEF Asked, Named, Reviewed
    <3>2. task.template \in Seq(Range(task.template))
      BY Zenon, <1>1, TasksAssumption
    <3>3. Rendered(task, values) = Substituted(TemplateArguments(task))
      BY Zenon, <3>1, <3>2, RenderedAsAsked
    <3> QED BY Zenon, <2>1, <3>3 DEF Contents, Asked
  <2>7. OutputAsReviewed'
    <3>1. Reviewed(request.fields)' = Reviewed(request.fields)
          /\ Substituted(request.arguments)' = Substituted(request.arguments)
      BY Zenon, <1>1, SameReviewed, SameSubstituted
    <3> QED BY Zenon, <1>1, <2>4, <2>5, <2>6, <3>1 DEF OutputAsReviewed, WroteOutput
  <2>8. LabelsAsReviewed' /\ ChildAsReviewed'
    <3>1. LabelsAsReviewed
      BY Zenon, <2>3 DEF LabelsAsReviewed
    <3>2. ChildAsReviewed'
      BY Zenon, <1>1 DEF ChildAsReviewed
    <3> QED BY Zenon, <1>1, <3>1, <3>2, SameLabels
  <2> QED BY Zenon, <1>1, <2>2, <2>7, <2>8 DEF GovernedOK, HoldingValues
<1> QED BY <1>1, <1>2, <1>3 DEF ReviewInv, GovernedOK

\* What others do.
LEMMA OthersReviewed ==
    ASSUME DeliveryInv, ReviewInv, CommitRevision \/ ReplaceProgram \/ ReplaceFolder \/ TakePath
    PROVE  ReviewInv'
<1>1. UNCHANGED <<task, stage, prepared, snapshot, request, values, printed, child>>
  BY DEF CommitRevision, ReplaceProgram, ReplaceFolder, TakePath, command
<1>2. \/ UNCHANGED outfile
      \/ outfile = NoFile /\ outfile' = OtherFile
  BY DEF CommitRevision, ReplaceProgram, ReplaceFolder, TakePath
<1>3. NewInode \in Nat \ {0}
  BY NewInodeIs DEF ReviewInv
<1>4. InodesOK'
  <2>1. IsFiniteSet(runnable') /\ runnable' \subseteq Nat \ {0}
    <3>1. \/ UNCHANGED runnable
          \/ runnable' = runnable \union {NewInode}
          \/ \E n : runnable' = runnable \ {n}
      BY DEF CommitRevision, ReplaceProgram, ReplaceFolder, TakePath
    <3>2. runnable \subseteq Nat \ {0} /\ IsFiniteSet(runnable)
      BY DEF ReviewInv, InodesOK
    <3>3. IsFiniteSet(runnable \union {NewInode})
      BY <3>2, FS_AddElement
    <3>4. \A n : IsFiniteSet(runnable \ {n})
      BY <3>2, FS_RemoveElement
    <3> QED BY Zenon, <1>3, <3>1, <3>2, <3>3, <3>4
  <2>2. /\ DOMAIN programs' = DOMAIN programs /\ \A p \in DOMAIN programs : programs'[p] \in Nat
    <3>1. \/ UNCHANGED programs
          \/ \E q, n : n \in Nat /\ programs' = [programs EXCEPT ![q] = n]
      BY Zenon, <1>3 DEF CommitRevision, ReplaceProgram, ReplaceFolder, TakePath
    <3> QED BY <3>1 DEF ReviewInv, InodesOK
  <2>3. /\ DOMAIN folders' = DOMAIN folders /\ \A d \in DOMAIN folders : folders'[d] \in Nat
    <3>1. \/ UNCHANGED folders
          \/ \E q, n : n \in Nat /\ folders' = [folders EXCEPT ![q] = n]
      BY Zenon, <1>3 DEF CommitRevision, ReplaceProgram, ReplaceFolder, TakePath
    <3> QED BY <3>1 DEF ReviewInv, InodesOK
  <2> QED BY <1>1, <2>1, <2>2, <2>3 DEF ReviewInv, InodesOK
<1>5. SnapshotOK'
  <2>1. latest' \in DOMAIN Vault
    BY VaultAssumption DEF CommitRevision, ReplaceProgram, ReplaceFolder, TakePath, ReviewInv, SnapshotOK
  <2> QED BY <1>1, <2>1 DEF ReviewInv, SnapshotOK
<1>6. PreparedOK'
  BY <1>1 DEF ReviewInv, PreparedOK
<1>7. ASSUME Governed(task) PROVE GovernedOK'
  <2>1. Asked' <=> Asked
    BY Zenon, <1>1, SameAsked
  <2>2. Delivered' <=> Delivered
    BY Zenon, <1>1, <1>2 DEF Delivered
  <2>3. \A r \in References(task) : Named(r)' = Named(r)
    BY Zenon, <1>1, SameNamed
  <2>4. UNCHANGED Output \/ Output' \in {Nothing, NoFile, OtherFile}
    BY Zenon, <1>1, <1>2 DEF Output
  <2>5. (LabelsAsReviewed' <=> LabelsAsReviewed) /\ (ChildAsReviewed' <=> ChildAsReviewed)
        /\ (OutputAsReviewed => OutputAsReviewed')
    BY Zenon, <1>1, <2>4, SameLabels, SameChild, SameOutput
  <2> QED BY Zenon, <1>1, <1>7, <2>1, <2>2, <2>3, <2>5 DEF ReviewInv, GovernedOK
<1> QED BY ZenonT(60), <1>1, <1>4, <1>5, <1>6, <1>7 DEF ReviewInv, GovernedOK

\* A governed delivery is the action that was asked for, whatever others do
\* to labels, revisions, programs and directories between the request and the
\* delivery: the program, the variables, the standard input, the value read,
\* and the text a template becomes (witnessed.rs, template.rs,
\* resolve_request_target).
THEOREM ActionsDelivered == DeliverySpec => []DeliveredAsReviewed
<1>1. DeliveryInit => ReviewInv
  <2> SUFFICES ASSUME DeliveryInit PROVE ReviewInv
    OBVIOUS
  <2>1. PICK t \in Trees : programs = t[1] /\ runnable = t[2] /\ folders = t[3]
    BY Zenon DEF DeliveryInit
  <2>2. /\ task \in Tasks /\ stage = "start" /\ latest = 1
        /\ prepared = [path |-> <<"", "">>, program |-> 0, cwd |-> "", folder |-> 0,
                       timeout |-> {}, limit |-> 0]
        /\ child = Idle /\ printed = Nothing /\ outfile = NoFile
    BY Zenon DEF DeliveryInit
  <2>3. InodesOK
    BY Zenon, <2>1, <2>2, TreesAssumption DEF InodesOK
  <2>4. PreparedOK /\ SnapshotOK
    <3>1. DOMAIN prepared = PreparedFields
      BY Zenon, <2>2 DEF PreparedFields
    <3>2. PreparedOK
      BY Zenon, <2>2, <3>1 DEF PreparedOK
    <3>3. 1 \in DOMAIN Vault
      BY VaultAssumption
    <3> QED BY Zenon, <2>2, <3>2, <3>3 DEF SnapshotOK
  <2>5. ~Delivered
    BY Zenon, <2>2 DEF Delivered
  <2>6. GovernedOK
    BY Zenon, <2>2, <2>5 DEF GovernedOK, HoldingValues
  <2> QED BY <2>3, <2>4, <2>6 DEF ReviewInv
<1>2. DeliveryInv /\ ReviewInv /\ [DeliveryNext]_deliveryVars => ReviewInv'
  <2>1. ASSUME DeliveryInv, ReviewInv, DeliveryNext PROVE ReviewInv'
    BY <2>1, MovesReviewed, PreparingReviewed, LoadReviewed, AskReviewed, AuthorizeReviewed,
       LaunchReviewed, ChildReviewed, WriteReviewed, OthersReviewed DEF DeliveryNext
  <2>2. ASSUME ReviewInv, UNCHANGED deliveryVars PROVE ReviewInv'
    <3>1. UNCHANGED reviewed /\ UNCHANGED <<stage, world>>
      BY <2>2 DEF deliveryVars, reviewed, results
    <3>2. InodesOK' /\ SnapshotOK'
      BY SMTT(30), <2>2, <3>1 DEF ReviewInv, InodesOK, SnapshotOK, reviewed, world
    <3>3. PreparedOK' /\ GovernedOK'
      BY <2>2, <3>1, SameReview DEF ReviewInv, PreparedOK, GovernedOK, reviewed
    <3> QED BY <3>2, <3>3 DEF ReviewInv
  <2> QED BY <2>1, <2>2
<1>3. ReviewInv => DeliveredAsReviewed
  BY DEF ReviewInv, GovernedOK, DeliveredAsReviewed
<1> QED BY <1>1, <1>2, <1>3, DeliveryInductive, PTL DEF DeliverySpec
=============================================================================

