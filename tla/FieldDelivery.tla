--------------------------- MODULE FieldDelivery ---------------------------
(***************************************************************************)
(* How field values leave a vault: read and inject write them to a private *)
(* file or to standard output, exec and run hand them to a child process   *)
(* in environment variables, anonymous files or on standard input.  Each   *)
(* of the four works directly, on the caller's own key slots, or governed, *)
(* under an action that approvers and witnesses agreed to.                 *)
(*                                                                         *)
(* One command runs while others commit vault revisions, relabel fields,   *)
(* replace the program or the directory it named, and take the paths it    *)
(* wants to write.  Witnessed authorization itself (WitnessedAccess) is    *)
(* one step here, and so is the child's life (OwnedProcess).               *)
(***************************************************************************)
EXTENDS SequenceOrder, FiniteSetsExt

CONSTANTS Tasks,        \* the command lines
          Vault,        \* the vault revisions, in the order they are committed
          Trees,        \* the programs, executable bits and directories
          Search,       \* PATH: a sequence of directories
          Ambient,      \* the variables in the command's own environment
          Reserved,     \* the variables whose names begin with JURY_
          Allowlist,    \* BROKER_ENV_ALLOWLIST
          Malformed,    \* strings that are not variable names
          MaxItems,     \* MAX_EXEC_ITEMS, MAX_TEMPLATE_ITEMS
          MaxBindings,  \* MAX_EXEC_BINDINGS
          MaxRendered,  \* MAX_TEMPLATE_OUTPUT_BYTES
          Chunk,        \* bytes of one public argument of a manifest
          MaxArguments, \* MAX_ARGUMENTS of a manifest
          PolicyTimeout,\* the cap on a timeout taken from the policy
          MaxChanges    \* bound on what others do meanwhile

ASSUME DeliveryAssumption ==
  /\ MaxItems \in Nat /\ MaxBindings \in Nat /\ MaxRendered \in Nat
  /\ Chunk \in Nat \ {0} /\ MaxArguments \in Nat /\ MaxChanges \in Nat

VARIABLES task,        \* the command line
          stage,       \* what the command does next
          latest,      \* the revision of the vault on disk
          programs,    \* the inode each path of a program has
          runnable,    \* the inodes with an executable bit
          folders,     \* the inode each working directory has
          changes,     \* what others did, counted
          prepared,    \* PreparedExecution
          snapshot,    \* the revision the command loaded, 0 before
          opened,      \* the items whose bodies it decrypted
          request,     \* the governed action that was asked for
          values,      \* the field values it holds, by reference
          receipt,     \* the file at the receipt's path
          outfile,     \* the file at the output's path
          printed,     \* what it wrote to standard output
          child,       \* the process it started
          shown,       \* what the child printed, after redaction
          trail,       \* the events it added to its local audit
          told         \* how it ended

world == <<latest, programs, runnable, folders, changes>>
results == <<receipt, outfile, printed, child, shown, trail>>
deliveryVars ==
  <<task, stage, world, prepared, snapshot, opened, request, values, results, told>>

LiteralSource == <<"literal">>
NoFile == <<"absent">>
OtherFile == <<"other">>
Nothing == <<>>
Idle == [kind |-> "none"]

Executes(t) == t.kind \in {"exec", "run"}

\* Every command is governed unless --direct is given.
Governed(t) == ~t.direct

\* What the parser of command lines lets through: a file or standard input
\* is always mapped to a reference, and identifiers come as one pair.
ASSUME TasksAssumption ==
  \A t \in Tasks : /\ t.kind \in {"exec", "run", "inject", "read"} /\ t.direct \in BOOLEAN
                   /\ IsFiniteSet(t.byId) /\ Cardinality(t.byId) =< 1
                   /\ LiteralSource \notin t.stdin
                   /\ t.env \in Seq(Range(t.env)) /\ t.files \in Seq(Range(t.files))
                   /\ \A b \in Range(t.files) : b[2] # LiteralSource
                   /\ t.kind = "inject" => t.template \in Seq(Range(t.template))

ASSUME NamesAssumption == Allowlist \intersect Reserved = {}

\* Inodes are positive; 0 stands for a path that is not there.
ASSUME TreesAssumption ==
  \A t \in Trees :
    /\ t[2] \subseteq Nat \ {0} /\ \A p \in DOMAIN t[1] : t[1][p] \in Nat
    /\ \A d \in DOMAIN t[3] : t[3][d] \in Nat
    /\ IsFiniteSet(t[2]) /\ IsFiniteSet(DOMAIN t[1]) /\ IsFiniteSet(DOMAIN t[3])
    /\ \A c \in Tasks : Executes(c) => c.cwd \in DOMAIN t[3]

ASSUME VaultAssumption ==
  /\ Len(Vault) \in Nat \ {0} /\ DOMAIN Vault = 1 .. Len(Vault)
  /\ \A r \in DOMAIN Vault : IsFiniteSet(Vault[r].labels)

-----------------------------------------------------------------------------
(***************************************************************************)
(* Command lines.  env and files are sequences of <<name, source>>, where  *)
(* a source is Literal or the reference <<item, field>>; a template is a   *)
(* sequence of tokens: the braces, references, and single characters.      *)
(***************************************************************************)
EnvironmentName(n) == n \notin Malformed \union Reserved

MappingName(n, brokered) ==
  EnvironmentName(n) /\ (brokered => n \notin Allowlist)

BindingNames(t) == [i \in DOMAIN (t.env \o t.files) |-> (t.env \o t.files)[i][1]]

BindingsValid(t) ==
  /\ Len(t.env) + Len(t.files) =< MaxBindings
  /\ IsInjective(BindingNames(t))
  /\ \A n \in Range(BindingNames(t)) : MappingName(n, t.kind = "run")

\* execution_references: the distinct references of all bindings.
BoundReferences(t) ==
  ({b[2] : b \in Range(t.env \o t.files)} \union t.stdin) \ {LiteralSource}

IsReference(token) == Len(token) = 2

\* parse_template: the positions of the references, {} when the template is
\* malformed.  Braces must pair up around exactly one reference.
TemplateReferences(t) ==
  LET s == t.template
      opens == {i \in DOMAIN s : s[i] = <<"{{">>}
      closed(i) == i + 2 \in DOMAIN s /\ IsReference(s[i + 1])
                                      /\ s[i + 2] = <<"}}">>
  IN  IF /\ \A i \in opens : closed(i)
         /\ \A j \in DOMAIN s : s[j] = <<"}}">> => j - 2 \in opens
      THEN {i + 1 : i \in opens} ELSE {}

References(t) ==
  CASE Executes(t)       -> BoundReferences(t)
    [] t.kind = "inject" -> {t.template[i] : i \in TemplateReferences(t)}
    [] t.kind = "read"   -> {t.reference}

\* The pieces of a template between and at its references, braces dropped.
IsBrace(token) == token \in {<<"{{">>, <<"}}">>}

Pieces(t) ==
  LET marks == TemplateReferences(t)
      plain(i) == ~IsBrace(t.template[i]) /\ i \notin marks
      starts == {i \in DOMAIN t.template :
                   \/ i \in marks
                   \/ plain(i) /\ (i = 1 \/ ~plain(i - 1))}
      end(i) == IF i \in marks THEN i
                ELSE Max({j \in DOMAIN t.template :
                            i =< j /\ \A k \in i .. j : plain(k)})
      order == InOrder(starts)
  IN  [n \in DOMAIN order |->
         [reference |-> order[n] \in marks,
          text |-> SubSeq(t.template, order[n], end(order[n]))]]

-----------------------------------------------------------------------------
(***************************************************************************)
(* A vault revision: its items with their private names and fields, who    *)
(* reads them directly, the owner's public labels, and the rules.          *)
(***************************************************************************)
ItemsNamed(r, name) ==
  {i \in DOMAIN Vault[r].items : Vault[r].items[i].reader
                                 /\ Vault[r].items[i].name = name}

FieldsNamed(r, i, name) ==
  {f \in DOMAIN Vault[r].items[i].fields : Vault[r].items[i].fields[f].name = name}

Field(r, target) == Vault[r].items[target[1]].fields[target[2]]

\* active_review_labels: the labels of every active policy; field 0 stands
\* for the item itself.
LabelledItems(r, text) ==
  {l.item : l \in {x \in Vault[r].labels : x.field = 0 /\ x.text = text}}

LabelledFields(r, i, text) ==
  {l.field : l \in {x \in Vault[r].labels :
                      x.item = i /\ x.field # 0 /\ x.text = text}}

\* resolve_request_target: the target a pair of labels identifies, if it is
\* exactly one.
RequestTarget(r, reference) ==
  {x \in UNION {{i} \X LabelledFields(r, i, reference[2]) :
                  i \in LabelledItems(r, reference[1])} :
     /\ Cardinality(LabelledItems(r, reference[1])) = 1
     /\ Cardinality(LabelledFields(r, x[1], reference[2])) = 1}

\* A read may name its target by its two identifiers instead.
Target(r, t, reference) ==
  IF t.byId # {} THEN t.byId ELSE RequestTarget(r, reference)

\* Appending an audit event: it is kept; or the state is locked, unreadable
\* or cannot be written; or it was written and the outcome is not certain.
AppendAudit(event, ok) ==
  \/ ok /\ trail' = Append(trail, event)
  \/ ~ok /\ trail' \in {trail, Append(trail, event)}

Event(items, outcome) ==
  [action |-> IF task.kind = "read" THEN "ItemRead" ELSE "ExecuteOrInject",
   items |-> IF Cardinality(items) = 1 THEN items ELSE {}, outcome |-> outcome]

End(status) ==
  /\ stage' = "over"
  /\ told' = [kind |-> status, recorded |-> FALSE, outcome |-> "none"]

-----------------------------------------------------------------------------
(***************************************************************************)
(* Preparing an execution: the working directory is opened, the program is *)
(* looked up along PATH and then opened; from there on both are used       *)
(* through their descriptors.                                              *)
(***************************************************************************)
SearchPath(t) ==
  IF t.program[1] # "" THEN {t.program}
  ELSE LET hits == {i \in DOMAIN Search :
                      programs[<<Search[i], t.program[2]>>] \in runnable}
       IN  {<<Search[i], t.program[2]>> : i \in {j \in hits : j = Min(hits)}}

LimitsValid(t) ==
  t.kind = "run" => 0 \notin t.timeout /\ t.limit > 0

PreparedTimeout(t) ==
  IF t.kind = "exec" THEN {}
  ELSE IF t.timeout = {} THEN {PolicyTimeout} ELSE t.timeout

Prepare ==
  /\ stage = "start" /\ Executes(task)
  /\ UNCHANGED <<task, world, snapshot, opened, request, values, results>>
  /\ \/ /\ LimitsValid(task) /\ BindingsValid(task) /\ folders[task.cwd] # 0
        /\ \E path \in SearchPath(task) :
             prepared' = [path |-> path, program |-> 0, cwd |-> task.cwd,
                          folder |-> folders[task.cwd],
                          timeout |-> PreparedTimeout(task),
                          limit |-> IF task.kind = "exec" THEN 0 ELSE task.limit]
        /\ stage' = "found" /\ UNCHANGED told
     \/ /\ ~(LimitsValid(task) /\ BindingsValid(task) /\ folders[task.cwd] # 0
             /\ SearchPath(task) # {})
        /\ End("refused") /\ UNCHANGED prepared

OpenProgram ==
  /\ stage = "found"
  /\ UNCHANGED <<task, world, snapshot, opened, request, values, results>>
  /\ IF programs[prepared.path] \in runnable
     THEN /\ prepared' = [prepared EXCEPT !.program = programs[prepared.path]]
          /\ stage' = "prepared" /\ UNCHANGED told
     ELSE End("refused") /\ UNCHANGED prepared

\* Reads and injections: exactly one sink, and a template with references.
SinkValid(t) == (t.out # {}) # t.reveal

TemplateShape(t) ==
  t.kind = "inject" => /\ References(t) # {}
                       /\ Governed(t) \/ Cardinality({r[1] : r \in References(t)}) =< MaxItems

CheckSink ==
  /\ stage = "start" /\ ~Executes(task)
  /\ UNCHANGED <<task, world, prepared, snapshot, opened, request, values, results>>
  /\ IF SinkValid(task) /\ TemplateShape(task) /\ (Governed(task) \/ task.byId = {})
     THEN stage' = "prepared" /\ UNCHANGED told
     ELSE End("refused")

\* What a governed execution may inject: one kind of delivery, no literals.
GovernedShape(t) ==
  /\ References(t) # {}
  /\ Executes(t) => /\ t.stdin = {} \/ t.env \o t.files = <<>>
                    /\ \A b \in Range(t.env) : b[2] # LiteralSource

\* Governed commands look at the receipt's destination before anything else.
Preview ==
  /\ stage = "prepared" /\ Governed(task)
  /\ UNCHANGED <<task, world, prepared, snapshot, opened, request, values, results>>
  /\ IF receipt = NoFile /\ GovernedShape(task)
     THEN stage' = "previewed" /\ UNCHANGED told
     ELSE End("refused")

\* One authenticated revision of the vault serves the whole command.
Load ==
  /\ stage = (IF Governed(task) THEN "previewed" ELSE "prepared")
  /\ snapshot' = latest
  /\ stage' = "loaded"
  /\ UNCHANGED <<task, world, prepared, opened, request, values, results, told>>

-----------------------------------------------------------------------------
(***************************************************************************)
(* Direct access.  Every item name is looked up before a body is opened.   *)
(***************************************************************************)
ItemNames(t) == {r[1] : r \in References(t)}

MutNamesAvailable(t) == \E n \in ItemNames(t) : ItemsNamed(snapshot, n) # {}

NamesAvailable(t) == \A n \in ItemNames(t) : ItemsNamed(snapshot, n) # {}

NamedTarget(reference) ==
  UNION {{i} \X FieldsNamed(snapshot, i, reference[2]) :
           i \in ItemsNamed(snapshot, reference[1])}

NamedItems(t) == UNION {ItemsNamed(snapshot, n) : n \in ItemNames(t)}

Incomplete(t) ==
  {i \in NamedItems(t) : \E r \in References(t) :
     i \in ItemsNamed(snapshot, r[1]) /\ FieldsNamed(snapshot, i, r[2]) = {}}

FieldsComplete(t) == \A r \in References(t) : NamedTarget(r) # {}

Resolved(target) ==
  [reference \in References(task) |->
     Field(snapshot, CHOOSE x \in target[reference] : TRUE)]

\* What a template becomes, and whether it stays within the bound.
Rendered(t, held) ==
  Joined([n \in DOMAIN Pieces(t) |->
    IF Pieces(t)[n].reference THEN <<held[Pieces(t)[n].text[1]].value>>
    ELSE Pieces(t)[n].text])

RenderBounded(t, held) ==
  t.kind = "inject" => Len(Rendered(t, held)) =< MaxRendered

\* An execution that is refused here leaves an audit event if it can.
RefuseDirect(outcome) ==
  /\ End("refused") /\ UNCHANGED <<receipt, outfile, printed, child, shown>>
  /\ IF Executes(task)
     THEN \E ok \in BOOLEAN : AppendAudit(Event({}, outcome), ok)
     ELSE UNCHANGED trail

\* Items are opened by name until a field is missing.
OpenItems ==
  /\ stage = "loaded" /\ ~Governed(task)
  /\ UNCHANGED <<task, world, prepared, snapshot, request>>
  /\ IF Cardinality(ItemNames(task)) > MaxItems
     THEN RefuseDirect("Failed") /\ UNCHANGED <<opened, values>>
     ELSE IF ~NamesAvailable(task)
     THEN RefuseDirect("Denied") /\ UNCHANGED <<opened, values>>
     ELSE IF ~FieldsComplete(task)
     THEN /\ \E S \in SUBSET NamedItems(task) :
               Cardinality(Incomplete(task) \intersect S) = 1 /\ opened' = S
          /\ RefuseDirect("Failed") /\ UNCHANGED values
     ELSE LET held == Resolved([r \in References(task) |-> NamedTarget(r)]) IN
          /\ opened' = NamedItems(task)
          /\ UNCHANGED results
          /\ IF RenderBounded(task, held)
             THEN /\ values' = held
                  /\ stage' = (IF Executes(task) THEN "ready" ELSE "audit")
                  /\ UNCHANGED told
             ELSE End("refused") /\ UNCHANGED values

-----------------------------------------------------------------------------
(***************************************************************************)
(* Governed access.  The references are public labels; the request binds   *)
(* the identifiers they stand for, and the values are found by those.      *)
(***************************************************************************)
Targets(t) == [r \in References(t) |-> Target(snapshot, t, r)]

TargetItems(t) == {x[1] : x \in UNION Range(Targets(t))}

Operation(t) ==
  CASE Executes(t)       -> IF t.stdin # {} THEN "ChildStdin" ELSE "ChildEnvironment"
    [] t.kind = "inject" -> "TemplateInjection"
    [] t.kind = "read"   -> IF t.out # {} THEN "WritePrivateFile" ELSE "ReadStdout"

Rule(t) ==
  {rule \in Vault[snapshot].rules :
     rule.item \in TargetItems(t) /\ rule.operation = Operation(t)}

\* use_policy_timeout: without one of its own, a child takes the policy's.
GovernedTimeout(t, rule) ==
  IF t.kind = "exec" \/ (t.kind = "run" /\ t.timeout = {})
  THEN {Min({rule.timeout, PolicyTimeout})} ELSE prepared.timeout

TargetCount(t) ==
  IF Executes(t) /\ t.stdin # {} THEN 1
  ELSE Cardinality(UNION Range(Targets(t))) + (IF t.kind = "read" THEN 0 ELSE 1)

WithinRule(t, rule) ==
  /\ Executes(t) => /\ \A ms \in GovernedTimeout(t, rule) : ms =< rule.timeout
                    /\ prepared.limit =< rule.output
  /\ TargetCount(t) =< rule.targets

\* Public text in chunks, and a placeholder for each reference.
Chunks(text) ==
  [k \in 1 .. (Len(text) + Chunk - 1) \div Chunk |->
     SubSeq(text, (k - 1) * Chunk + 1, Min({k * Chunk, Len(text)}))]

TemplateArguments(t) ==
  Joined([n \in DOMAIN Pieces(t) |->
    IF Pieces(t)[n].reference
    THEN <<[target |-> Targets(t)[Pieces(t)[n].text[1]], text |-> <<>>]>>
    ELSE [k \in DOMAIN Chunks(Pieces(t)[n].text) |->
            [target |-> {}, text |-> Chunks(Pieces(t)[n].text)[k]]]])

Injections(t) ==
  {<<b[1], Targets(t)[b[2]]>> : b \in Range(t.env \o t.files)}

ExecutableIdentity(t) ==
  IF Executes(t) THEN <<prepared.path, prepared.program>> ELSE Nothing

\* The action as the approvers and the witnesses get it.
ActionFor(t, rule) ==
  [kind |-> "action", revision |-> snapshot, item |-> TargetItems(t),
   fields |-> UNION Range(Targets(t)), operation |-> Operation(t),
   executable |-> ExecutableIdentity(t),
   cwd |-> IF Executes(t) THEN prepared.cwd ELSE "",
   arguments |-> IF t.kind = "inject" THEN TemplateArguments(t) ELSE <<>>,
   injections |-> IF Executes(t) THEN Injections(t) ELSE {},
   stdin |-> {Targets(t)[r] : r \in t.stdin},
   destination |-> t.out,
   timeout |-> IF Executes(t) THEN GovernedTimeout(t, rule) ELSE {},
   limit |-> IF Executes(t) THEN prepared.limit ELSE MaxRendered]

Askable(t) ==
  /\ \A r \in References(t) : Targets(t)[r] # {}
  /\ Cardinality(TargetItems(t)) = 1
  /\ \E rule \in Rule(t) : WithinRule(t, rule)
  /\ t.kind = "inject" => Len(TemplateArguments(t)) =< MaxArguments

AskForAction ==
  /\ stage = "loaded" /\ Governed(task)
  /\ UNCHANGED <<task, world, snapshot, opened, values, results>>
  /\ IF Askable(task)
     THEN \E rule \in Rule(task) :
            /\ request' = ActionFor(task, rule)
            /\ prepared' = IF ~Executes(task) THEN prepared
                           ELSE [prepared EXCEPT !.timeout = GovernedTimeout(task, rule)]
            /\ stage' = "asked" /\ UNCHANGED told
     ELSE End("refused") /\ UNCHANGED <<request, prepared>>

\* The value of each reference is found by its field identifier in the body.
MutGovernedTarget(reference) ==
  UNION {{x[1]} \X FieldsNamed(snapshot, x[1], reference[2]) :
           x \in Targets(task)[reference]}

GovernedTarget(reference) ==
  {x \in Targets(task)[reference] :
     x[2] \in DOMAIN Vault[snapshot].items[x[1]].fields}

\* The witnesses and approvers grant the request or they do not; a granted
\* one opens the body.  A field that is not in it ends the command.
Authorize ==
  /\ stage = "asked"
  /\ UNCHANGED <<task, world, prepared, snapshot, request, results>>
  /\ \/ End("refused") /\ UNCHANGED <<opened, values>>
     \/ /\ opened' = request.item
        /\ LET found == [r \in References(task) |-> GovernedTarget(r)] IN
           IF /\ \A r \in References(task) : found[r] # {}
              /\ RenderBounded(task, Resolved(found))
           THEN values' = Resolved(found) /\ stage' = "opened" /\ UNCHANGED told
           ELSE End("refused") /\ UNCHANGED values

\* The receipt is published before the value goes anywhere, and only if its
\* destination is as it was.
PublishGoverned ==
  /\ stage = "opened"
  /\ UNCHANGED <<task, world, prepared, snapshot, opened, request, values,
                 outfile, printed, child, shown, trail>>
  /\ \/ /\ receipt = NoFile
        /\ receipt' = <<"receipt">>
        /\ stage' = (CASE Executes(task)       -> "ready"
                       [] task.kind = "inject" -> "audit"
                       [] task.kind = "read"   -> "output")
        /\ UNCHANGED told
     \/ End("refused") /\ UNCHANGED receipt

-----------------------------------------------------------------------------
(***************************************************************************)
(* Sinks of reads and injections.  The audit event comes first, and no     *)
(* event, no output.                                                       *)
(***************************************************************************)
Contents(t) == IF t.kind = "inject" THEN Rendered(t, values)
               ELSE <<values[t.reference].value>>

AuditOutput ==
  /\ stage = "audit"
  /\ UNCHANGED <<task, world, prepared, snapshot, opened, request, values,
                 receipt, outfile, printed, child, shown>>
  /\ \E ok \in BOOLEAN :
       /\ AppendAudit(Event(opened, "Success"), ok)
       /\ IF ok THEN stage' = "output" /\ UNCHANGED told ELSE End("refused")

WriteOutput ==
  /\ stage = "output"
  /\ UNCHANGED <<task, world, prepared, snapshot, opened, request, values,
                 receipt, child, shown, trail>>
  /\ \/ /\ task.out # {} /\ (outfile = NoFile \/ task.overwrite)
        /\ outfile' = Contents(task) /\ End("done") /\ UNCHANGED printed
     \/ /\ task.out = {}
        /\ printed' = Contents(task) /\ UNCHANGED outfile
        /\ \E status \in {"done", "refused"} : End(status)
     \/ task.out # {} /\ End("refused") /\ UNCHANGED <<outfile, printed>>

-----------------------------------------------------------------------------
(***************************************************************************)
(* Children.  The environment begins with what the mode inherits; mapped   *)
(* variables carry values, or the name of an anonymous file with one.      *)
(***************************************************************************)
Inherited(t) ==
  CASE Governed(t)                    -> {}
    [] ~Governed(t) /\ t.kind = "exec" -> Ambient \ Reserved
    [] ~Governed(t) /\ t.kind = "run"  -> Ambient \intersect Allowlist

\* bytes_to_environment: a variable cannot carry every value.
EnvironmentFits(t) ==
  \A b \in Range(t.env) : b[2] # LiteralSource => values[b[2]].text

Carried(source) == IF source = LiteralSource THEN LiteralSource ELSE <<values[source].value>>

ChildEnvironment(t) ==
  LET mapped == Range(t.env \o t.files) IN
  [n \in Inherited(t) \union {b[1] : b \in mapped} |->
     IF n \in {b[1] : b \in mapped}
     THEN Carried((CHOOSE b \in mapped : b[1] = n)[2]) ELSE <<"inherited">>]

\* The redactor is built while the value for standard input is still held.
MutNeedles(t) ==
  {values[r].value : r \in {x \in DOMAIN values \ t.stdin : values[x].concealed}}

Needles(t) ==
  {values[r].value : r \in {x \in DOMAIN values : values[x].concealed}}

ChildStdin(t) ==
  IF t.stdin # {} THEN {<<values[r].value>> : r \in t.stdin}
  ELSE IF t.kind = "exec" /\ ~Governed(t) THEN {<<"inherited">>} ELSE {}

\* Bytes of output a stream keeps.  A transparent execution keeps none and
\* streams every byte instead: {} is no bound.
OutputLimit(t) == IF t.kind = "exec" THEN {} ELSE {prepared.limit}

\* run_resolved up to the spawn; a value or a channel that does not work out
\* ends the command without a trace in the audit.
Launch ==
  /\ stage = "ready"
  /\ UNCHANGED <<task, world, prepared, snapshot, opened, request, values,
                 receipt, outfile, printed, shown, trail>>
  /\ \/ /\ EnvironmentFits(task)
        /\ child' = [kind |-> "helper", image |-> 0, folder |-> 0,
                     env |-> ChildEnvironment(task), stdin |-> ChildStdin(task),
                     needles |-> Needles(task), timeout |-> prepared.timeout,
                     limit |-> OutputLimit(task), outcome |-> "none"]
        /\ stage' = "started" /\ UNCHANGED told
     \/ End("refused") /\ UNCHANGED child

\* internal_exec: the helper becomes the program behind the descriptor.
HelperExec ==
  /\ stage = "started" /\ child.kind = "helper"
  /\ child' = IF prepared.program \in runnable
              THEN [child EXCEPT !.kind = "program", !.image = prepared.program,
                                 !.folder = prepared.folder]
              ELSE [child EXCEPT !.kind = "failed"]
  /\ UNCHANGED <<task, stage, world, prepared, snapshot, opened, request, values,
                 receipt, outfile, printed, shown, trail, told>>

Received(c) == UNION {Range(x) : x \in Range(c.env) \union c.stdin}

\* process_audit_outcome: what the audit makes of the end of a process.
AuditOutcome(result) ==
  CASE result = "Exited"    -> "Success"
    [] result = "Cancelled" -> "Cancelled"
    [] OTHER                -> "Failed"

\* A program may print all it was given; needles do not get through.
ChildEnds ==
  /\ stage = "started"
  /\ \E result \in {"Exited", "Cancelled", "TimedOut"} :
       child' = [child EXCEPT !.outcome = AuditOutcome(result)]
  /\ shown' \in IF child.kind = "program" THEN {{}, Received(child) \ child.needles}
                ELSE {{}}
  /\ stage' = "ended"
  /\ UNCHANGED <<task, world, prepared, snapshot, opened, request, values,
                 receipt, outfile, printed, trail, told>>

\* The event is recorded if possible, and the output of a child that ended
\* well says whether it was.
RecordRun ==
  /\ stage = "ended"
  /\ \E ok \in BOOLEAN :
       /\ AppendAudit(Event(opened, child.outcome), ok)
       /\ told' = [kind |-> IF child.outcome = "Success" THEN "done" ELSE "refused",
                   recorded |-> ok /\ child.outcome = "Success",
                   outcome |-> child.outcome]
  /\ stage' = "over"
  /\ UNCHANGED <<task, world, prepared, snapshot, opened, request, values,
                 receipt, outfile, printed, child, shown>>

\* The command is killed.
Kill ==
  /\ stage # "over" /\ End("killed")
  /\ UNCHANGED <<task, world, prepared, snapshot, opened, request, values, results>>

-----------------------------------------------------------------------------
(***************************************************************************)
(* What others do while the command runs.                                  *)
(***************************************************************************)
command == <<task, stage, prepared, snapshot, opened, request, values,
             printed, child, shown, trail, told>>

Meanwhile == stage # "over" /\ changes < MaxChanges /\ changes' = changes + 1

CommitRevision ==
  /\ Meanwhile /\ latest < Len(Vault)
  /\ latest' = latest + 1
  /\ UNCHANGED <<command, programs, runnable, folders, receipt, outfile>>

NewInode == 1 + Max(Range(programs) \union Range(folders) \union runnable
                    \union {prepared.program, prepared.folder})

\* A program is renamed over, removed, or changes its mode.
ReplaceProgram ==
  /\ Meanwhile /\ Executes(task)
  /\ \E path \in DOMAIN programs :
       \/ /\ programs' = [programs EXCEPT ![path] = NewInode]
          /\ runnable' = runnable \union {NewInode}
       \/ programs' = [programs EXCEPT ![path] = 0] /\ UNCHANGED runnable
       \/ /\ programs[path] \in runnable
          /\ runnable' = runnable \ {programs[path]} /\ UNCHANGED programs
  /\ UNCHANGED <<command, latest, folders, receipt, outfile>>

ReplaceFolder ==
  /\ Meanwhile /\ Executes(task)
  /\ folders' = [folders EXCEPT ![task.cwd] = NewInode]
  /\ UNCHANGED <<command, latest, programs, runnable, receipt, outfile>>

TakePath ==
  /\ Meanwhile
  /\ \/ receipt = NoFile /\ Governed(task) /\ receipt' = OtherFile /\ UNCHANGED outfile
     \/ outfile = NoFile /\ task.out # {} /\ outfile' = OtherFile /\ UNCHANGED receipt
  /\ UNCHANGED <<command, latest, programs, runnable, folders>>

DeliveryInit ==
  /\ task \in Tasks
  /\ stage = "start" /\ latest = 1 /\ changes = 0
  /\ \E t \in Trees : programs = t[1] /\ runnable = t[2] /\ folders = t[3]
  /\ prepared = [path |-> <<"", "">>, program |-> 0, cwd |-> "", folder |-> 0,
                 timeout |-> {}, limit |-> 0]
  /\ snapshot = 0 /\ opened = {} /\ request = Idle /\ values = <<>>
  /\ receipt = NoFile /\ outfile = NoFile
  /\ printed = Nothing /\ child = Idle /\ shown = {} /\ trail = <<>> /\ told = Idle

DeliveryNext ==
  \/ Prepare \/ OpenProgram \/ CheckSink \/ Preview \/ Load
  \/ OpenItems
  \/ AskForAction \/ Authorize \/ PublishGoverned
  \/ AuditOutput \/ WriteOutput
  \/ Launch \/ HelperExec \/ ChildEnds \/ RecordRun \/ Kill
  \/ CommitRevision \/ ReplaceProgram \/ ReplaceFolder \/ TakePath

DeliverySpec == DeliveryInit /\ [][DeliveryNext]_deliveryVars

-----------------------------------------------------------------------------
(***************************************************************************)
(* Properties.                                                             *)
(***************************************************************************)
Delivered == printed # Nothing \/ outfile \notin {NoFile, OtherFile}
             \/ child # Idle

Output == IF task.out # {} THEN outfile ELSE printed

Reviewed(target) == Field(request.revision, CHOOSE x \in target : TRUE).value

\* The text an action's arguments stand for, once its fields are filled in.
Substituted(arguments) ==
  Joined([n \in DOMAIN arguments |->
    IF arguments[n].target # {} THEN <<Reviewed(arguments[n].target)>>
    ELSE arguments[n].text])

LabelsAsReviewed ==
  \A r \in References(task) :
    task.byId = {} => RequestTarget(request.revision, r) \subseteq request.fields

ChildAsReviewed ==
  child # Idle =>
    /\ child.kind = "program" => /\ <<prepared.path, child.image>> = request.executable
                                 /\ child.image # 0 /\ child.folder # 0
    /\ DOMAIN child.env = {x[1] : x \in request.injections}
    /\ \A x \in request.injections : child.env[x[1]] = <<Reviewed(x[2])>>
    /\ child.stdin = {<<Reviewed(x)>> : x \in request.stdin}
    /\ child.timeout = request.timeout /\ child.timeout # {}
    /\ task.kind = "run" => child.limit = {request.limit}

WroteOutput == Output # Nothing /\ Output \notin {NoFile, OtherFile}

OutputAsReviewed ==
  WroteOutput =>
    /\ task.kind = "read" => Output = <<Reviewed(request.fields)>>
    /\ task.kind = "inject" => Output = Substituted(request.arguments)

\* A governed delivery is the action that was asked for, whatever happened
\* to labels, revisions, programs and directories in between: the same
\* program file, exactly the variables and the standard input it names, each
\* with the value its target has in the revision asked about, and for no
\* longer than asked; the output of a run is cut where the request says (an
\* exec asks with a limit of 0 and streams all of it); a template becomes its
\* arguments, filled in; and a field typed as a label is the one field that
\* label stands for.
DeliveredAsReviewed ==
  (Governed(task) /\ Delivered) =>
    LabelsAsReviewed /\ ChildAsReviewed /\ OutputAsReviewed

\* A command delivers everything it names or nothing: no body is opened
\* directly while one of the named items is unavailable (a field that is
\* missing shows only in an opened body, and then nothing is delivered), and
\* whatever is delivered is complete and from one revision the caller could
\* read.
AllOrNothing ==
  /\ (~Governed(task) /\ opened # {}) =>
       /\ \A n \in ItemNames(task) : ItemsNamed(snapshot, n) # {}
       /\ \A i \in opened : Vault[snapshot].items[i].reader
  /\ Delivered => /\ DOMAIN values = References(task)
                  /\ \A r \in References(task) :
                       \E i \in opened : values[r] \in Range(Vault[snapshot].items[i].fields)

\* Values leave a governed command only behind its receipt, and a direct read
\* or injection only behind its audit event; an execution that claims an
\* event has the event, with the child's outcome.  No concealed value a child
\* was given comes back out of it, whichever way it was given, and no child
\* sees a variable of Jury's own.
NothingEscapes ==
  /\ (Governed(task) /\ Delivered) => receipt = <<"receipt">>
  /\ (~Executes(task) /\ Delivered /\ (~Governed(task) \/ task.kind = "inject")) =>
       \E e \in Range(trail) : e.outcome = "Success"
  /\ (told # Idle /\ told.recorded) =>
       \E e \in Range(trail) : e.outcome = told.outcome /\ e.items \subseteq opened
  /\ \A r \in DOMAIN values : values[r].concealed => values[r].value \notin shown
  /\ child # Idle => DOMAIN child.env \intersect Reserved = {}
=============================================================================
