--------------------------- MODULE MutationCommit ---------------------------
(***************************************************************************)
(* Durable publication of one vault's mutations: the commands that open a  *)
(* principal's retained state, plan a mutation (or import a transfer), and *)
(* commit it under the vault edit lock.  A commit writes, in this order,   *)
(* the principal's audit intent, the policy catalog, the encrypted shared  *)
(* artifact of one home, and the principal's checkpoint.                   *)
(*                                                                         *)
(* An artifact is the sequence of its policy revisions; its digest, its    *)
(* policy sequence and its terminal revision hash are all functions of it. *)
(* Every file has the contents commands see and the contents that survive  *)
(* a power loss (disk).  A rename makes new contents visible, the sync of  *)
(* the parent directory makes the directory durable, and may fail.         *)
(*                                                                         *)
(* Refusals that happen before anything is published and change nothing    *)
(* (entropy, protected memory, capacity, time running backwards, a failed  *)
(* prepare) are covered by Refuse.                                         *)
(***************************************************************************)
EXTENDS Naturals, FiniteSets, Sequences

CONSTANTS
  Procs,        \* running commands
  Principals,   \* vault principals with local state below one state root
  ActsFor,      \* the principal a command acts for
  Homes,        \* worktrees or detached homes holding an artifact
  GitHomes,     \* the homes inside a Git worktree
  Established,  \* principals whose local state exists from the start
  MaxRevisions, \* bound: revisions planned
  Budgets,      \* bounds: changes made by Git or by other tools (moves), failed
                \* publications and syncs (faults), killed commands (kills) and
                \* power losses (outages)
  MaxEvents     \* bound: audit entries of one principal

ASSUME ActsAssumption == ActsFor \in [Procs -> Principals]
ASSUME HomesAssumption == GitHomes \subseteq Homes /\ Homes # {}
ASSUME ProcsAssumption == Procs \cap {"free", "stale"} = {}
ASSUME EstablishedAssumption == Established \subseteq Principals
ASSUME CommitBoundsAssumption ==
  /\ MaxRevisions \in Nat
  /\ MaxEvents \in Nat
  /\ Budgets \subseteq [moves : Nat, faults : Nat, kills : Nat, outages : Nat]

VARIABLES
  home,       \* the artifact file of each home, its identity and the Git state
  catalog,    \* policy-catalog.json: the witness policies retained
  files,      \* audit, checkpoint and receipts of each principal
  disk,       \* what a power loss leaves of the artifacts, catalog and files
  lock,       \* vault-edit.lock: "free", its holder, or "stale"
  cmd,        \* the state of each command
  revisions,  \* the revisions planned so far: the witness policy each puts in
              \* force, named after the revision that added it, or 0
  published,  \* history: who published which artifact
  reported,   \* history: the artifacts each principal was told are committed
  budget      \* what is left of the bounds

vars == <<home, catalog, files, disk, lock, cmd, revisions, published, reported, budget>>


Extends(a, b) == Len(a) <= Len(b) /\ SubSeq(b, 1, Len(a)) = a

\* The witness policies the replay of an artifact asks the catalog for.
Uses(a) == {w \in DOMAIN revisions : \E k \in DOMAIN a : revisions[a[k]] = w}

\* Artifacts that Git or a transfer can bring back.
Known == {<<>>} \cup {w[2] : w \in published}

---------------------------------------------------------------------------
(* Local state *)

\* A file that does not exist: an audit always has its initial event, and a
\* checkpoint always names an audit entry.
NoAudit == <<>>
NoCheckpoint == [accepted |-> <<>>, seen |-> NoAudit]

\* Audit operations: the initial event names its candidate, a mutation's
\* event its target, any other event is anonymous.
Initialized(a) == [kind |-> "initialize", art |-> a]
Mutated(a) == [kind |-> "mutate", art |-> a]
Operational == [kind |-> "operate", art |-> <<>>]

FreshFiles(a) ==
  [audit |-> <<Initialized(a)>>,
   checkpoint |-> [accepted |-> a, seen |-> <<Initialized(a)>>],
   receipts |-> TRUE]

NoFiles == [audit |-> NoAudit, checkpoint |-> NoCheckpoint, receipts |-> FALSE]

Absent(f) == f = NoFiles
Complete(f) == f.audit # NoAudit /\ f.checkpoint # NoCheckpoint /\ f.receipts

\* verify_files: the checkpoint's audit MAC must be one of the audit's.
Verifies(f) == Complete(f) /\ Extends(f.checkpoint.seen, f.audit)

HasTail(f) == f.checkpoint.seen # f.audit

ContainsOperation(f, a) == \E k \in DOMAIN f.audit : f.audit[k] = Mutated(a)

\* Mutant: an artifact behind the checkpoint is taken for a descendant.
MutRelation(f, a) == IF a = f.checkpoint.accepted THEN "equal" ELSE "descendant"

\* CheckpointCandidate::relation_to, for the candidate a.
Relation(f, a) ==
  IF a = f.checkpoint.accepted THEN "equal"
  ELSE IF Extends(f.checkpoint.accepted, a) THEN "descendant"
  ELSE "divergent"

AcceptCandidate(f, a) == [f EXCEPT !.checkpoint.accepted = a]
AcceptTail(f) == [f EXCEPT !.checkpoint.seen = f.audit]
AppendEvent(f, e) ==
  [f EXCEPT !.audit = Append(f.audit, e), !.checkpoint.seen = Append(f.audit, e)]

---------------------------------------------------------------------------
(* Commands *)

Idle ==
  [pc |-> "idle", flow |-> "none", home |-> CHOOSE h \in Homes : TRUE,
   base |-> <<>>, cat |-> {}, absent |-> FALSE, git |-> 0, target |-> <<>>,
   catTarget |-> {}, update |-> FALSE, inode |-> 0, next |-> NoFiles]

Init ==
  /\ home = [h \in Homes |-> [art |-> <<>>, inode |-> 0, git |-> 0]]
  /\ catalog = {}
  /\ files = [q \in Principals |-> IF q \in Established THEN FreshFiles(<<>>) ELSE NoFiles]
  /\ disk = [art |-> [h \in Homes |-> <<>>], catalog |-> {}, files |-> files]
  /\ lock = "free"
  /\ cmd = [p \in Procs |-> Idle]
  /\ revisions = <<>>
  /\ published = {}
  /\ reported = [q \in Principals |-> {}]
  /\ budget \in Budgets

At(p, pc) == cmd[p].pc = pc
Me(p) == ActsFor[p]
Go(p, c) == cmd' = [cmd EXCEPT ![p] = c]
Step(p, pc) == Go(p, [cmd[p] EXCEPT !.pc = pc])

\* A command holding the lock returns: the lock file is removed on drop.
\* The caller keeps the plan object and may commit the same plan again.
Return(p) ==
  /\ lock' = "free"
  /\ \/ Go(p, Idle)
     \/ /\ cmd[p].flow \in {"commit", "reconcile"}
        /\ Go(p, [cmd[p] EXCEPT !.pc = "planned", !.flow = "commit", !.inode = 0,
                                !.update = FALSE, !.next = NoFiles])

\* Mutant: an existing lock file is taken over.
MutTakeLock(p) == lock' = p


TakeLock(p) == lock = "free" /\ lock' = p

Fault == budget.faults > 0 /\ budget' = [budget EXCEPT !.faults = @ - 1]
NoFault == UNCHANGED budget

---------------------------------------------------------------------------
(* Publication of one prepared file: PreparedPrivateFile::publish_with_sync *)

\* The directory of a principal's files, with the file named k replaced.
Replaced(p, k) == [files[Me(p)] EXCEPT ![k] = cmd[p].next[k]]

\* Rename and sync both succeed.
PublishedAndSynced(p, k) ==
  /\ files' = [files EXCEPT ![Me(p)] = Replaced(p, k)]
  /\ disk' = [disk EXCEPT !.files[Me(p)] = Replaced(p, k)]
  /\ NoFault

\* The rename is visible, the sync of the directory failed.
PublishedUnsynced(p, k) ==
  /\ Fault
  /\ files' = [files EXCEPT ![Me(p)] = Replaced(p, k)]
  /\ UNCHANGED disk

NotPublished == Fault /\ UNCHANGED <<files, disk>>

---------------------------------------------------------------------------
(* Opening a principal's state: load_principal_context_with_passphrase *)

ReadVault(p, h) ==
  /\ At(p, "idle")
  /\ Go(p, [Idle EXCEPT !.pc = "read", !.home = h, !.base = home[h].art])
  /\ UNCHANGED <<home, catalog, files, disk, lock, revisions, published, reported, budget>>

\* Reads the catalog, replays the policy with it, and probes the local files.
\* A missing policy or a partial set of files ends the command (Refuse).
Probe(p) ==
  /\ At(p, "read")
  /\ Uses(cmd[p].base) \subseteq catalog
  /\ \/ Absent(files[Me(p)])
     \/ Complete(files[Me(p)])
  /\ Go(p, [cmd[p] EXCEPT !.pc = "probed", !.cat = catalog, !.absent = Absent(files[Me(p)])])
  /\ UNCHANGED <<home, catalog, files, disk, lock, revisions, published, reported, budget>>

\* The passphrase has been entered: local state that was absent when it was
\* probed is initialized under the lock, whatever is there by now.
StartInitialize(p) ==
  /\ At(p, "probed")
  /\ cmd[p].absent
  /\ TakeLock(p)
  /\ Go(p, [cmd[p] EXCEPT !.pc = "audit", !.flow = "initialize", !.next = FreshFiles(cmd[p].base)])
  /\ UNCHANGED <<home, catalog, files, disk, revisions, published, reported, budget>>

Open(p) ==
  LET f == files[Me(p)]
  IN /\ At(p, "probed")
     /\ ~cmd[p].absent
     /\ Verifies(f)
     /\ Relation(f, cmd[p].base) = "equal"
     /\ ~HasTail(f)
     /\ Step(p, "ready")
     /\ UNCHANGED <<home, catalog, files, disk, lock, revisions, published, reported, budget>>

\* advance_principal_checkpoint: the local files are read again under the lock.
StartAdvance(p) ==
  LET f == files[Me(p)]
  IN /\ At(p, "probed")
     /\ ~cmd[p].absent
     /\ Verifies(f)
     /\ Relation(f, cmd[p].base) # "divergent"
     /\ Relation(f, cmd[p].base) = "descendant" \/ HasTail(f)
     /\ TakeLock(p)
     /\ Go(p, [cmd[p] EXCEPT !.pc = "checkpoint", !.flow = "advance",
                             !.next = AcceptCandidate(AcceptTail(f), cmd[p].base)])
     /\ UNCHANGED <<home, catalog, files, disk, revisions, published, reported, budget>>

---------------------------------------------------------------------------
(* Planning *)

Plan(p, target, cats) ==
  Go(p, [cmd[p] EXCEPT !.pc = "planned", !.flow = "commit", !.git = home[cmd[p].home].git,
                       !.target = target, !.catTarget = cats])

\* A mutation appends one revision.  A witness policy that is new to the
\* catalog replaces it by the policies in use and the new one; one that the
\* catalog has, in use or staged by a commit that went no further, leaves the
\* catalog as it is.  (A descendant made elsewhere, whose policies the catalog
\* has, is imported in the same way.)
PlanMutation(p, w) ==
  LET i == Len(revisions) + 1
  IN /\ At(p, "ready")
     /\ i <= MaxRevisions
     /\ w \in {0, i} \cup cmd[p].cat
     /\ Plan(p, Append(cmd[p].base, i), IF w = i THEN Uses(cmd[p].base) \cup {i} ELSE cmd[p].cat)
     /\ revisions' = Append(revisions, w)
     /\ UNCHANGED <<home, catalog, files, disk, lock, published, reported, budget>>

\* A transfer carries an exact descendant and the policies it uses.
PlanImport(p, target) ==
  /\ At(p, "ready")
  /\ Extends(cmd[p].base, target)
  /\ target # cmd[p].base
  /\ Plan(p, target, cmd[p].cat \cup Uses(target))
  /\ UNCHANGED <<home, catalog, files, disk, lock, revisions, published, reported, budget>>

\* Mutant: the checkpoint is published without its audit entry.
MutStartEvent(p) ==
  /\ At(p, "ready")
  /\ Verifies(files[Me(p)])
  /\ TakeLock(p)
  /\ Go(p, [cmd[p] EXCEPT !.pc = "checkpoint", !.flow = "event",
                          !.next = AppendEvent(files[Me(p)], Operational)])
  /\ UNCHANGED <<home, catalog, files, disk, revisions, published, reported, budget>>

\* append_operational_audit_outcome: an event without a mutation.
StartEvent(p) ==
  LET f == files[Me(p)]
  IN /\ At(p, "ready")
     /\ Verifies(f)
     /\ Len(f.audit) < MaxEvents
     /\ TakeLock(p)
     /\ Go(p, [cmd[p] EXCEPT !.pc = "audit", !.flow = "event",
                             !.next = AppendEvent(f, Operational)])
     /\ UNCHANGED <<home, catalog, files, disk, revisions, published, reported, budget>>

\* Leaving a command before it holds the lock: an error, Busy, or its end.
Refuse(p) ==
  /\ cmd[p].pc \in {"read", "probed", "ready", "planned"}
  /\ Go(p, Idle)
  /\ UNCHANGED <<home, catalog, files, disk, lock, revisions, published, reported, budget>>

---------------------------------------------------------------------------
(* The commit: commit_with_before_shared_publish *)

\* Takes the edit lock, compares the catalog with the one planned from where
\* the plan changes it, and previews the identity of the artifact file.
Acquire(p) ==
  LET c == cmd[p]
  IN /\ At(p, "planned")
     /\ TakeLock(p)
     /\ c.cat # c.catTarget => catalog \in {c.cat, c.catTarget}
     /\ Go(p, [c EXCEPT !.pc = "previewed", !.inode = home[c.home].inode,
                        !.update = c.cat # c.catTarget /\ catalog # c.catTarget])
     /\ UNCHANGED <<home, catalog, files, disk, revisions, published, reported, budget>>

GitCurrent(c) == c.home \in GitHomes => home[c.home].git = c.git

\* Reads the artifact and the local files; everything is prepared, nothing
\* is published.
Examine(p) ==
  LET c == cmd[p]
      current == home[c.home].art
      f == files[Me(p)]
      g == AcceptCandidate(f, current)
      intent == IF ContainsOperation(g, c.target) THEN AcceptTail(g)
                ELSE AppendEvent(g, Mutated(c.target))
  IN /\ At(p, "previewed")
     /\ current = c.base
     /\ GitCurrent(c)
     /\ Verifies(f)
     /\ Relation(f, current) # "divergent"
     /\ Len(intent.audit) <= MaxEvents
     /\ home[c.home].inode = c.inode
     /\ Go(p, [c EXCEPT !.pc = "audit", !.next = AcceptCandidate(intent, c.target)])
     /\ UNCHANGED <<home, catalog, files, disk, lock, revisions, published, reported, budget>>

\* The target is already there: what a former attempt or another command left.
ExamineTarget(p) ==
  LET c == cmd[p]
      f == files[Me(p)]
      g == AcceptCandidate(f, c.target)
      missing == ~ContainsOperation(f, c.target)
  IN /\ At(p, "previewed")
     /\ home[c.home].art = c.target
     /\ Verifies(f)
     /\ Relation(f, c.target) # "divergent"
     /\ Len(f.audit) < MaxEvents
     /\ Go(p, [c EXCEPT !.pc = "catalog", !.flow = "reconcile",
                        !.next = IF missing THEN AppendEvent(g, Mutated(c.target)) ELSE AcceptTail(g)])
     /\ UNCHANGED <<home, catalog, files, disk, lock, revisions, published, reported, budget>>

\* Any error before the first publication.
Abandon(p) ==
  /\ cmd[p].pc \in {"previewed", "audit"}
  /\ Return(p)
  /\ UNCHANGED <<home, catalog, files, disk, revisions, published, reported, budget>>

---------------------------------------------------------------------------
(* Publication steps *)

\* Mutant: an audit intent that is not synced counts as published.
MutPublishAudit(p) ==
  /\ At(p, "audit")
  /\ PublishedAndSynced(p, "audit") \/ PublishedUnsynced(p, "audit")
  /\ Step(p, IF cmd[p].flow = "commit" THEN "catalog" ELSE "checkpoint")
  /\ UNCHANGED <<home, catalog, lock, revisions, published, reported>>


PublishAudit(p) ==
  /\ At(p, "audit")
  /\ \/ /\ PublishedAndSynced(p, "audit")
        /\ Step(p, IF cmd[p].flow = "commit" THEN "catalog" ELSE "checkpoint")
        /\ UNCHANGED lock
     \/ /\ PublishedUnsynced(p, "audit") \/ NotPublished
        /\ Return(p)
  /\ UNCHANGED <<home, catalog, revisions, published, reported>>

\* Where a command goes once the catalog is settled.
AfterCatalog(p) ==
  LET c == cmd[p]
      f == files[Me(p)]
  IN IF c.flow = "commit" THEN Step(p, "validate") /\ UNCHANGED <<lock, reported>>
     ELSE IF c.next = f
     THEN Return(p) /\ reported' = [reported EXCEPT ![Me(p)] = @ \cup {c.target}]
     ELSE /\ Step(p, IF c.next.audit # f.audit THEN "audit" ELSE "checkpoint")
          /\ UNCHANGED <<lock, reported>>

\* Mutant: the catalog is prepared and never published.
MutPublishCatalog(p) ==
  /\ At(p, "catalog")
  /\ AfterCatalog(p)
  /\ UNCHANGED <<home, catalog, files, disk, revisions, published, budget>>

\* The Git state is compared again just before the first shared change.
PublishCatalog(p) ==
  LET c == cmd[p]
  IN /\ At(p, "catalog")
     /\ c.flow = "commit" => GitCurrent(c)
     /\ \/ /\ IF c.update
              THEN /\ catalog' = c.catTarget
                   /\ disk' = [disk EXCEPT !.catalog = c.catTarget]
              ELSE UNCHANGED <<catalog, disk>>
           /\ NoFault
           /\ AfterCatalog(p)
        \/ /\ c.update
           /\ Fault
           /\ catalog' \in {catalog, c.catTarget}
           /\ Return(p)
           /\ UNCHANGED <<disk, reported>>
     /\ UNCHANGED <<home, files, revisions, published>>

GitMoved(p) ==
  /\ At(p, "catalog")
  /\ cmd[p].flow = "commit"
  /\ ~GitCurrent(cmd[p])
  /\ Return(p)
  /\ UNCHANGED <<home, catalog, files, disk, revisions, published, reported, budget>>

\* validate_expected: the artifact file must still be the one previewed.
Validate(p) ==
  /\ At(p, "validate")
  /\ home[cmd[p].home].inode = cmd[p].inode
  /\ Step(p, "rename")
  /\ UNCHANGED <<home, catalog, files, disk, lock, revisions, published, reported, budget>>

\* The shared publication failed; the catalog this commit published is put
\* back unless the target is in place all the same.
SharedFailed(p) ==
  LET c == cmd[p]
  IN /\ \/ /\ At(p, "validate")
           /\ home[c.home].inode # c.inode
           /\ NoFault
        \/ /\ At(p, "rename")
           /\ Fault
     /\ IF c.update /\ home[c.home].art # c.target
        THEN Step(p, "restore") /\ UNCHANGED lock
        ELSE Return(p)
     /\ UNCHANGED <<home, catalog, files, disk, revisions, published, reported>>

RestoreCatalog(p) ==
  /\ At(p, "restore")
  /\ \/ /\ catalog' = cmd[p].cat
        /\ disk' = [disk EXCEPT !.catalog = cmd[p].cat]
        /\ NoFault
     \/ /\ Fault
        /\ catalog' \in {catalog, cmd[p].cat}
        /\ UNCHANGED disk
  /\ Return(p)
  /\ UNCHANGED <<home, files, revisions, published, reported>>

\* The rename replaces whatever the artifact file holds by now.
Rename(p) ==
  LET c == cmd[p]
  IN /\ At(p, "rename")
     /\ home' = [home EXCEPT ![c.home].art = c.target, ![c.home].inode = @ + 1]
     /\ \/ NoFault /\ disk' = [disk EXCEPT !.art[c.home] = c.target]
        \/ Fault /\ UNCHANGED disk
     /\ published' = published \cup {<<Me(p), c.target>>}
     /\ Step(p, "checkpoint")
     /\ UNCHANGED <<catalog, files, lock, revisions, reported>>

PublishCheckpoint(p) ==
  LET c == cmd[p]
  IN /\ At(p, "checkpoint")
     /\ \/ /\ PublishedAndSynced(p, "checkpoint")
           /\ CASE c.flow = "advance" -> Step(p, "ready") /\ lock' = "free"
                [] c.flow = "initialize" -> Step(p, "receipts") /\ UNCHANGED lock
                [] OTHER -> Return(p)
           /\ reported' = IF c.flow \in {"commit", "reconcile"}
                          THEN [reported EXCEPT ![Me(p)] = @ \cup {c.target}]
                          ELSE reported
        \/ /\ PublishedUnsynced(p, "checkpoint") \/ NotPublished
           /\ Return(p)
           /\ UNCHANGED reported
     /\ UNCHANGED <<home, catalog, revisions, published>>

PublishReceipts(p) ==
  /\ At(p, "receipts")
  /\ \/ /\ PublishedAndSynced(p, "receipts")
        /\ Step(p, "ready")
        /\ lock' = "free"
     \/ /\ PublishedUnsynced(p, "receipts") \/ NotPublished
        /\ Return(p)
  /\ UNCHANGED <<home, catalog, revisions, published, reported>>

---------------------------------------------------------------------------
(* The environment: other tools, kills, write-back *)

\* Git or another tool puts a known artifact into a home.
FileChange(h, a) ==
  /\ budget.moves > 0
  /\ a # home[h].art
  /\ home' = [home EXCEPT ![h].art = a, ![h].inode = @ + 1]
  /\ disk' = [disk EXCEPT !.art[h] = a]
  /\ budget' = [budget EXCEPT !.moves = @ - 1]
  /\ UNCHANGED <<catalog, files, lock, cmd, revisions, published, reported>>

\* HEAD, a ref, the reflog or the index changes.
GitMove(h) ==
  /\ h \in GitHomes
  /\ budget.moves > 0
  /\ home' = [home EXCEPT ![h].git = @ + 1]
  /\ budget' = [budget EXCEPT !.moves = @ - 1]
  /\ UNCHANGED <<catalog, files, disk, lock, cmd, revisions, published, reported>>

\* A killed command leaves its lock file behind.
Crash(p) ==
  /\ budget.kills > 0
  /\ ~At(p, "idle")
  /\ Go(p, Idle)
  /\ lock' = IF lock = p THEN "stale" ELSE lock
  /\ budget' = [budget EXCEPT !.kills = @ - 1]
  /\ UNCHANGED <<home, catalog, files, disk, revisions, published, reported>>

\* Neither the creation nor the removal of the lock file is synced.
PowerLoss ==
  /\ budget.outages > 0
  /\ cmd' = [p \in Procs |-> Idle]
  /\ home' = [h \in Homes |-> [home[h] EXCEPT !.art = disk.art[h]]]
  /\ catalog' = disk.catalog
  /\ files' = disk.files
  /\ lock' \in {"free", "stale"}
  /\ budget' = [budget EXCEPT !.outages = @ - 1]
  /\ UNCHANGED <<disk, revisions, published, reported>>

\* The operator removes the lock file of a command that is gone.
ClearLock ==
  /\ lock = "stale"
  /\ lock' = "free"
  /\ UNCHANGED <<home, catalog, files, disk, cmd, revisions, published, reported, budget>>

\* The system writes back an unsynced directory.
WriteBack ==
  /\ \/ \E h \in Homes : disk' = [disk EXCEPT !.art[h] = home[h].art]
     \/ \E q \in Principals : disk' = [disk EXCEPT !.files[q] = files[q]]
     \/ disk' = [disk EXCEPT !.catalog = catalog]
  /\ disk' # disk
  /\ UNCHANGED <<home, catalog, files, lock, cmd, revisions, published, reported, budget>>

\* A command that has read the vault goes on.
Proceed(p) ==
  \/ Probe(p) \/ StartInitialize(p) \/ Open(p) \/ StartAdvance(p)
  \/ \E w \in 0 .. MaxRevisions : PlanMutation(p, w)
  \/ \E a \in Known : PlanImport(p, a)
  \/ StartEvent(p) \/ Refuse(p)
  \/ Acquire(p) \/ Examine(p) \/ ExamineTarget(p) \/ Abandon(p)
  \/ PublishAudit(p) \/ PublishCatalog(p) \/ GitMoved(p)
  \/ Validate(p) \/ SharedFailed(p) \/ RestoreCatalog(p) \/ Rename(p)
  \/ PublishCheckpoint(p) \/ PublishReceipts(p)
  \/ Crash(p)

Environment ==
  \/ \E h \in Homes : GitMove(h) \/ \E a \in Known : FileChange(h, a)
  \/ PowerLoss \/ ClearLock \/ WriteBack

Next ==
  \/ \E p \in Procs : (\E h \in Homes : ReadVault(p, h)) \/ Proceed(p)
  \/ Environment

Spec == Init /\ [][Next]_vars

---------------------------------------------------------------------------
(* Properties *)

\* The principals whose first use is over, or is made by one command alone:
\* two commands that both find no local state initialize it one after the
\* other, over what the first has recorded by then.
Settled ==
  {q \in Principals : q \in Established \/ \A p, r \in Procs : Me(p) = q /\ Me(r) = q => p = r}

\* Audit intent may lead the shared artifact, never the other way round: what
\* a principal published is in the audit a power loss would leave
\* (mutation_commit.rs publishes and syncs the intent first).
IntentDurable ==
  \A w \in published : w[1] \in Settled => ContainsOperation(disk.files[w[1]], w[2])

\* A retry never records the same mutation twice (accept_audit_tail).
UniqueIntents(log) == \A i, j \in DOMAIN log : log[i].kind = "mutate" /\ log[i] = log[j] => i = j

NoDuplicateIntent == \A q \in Settled : UniqueIntents(files[q].audit)

\* The intent of a mutation is recorded before it is published, durably and
\* once, whatever fails, is killed or is repeated
\* (commit_with_before_shared_publish, accept_audit_tail).
IntentKept == IntentDurable /\ NoDuplicateIntent

\* No command works on an artifact before the retained checkpoint covers it
\* (load_principal_context_with_passphrase accepts or refuses it first), and
\* no other command takes that cover away.
OpenedCovered ==
  \A p \in Procs :
    /\ Me(p) \in Settled
    /\ cmd[p].pc \notin {"idle", "read", "probed"}
    /\ cmd[p].flow \in {"advance", "initialize"} => cmd[p].pc = "ready"
    => Extends(cmd[p].base, files[Me(p)].checkpoint.accepted)

\* Local state that exists keeps verifying, whatever is interrupted: the
\* checkpoint's audit MAC is always one of the audit (verify_files), now and
\* after a power loss; and it covers what commands work on.
LocalStateVerifies ==
  /\ \A q \in Settled : \A f \in {files[q], disk.files[q]} :
       Complete(f) \/ q \in Established => Verifies(f)
  /\ OpenedCovered

\* What a principal was told is committed stays below the checkpoint that
\* survives, so two such commits are never on different branches, not even
\* from two worktrees.
CommittedRetained ==
  \A q \in Established : \A a \in reported[q] : Extends(a, disk.files[q].checkpoint.accepted)

\* The witness policies that the revisions of an artifact added themselves,
\* not those that they found staged in the catalog.
Brought(a) == {i \in DOMAIN revisions : revisions[i] = i /\ \E k \in DOMAIN a : a[k] = i}

\* The catalog has what the replay of every artifact asks it for.
CatalogCovers == \A h \in Homes : Uses(home[h].art) \subseteq catalog
BroughtCovered == \A h \in Homes : Brought(home[h].art) \subseteq catalog

\* The retained checkpoint is never lowered (accept_candidate: "never lowers
\* the retained checkpoint").
CheckpointNeverLowered ==
  [][\A q \in Principals :
       Extends(disk.files[q].checkpoint.accepted, disk'.files[q].checkpoint.accepted)]_vars

\* A commit replaces only an artifact that its target extends, or one that a
\* tool which takes no lock put there after the last comparison.
NoLostUpdate ==
  [][\A p \in Procs : Rename(p) =>
       \/ Extends(home[cmd[p].home].art, home'[cmd[p].home].art)
       \/ home[cmd[p].home].inode # cmd[p].inode]_vars

CheckpointsRise ==
  [][\A q \in Settled :
       Extends(disk.files[q].checkpoint.accepted, disk'.files[q].checkpoint.accepted)]_vars

\* Neither what a principal has accepted nor what a commit replaces is lost:
\* the checkpoint that survives and the artifact only move to descendants
\* (accept_candidate, and the comparison before the rename).
NothingLost == CheckpointsRise /\ NoLostUpdate
=============================================================================
