# Jury: a TLA+ development

This directory holds a formal model of the stateful parts of Jury: TLA+ modules
translated from the Rust sources, TLC configurations that check them on small
instances, and TLAPS proofs of the properties that matter most, for every size
of instance. `PROJECT.json` relates every definition to the source lines it
models, lists the hazards the properties are aimed at, and names for each
property a plausible bug that the property detects.

## 1. The system

Jury keeps secrets in a *vault*: one file, `.jury/vault.json`, in a Git
worktree. Git only transports it. The file holds a signed *policy journal*
(principals, owners, items, grants, sealed key slots) and one encrypted envelope
per item. A principal opens an item with its own key (a *direct* slot) or
with the help of several *witnesses*, network services (`juryd`) that each hold
a share of the item's key and release it when enough *approvers* agree.

| Part | State it keeps | Operations | Interactions |
|---|---|---|---|
| Policy journal (`jury-core/src/policy`) | principals, owners, items with epoch, grants and slots, tombstones, everything ever used | twelve operations, combined into signed revisions; replay from the genesis | read by everything else |
| Mutation planning and items (`mutation`, `item`, `registration`, `session`) | none; builds a target vault from the current one | create, rekey, delete, owner change, replacement, registration, import | produces revisions that replay must accept |
| Mutation commit and local state (`jury/src/mutation_commit.rs`, `local_state`, `jury-filesystem`) | per principal: audit log, checkpoint, receipts, a policy catalog shared by a vault; a lock file | open, plan, commit, reconcile, record an event | publishes to Git's worktree, races other commands and Git |
| Witness engine (`jury-core/src/witness_engine`) | registered checkpoints, replay table, approvals, last wall time | register, advance, reserve, decide, cancel, compact | called by the service, one call at a time |
| Anchoring of witness state (`witness_engine/state.rs`, `jury-witness/src/persistence`, `anchor.rs`) | database generations, a candidate, an external anchor | load, commit, publish, read back, acknowledge | several processes, copies of a database, an unreliable anchor |
| Witness service (`runtime`, `state_worker`, `server`) | queue, deadlines, readiness | admission, execution, shutdown | HTTP clients on one side, the engine on the other |
| Client of witnesses (`witness_client`, `witness_approval`, `witness_receipt`, `access_provider`, `request_commands`) | request, answers, receipts | build a request, collect approvals and shares, record | several witnesses |
| Backup, restore, rollover, transfer | staged files, recovery records | prepare, publish, resume | the same homes as commits |
| Process containment (`jury-process`) | an owned process group | spawn, forward signals, terminate, prove quiescence, reap | the operating system |
| Redaction (`jury-protected`) | a bounded window of output | feed, finish | output of contained processes |

The behaviours that are hard to test, and that the models therefore have:
processes killed between any two steps; power losses that undo what was not
synced; failed syncs whose effect is visible anyway; answers of the external
anchor lost, delayed or arriving after a retry; databases restored from old
backups that run beside the ones that went on; a host clock that is set back;
Git moving branches and files under a command; two commands of one or of two
principals; revisions that combine operations nobody thought of together.

## 2. Modules

| Module | Models | Kind |
|---|---|---|
| `AnchoredLog` | the promise of an anchored witness: one history, answers about parts of it | abstract |
| `WitnessAnchoring` | commit, publish, read back, acknowledge, release | component |
| `DecisionRegister` | the promise of a witness about a request: one decision | abstract |
| `WitnessEngine` | the request life cycle of a witness | component |
| `WitnessService` | the HTTP service around a witness or an anchor: gate, queue, worker, probes, shutdown | component |
| `WitnessedAccess` | the client of several witnesses: calls, retries, opening, receipts, cancellation | component |
| `RequestEvidence` | labels, requests, reviews, approvals, decisions and receipts as documents | component |
| `MutationCommit` | opening, planning and committing a vault mutation, with the retained local state | component |
| `KeyEpochs` | the promise of a vault policy: one reader set per key epoch | abstract |
| `PolicyReplay` | replay of the policy journal | component |
| `VaultCommands` | the commands that change a vault, and the plans they hand to replay | component, uses `PolicyReplay` |
| `ArtifactAncestry` | comparison of two copies of a vault | algorithm, on clones that commit and import |
| `DurableFiles` | files and directories, what is synced and what a power loss leaves | library |
| `BackupRestore` | restore and drill of a backup, with their transaction marker | component |
| `RolloverPublication` | publication of a new lineage over four directories and its witnesses, and `--resume` | component |
| `VaultInstallation` | `vault init` and `transfer import`, first installation and update | component |
| `RolloverBootstrap` | the first revision of a new lineage, its policies, labels and registrations, and their verification | component |
| `LocalExports` | backups, verification, drills, transfer exports and their receipts | component |
| `AccessSession` | partial-unlock sessions | component |
| `CanonicalEncoding` | how preimages are laid out, and the reference reader | algorithm |
| `VaultStatements`, `WitnessStatements`, `RecordStatements` | the layout of every preimage of the code | data of `CanonicalEncoding` |
| `FieldDelivery` | `read`, `inject`, `exec` and `run`, direct and governed | component |
| `SequenceOrder` | concatenation and ascending order of `FieldDelivery` and `RolloverBootstrap` | library |
| `StreamingRedaction` | redaction of output in chunks, and its reference definition | algorithm |
| `OwnedProcess` | one supervised command: its loop, its output, its clean-up | component |
| `MC...` | instances for TLC; `MCGovernance`, `MCFiles`, `MCWitnessing` and `MCSharing` compose several components | instances |
| `...Proofs` | theorems | proofs |

### 2.1 WitnessAnchoring

A witness answers only about state that an external anchor binds. Each engine
call runs: read the published anchor, require that it equals the external one,
load the state, commit the next generation as a *candidate*, compare-and-swap
the external anchor, read it back, mark the candidate published, reload, and
only then release the answer (`witness_engine/state.rs`). A step of the model is
one call to the store or to the anchor, so a crash can fall between any two of
them. `db` is the row each database file holds (its history, candidate and
published anchor), `ext` the external anchor, `late` the compare-and-swap
calls that got no answer and may still take effect. `pc`, `want` and `st` are
the locals of the call a process has under way. `committed`, `mine`,
`since` and `released` are history: what a process committed, and which
answers left the service. `Backup` and `Restore` copy a database file back and
forth at any time; several processes may share a file (`FileOf`).

### 2.2 WitnessEngine

The engine's handlers, one action each. `AnchoredLog` (which WitnessAnchoring
implements) is what justifies that: commits happen one after the other and are
never undone. `now` may be set to any value at any time. A replay entry is
reserved, approved, denied or cancelled; `CompactReplay` forgets settled entries
whose retention has passed. `responses` is history: every response ever recorded
for a request. The runtime loads the witness policy before the engine loads its
state; the actions therefore take a request with the checkpoint it was checked
against and test it again, as the code does.

One difference from `docs/security/witness-v1/state-machines.md:97` is visible
in `Decide`: with an unsafe clock the document has a reserved request end in an
anchored denial, the code refuses the call and leaves the request reserved. Both
are safe; the model follows the code.

### 2.3 MutationCommit

A command opens the vault, loads or initializes the retained state of its
principal, plans a mutation and commits it under the lock of the vault's state
directory: audit intent, policy catalog, shared artifact, checkpoint, each an
atomic replacement that may fail before or after the rename and may or may not
be durable. `home` is the worktree's artifact, `catalog` the policy catalog,
`files` the audit, checkpoint and receipts of each principal as processes see
them and `disk` as a power loss leaves them, `lock` the lock file, `cmd` the
command each process runs. `revisions`, `published` and `reported` are history.
The environment replaces the worktree file, moves Git's refs, kills commands,
cuts power, and removes an abandoned lock; `budget` bounds how often.

A plan puts a witness policy in force that is new, and then replaces the catalog, or one
that the catalog has: in use, or staged by a commit that failed before its artifact. The
second kind passes no catalog to the commit (`commit_mutation`), so its commit compares
none. `CoveredBeforeUse` is about one worktree until another tool changes its artifact or
the power is lost. The catalog has every policy that the artifact's revisions added,
whatever fails or is killed; while nothing has failed it has every policy a reader asks
for. Once a commit was interrupted, the second part can fail: a command plans with a
staged policy, another one prunes it and is killed, and the first commits. Pruning by one
worktree can also drop a policy that the artifact of another worktree needs, and an
artifact that another tool put in place may need a policy the catalog never had; no
document promises otherwise. The last identity check of the
artifact and the rename over it are two steps; with two replacements by another
tool in the same commit `NoLostUpdate` fails, because the second can fall between
them.

### 2.4 PolicyReplay

`policy` is the state the accepted revisions lead to; `next`, `keys`, `rotated`
and `replaced` are the locals of `apply_operations` for the revision at hand.
One action per operation works on the copy, `Accept` applies the rotations,
runs the complete checks and adopts the copy, `Refuse` drops it. The intermediate
copy is never visible outside, so nothing is claimed about it. `sealed` is
history: every slot ever sealed, by item, epoch and recipient descriptor.

### 2.5 BackupRestore

A restore publishes an identity, the identities of further roles, a vault and the
local state of every role, and removes its transaction marker last. The marker is
rewritten after each publication, so that the repeated command knows what is its
own. `disk` is what processes see and `stable` what a power loss leaves, by path;
a rename is atomic, and a power loss keeps or loses the unsynced changes of each
directory separately (`DurableFiles`). `run` holds the locals of each command,
`lock` the lock of the state directory, `result` the outcome, `spent` the
budget of kills, missed syncs (a sync that failed, or a command killed just before
it) and power losses. After the marker is gone the owner may use the vault:
`CommitToVault` is a later commit, `ProbeVault` the look of a first use, which then takes
the lock without looking again (`LockFirstUse`) and publishes its three files one by one
(`PublishFirstUse`); `opening` holds the first uses under way and those that ended between
two files. A first use that looked before the restore published its state replaces that
state, the same weakness as in `commit_first_use`; `OneOrigin` says that nothing else
puts files of two origins side by side. The archive is opened
and authenticated in one step, and the vault is installed in a detached home; the
form that restores into a worktree differs in the name of the vault file only.

### 2.6 OwnedProcess and StreamingRedaction

A supervised command leads a process group that is known by its number. `leader`,
`group`, `outside`, `struck` are the processes; `pinned` is the supervisor's
belief that the number is still the group's, `reused` that it is not; `thief`,
`hits` and `joined` are history. One action is one system call or one poll of the
loop in `wait_for_owned_process`, then of `terminate_and_reap`: the look at the
leader and the signal that relies on it are two steps, and the list of processes is
read one process at a time. The final drain and the choice of the result close the
call. The exchange of `run_owned_process_tree_with_cooperative_interaction` is one
step that succeeds or fails, followed by the same clean-up. Dropping an
`OwnedProcess` repeats a clean-up that has been finalized and has no action.

Descendants fork, change groups and die a while after they were killed; a process
that was killed does not fork, because the kernel restarts a fork that meets a fatal
signal. At most one other waiter takes the leader's status. The look does not
block, so it is not interrupted. Both output streams are one; a marker counts as one
symbol; patterns shorter than the code's minimum of 4 bytes stand for longer ones.
`StreamingRedaction` holds the functions of the redactor, which never see more than
the pending bytes and the new chunk, and `Redact`, which sees the whole text.

### 2.7 VaultCommands and ArtifactAncestry

A command checks its arguments, reads the items it has to seal again, plans a list of
operations and has the plan replayed by the actions of `PolicyReplay`; a command that
prepares its items one by one replays each of them alone first. `plan` is the command
under way, `status` how it fares, `body` what the items hold, `store` the catalog beside
the vault, `history` the witness policies of every state the journal passed. Publication and its
races are `MutationCommit`'s. In `ArtifactAncestry` clones of a lineage commit apart and
import each other's artifacts; `compare_artifacts` sees journals and envelopes only,
and its verdict is compared with the commits each copy really has behind it.

### 2.8 WitnessedAccess, WitnessService, RequestEvidence

`WitnessedAccess` is the client: the request goes to every witness, approvals are
collected from files, contributions are asked for until a quorum of shares opens the
content or the deadline passes, the receipt is published and only then the value is
used. A witness is what `DecisionRegister` promises. Calls are answered, refused, lost, or
served after the caller stopped waiting. A second command cancels, owners advance the
checkpoint, approvers decide twice.

`WitnessService` is what takes those calls: authentication, rate limit and permits, the
handler, the bounded queue, the one thread that owns the state, readiness probes with
their lease, the per-call timeout, callers that leave, and graceful shutdown. Times are
kept as what is left of them.

`RequestEvidence` is about the documents that travel between people as files. Everyone
works from a copy of the vault of some age (`seq` is the copy's place in `journal`), any
document may be read together with any other, and a command shows a file, waits for an
answer and signs later. `signed` keeps for each approval what was on the terminal.

### 2.9 RolloverPublication, VaultInstallation, LocalExports

All three are built on `DurableFiles`: a file is visible after its rename and durable
after the sync of its directory, and a power loss keeps or loses unsynced changes
directory by directory. A rollover publishes vault, backup, transfer and state to four
directories and registers with every witness; two control files keep the new home
unreadable meanwhile, and staged copies let `--resume` publish the same bytes. An
installation retains the principal's three files and the catalog before the vault appears.
Over a snapshot that is there already, imports initialize the state as a first use does,
and two of them may both have found none; `undone` marks that one initialized it after
the other, and `InstallationWhole` claims nothing of what that step resets.
An export ends with a receipt in the owner's state; each locked section writes one file
and is one step, and a lock that is taken shows as a refusal.

### 2.10 RolloverBootstrap

The new lineage is computed from a source vault: items and fields get new
identifiers, scopes and labels move with them, and every approver and witness answers a
renewed challenge. `Poll` looks at the proof files the way `ProofPoll` does, with its cached
digests and the time it noted. Later changes of the destination (a role removed, a
policy revised) follow, because the first revision is verified for as long as the
lineage is used. Small source vaults are given as values, and the comparison of scopes is
checked by itself over all small pairs.

### 2.11 AccessSession, CanonicalEncoding, FieldDelivery

A session releases one descriptor or body at a time; its caller passes the time, which
may step back. `release` is history: the last thing given out with the times that
justified it.

`CanonicalEncoding` writes a record by its layout and reads it back. A fixed-width field is
one token from the same small alphabet as lengths, counts and tags, so a layout cannot be
saved by the values it holds. The statement modules list the 139 layouts of the code.

`FieldDelivery` runs one command line while others commit, relabel, replace the program or
the directory it names and take the paths it wants to write. The witnessed
authorization and the life of the child are one step each. A run keeps as much output as
its request says; an `exec` asks with a limit of 0, keeps nothing and streams every byte
(`OutputLimit`), so its limit bounds nothing and `DeliveredAsReviewed` speaks of runs there.

## 3. Runs

Deadlock is checked wherever the system can always go on; bounded journals, clocks and
budgets really stop, and their configurations say so.

A run asks its questions of one component or of several that meet only in their results.
Where a question needs several small worlds (other requests, other commands, other
failures), a variable chosen by the initial state and changed by no step (`scenario`,
`scene`, `plan`, `task`) says which one a behaviour lives in, and in the composed
instances `part` says which component runs while the others rest: state spaces add up
instead of multiplying.

| Run | Instance and bounds | Shows |
|---|---|---|
| `anchoring` | 2 processes on two copies of a file, 1 backup and restore; 2 processes on one file; 2 generations, 2 operations (symmetric) | answers are about all that was anchored when the call began (`AnswersCurrent`); one history (`ImplementsAnchoredLog`) |
| `engine` | 4 requests (3 share an id), 2 checkpoints, clock 0..7; 1 request, threshold 2 of 3 approvers, 6 decisions; rival successors of a checkpoint in 2 vaults; 2 vaults filling the table; skew 2, retention 2 | approvals are backed by a quorum, a denial in force is not hidden, one decision per request through compaction and clock changes |
| `commit` | 1 command after another, 3 revisions with 1 failed step and 1 power loss or 2 revisions with 2 of each; 1 principal in 2 linked worktrees, 1 kill; 2 commands of one principal in one home, 1 failed step and 1 kill; 2 principals in one home, with 1 kill, or with 1 Git move | audit intent durable before the artifact and never doubled; local state verifies; what is reported is retained; the catalog has the policies the artifact brought and, while nothing failed, all a reader asks for; no update is lost |
| `governance` | replay: 1 item, 3 humans and a stale key, 2 revisions of up to 4 operations or 3 of up to 3; 2 items, 5 descriptors that share ids or keys, 3 revisions of up to 2; 3 witnesses, 1 approver, 3 witness policies, 3 revisions of up to 4. Commands: 4 scripts of 4 to 10 revisions with 2 actors. Comparison: clones that commit apart | an accepted policy works and is well formed; a command that passes its own checks is not turned away by replay; readers, names and catalog agree; comparison finds descent; whoever left stays away; the refinement of `KeyEpochs` |
| `files` | restore: 1 command repeated, 2 commands for one or two targets, first uses beside them; rollover: 1 or 2 commands, up to 2 witnesses; installation: 1 or 2 imports of 5 transfers, `vault init`, a snapshot with 1 or 2 imports; in each 1 or 2 kills, 1 failed sync, 1 power loss | restore never overwrites and success is whole and durable; a readable new home is complete and no commit of the source is left behind; an installed vault can be opened and what was accepted moves forward; repeated commands complete |
| `process` | 2 descendants with 2 forks and 2 moves; 1 theft of the status with 1 failing call; an unbounded run; an interaction; 2 units of input; up to 5 symbols of output, 2 secrets that overlap, limits 1 and 5, both policies | success means a reaped leader and an empty group, and signals stay in the group (`Contained`); captured output is the redacted text; a bounded call returns |
| `witnessing` | access: 2 of 3 witnesses, 1 of 2 approvers, 4 plans (cancellation, a batch of 2 contents, damaged shares, a late checkpoint); service: up to 3 calls of 2 peers, 2 permits; anchoring: 2 files, 2 failures | openings have their evidence; a reported preclusion is final; the service keeps its account; a cancellation is reported truthfully; whoever waits does not wait for ever |
| `sharing` | exports: 4 scenes with 1 or 2 commands; bootstrap: 3 source vaults and all small pairs of scopes; session: 4 items, 4 requests, inactivity 2, lifetime 4; evidence: 2 approvers, 2 witnesses, owners that change; 139 encodings, 2 fields varied at once; 31 command lines with 2 changes by others | receipts tell the truth about exports; a rollover's provenance verifies for ever, its poll notices every proof, scopes are compared exactly; sessions are bounded; what was shown is what was signed, receipts are sound, what was named can be asked for; preimages have one meaning; values are delivered as reviewed, all or nothing, and nowhere else |
| `engine_vault_bound` | the `engine` instance with a per-vault bound of 1 | finding: the per-vault bound does not hold |
| `commit_first_use` | 2 first uses of one principal | finding: a slow first use resets the retained state |
| `restore_durable` | a missed sync and a power loss together | finding: a retry trusts a file that is not durable |
| `process_stdin` | 2 units of input, a pipe that holds 1 | finding: success with input unsent |

Why the bounds suffice. Two processes, two copies and two generations are the least at
which one copy can fall behind, be restored and meet a rival. The engine's clock exceeds
expiry, skew and retention together, so an entry can be compacted and its request come
back. Three revisions let an item be created, shared and rotated, and four operations fit
an ownership change with its rotation. Each command over files meets every kind of
interruption at every step, and two commands share each target. In a supervised call two
descendants let one come back while the other is inspected, and five symbols give every
way to cut the longer of two secrets. With three witnesses and a threshold of two, two
quorums meet in one witness; two entries let a deadline fall between them. Two calls fill
the permits and the third waits. The session's clock passes inactivity, lifetime and
expiry of every request. Two fields varied at once are what one framing error needs to
make two records meet. For the properties under section 4 the bounds do not matter.

Fairness is assumed in three runs. In `files` a command that runs goes on, and one that was
interrupted is repeated, as the documentation asks; the owner removes a lock that a killed
command left; an import that finds the lock taken again and again is retried until it
gets it (strong fairness of `BeginImport`); the interruptions are bounded. In `witnessing`
the opening command and its clock run, the timers of the service fire (nothing is assumed of
its worker, which may hang or die), and a process that publishes goes on once failures
stop, with the periodic readiness probe starting a query. In `process` the supervisor is
scheduled and its deadlines pass; nothing is assumed of the supervised processes, which
may ignore signals for ever.

## 4. Theorems

TLC answers for the instances of section 3; the theorems below hold for every value of
the constants that satisfies the named assumptions, which the runs evaluate. Where a
theorem states a property that a run checks too, it names the same definition. Each
invariant was checked with TLC before it was proved.

| Module | About | Theorems |
|---|---|---|
| `WitnessAnchoringProofs` | `WitnessAnchoring` | `TypeCorrect`, `AnswersAnchored`, `AnswersLinear`, `AnswersFresh` (`AnswersCurrent`), `Recoverable`, `CommitsKept`, `AnchorMonotone`, `Refinement` (`ImplementsAnchoredLog`) |
| `WitnessEngineProofs` | `WitnessEngine` | `EngineTyped`, `AtMostOneDecision`, `ResponseTimes`, `PendingIsCurrent`, `AcknowledgedChain`, `TableBounded`, `EngineRefinement` (`ImplementsDecisionRegister`), `ApprovalsJustified` (`ApprovedBacked`), `DenialsKept` (`DenialKept`) |
| `WitnessServiceProofs` | `WitnessService`, `RequestEvidence` | `ServiceAccountsAlways` (`ServiceAccounts`), `ShownIsAlwaysSigned` (`ShownIsSigned`), `ReceiptsSound` (`ReceiptSound`) |
| `WitnessedAccessProofs` | `WitnessedAccess` | `PreclusionIsFinal` (`PrecludedNeverOpens`), `OpeningsEvidenced` (`OpeningEvidenced`), `CancellationsReported` (`CancellationReported`) |
| `PolicyReplayProofs` | `PolicyReplay`, `RolloverBootstrap` | `DepartedNeverReturn` (`DepartedStayAway`), `EpochsConfined`, `ReplayKeepsEpochs` (`ImplementsKeyEpochs`), `AcceptedPoliciesSound` (`AcceptedPolicySound`), `ProofsNoticed` (`PollNotices`), `ScopesCompared` (`ScopesExact`) |
| `MutationCommitProofs` | `MutationCommit` | `IntentsKept` (`IntentKept`), `LocalStateSound` (`LocalStateVerifies`), `NothingIsLost` (`NothingLost`), `CatalogReady` (`CoveredBeforeUse`), `CommitsRetained` (`CommittedRetainedIfSynced`) |
| `EndpointProofs` | `AccessSession`, `OwnedProcess`, `LocalExports` | `SessionsBounded` (`SessionBounded`), `CallsContained` (`Contained`), `ExportsTellTruth` (`ExportsTruthful`) |
| `DeliveryProofs` | `FieldDelivery` | `DeliveriesWhole` (`AllOrNothing`), `DeliveriesAccounted` (`NothingEscapes`), `ActionsDelivered` (`DeliveredAsReviewed`) |

*Anchoring.* The inductive invariant says where each history stands relative to the
external anchor: the anchor's history is the longest released one; every file's
published anchor is a prefix of it; a candidate extends the published anchor of its
file by one operation; a call past the read back holds a history the anchor has passed.
It is needed because none of the properties speaks of candidates and calls under way,
which is where they would break. Assumed: operations are distinct from queries, each
process uses a file (`QueryAssumption`, `OriginalAssumption`, `FileOfAssumption`).

*Engine.* The invariant relates entries, recorded responses and the clock: an entry is
settled exactly when the last response recorded for its request is in it, and a request
without an entry that had one cannot be reserved again, because compaction waited until
the request's expiry lay further back than any accepted clock. This needs
`Skew =< Retention` (the code has 5 minutes and 24 hours; `TimesAssumption`).

An approval is recorded by `decide` only. For `ApprovedBacked` the proof follows the
decisions it was handed: those it counts are valid for the request, no two of them are
of one approver, and there are as many approvers as the request asks for. For
`DenialKept` the argument is about what `decide` drops: of several decisions of one
approver it keeps the two of lowest rank, so that they are seen to contradict each
other. If a denial in force were dropped and an approval of the same approver counted,
then of the decisions ranked before the denial the lowest other than that approval would
have been kept too, and the two would have contradicted each other. The minimum is that
of a well-founded order (`WFMin`). Assumed: finitely many decisions and approvers, ranks
are numbers (`ApprovalsAssumption`).

*Service.* The invariant says where every call is (waiting, holding a permit, queued, at
the worker, answered or abandoned), that permits and the lease are held by exactly the
calls that are at such a place, and that what remains of a deadline covers what remains
to be done. `ServiceAccounts` is what a caller can see of this.

*Access.* The invariant ties what the command holds to what the witnesses recorded: a
response is on record at its witness, an approval on record rests on the approvals the
command sent, and these on decision files; calls that nobody waits for any more are still
calls the command once sent. Openings then rest on a set of `WitnessThreshold` witnesses
that approved, preclusions on more than `N - WitnessThreshold` that cancelled, and a
recorded response is never replaced: the two sets would meet. `CancellationReported`
needs only which failures the command can have merged. Assumed: the threshold is between
1 and the number of witnesses (`AccessAssumption`).

*Replay.* The invariant describes the policy and, while a revision is applied, the copy
under change: what was sealed at an item's epoch is addressed to readers of that epoch,
identifiers and keys are used once, whoever left stays in the books, and every operation
finds the copy well formed except for what the end of the revision checks
(`validate_complete_state`). `AcceptedPolicySound` needs in addition that distinct
principals have distinct keys and that every owner and every quorum is among the active
ones. The refinement of `KeyEpochs` maps a whole revision to one step.

*Commit.* The argument is about the files a lock holder has prepared: they are ahead of
the principal's files and of what a power loss would leave of them, and they stay so,
because nobody else touches the files. So each file that is published moves the
principal forward, a kill between two of them leaves a state that verifies, and an
artifact is replaced only by one that extends it (up to the tool that takes no lock, see
section 5).

`CatalogReady` and `CommitsRetained` are about the scenarios of `MCMutationCommit`, for
every set of them (`ScenariosAssumption`). For the first, every plan that replaces the
catalog holds one that covers both the artifact it starts from and the one it leads to; the
catalog on disk is the old or the new one of the lock holder while the artifact is the old
one, and the new one afterwards, so that putting the former catalog back is safe exactly
where the code does it. While nothing has failed or been killed, a command that has
read the artifact in place has moreover read the catalog in place, unless a commit is
about to replace both; so a plan made from them is covered when it commits.
For the second, without faults what is visible is also durable, and a command reports only
when its target is below its principal's checkpoint, which by `NothingLost` never moves back.

*Bootstrap.* For the poll the invariant remembers the directory read last and the time of
that read: some proof in it was not valid then, and the noted time is the least at which
one dated in the future becomes valid. If now all proofs are valid and no file has changed,
the invalid one was dated in the future, and the noted time has come. For the scopes the
proof shows that two finite families of labels have equal multiplicities exactly when a
bijection keeps the labels: counting gives a bijection for each label, and these are put
together. Assumed: finite sets of uses, natural times (`BootstrapAssumption`).

*Delivery.* The properties are about the end of a command; the invariants say at each stage
what the command has made sure of by then. `DeliveryInv` has the values complete and from
the opened bodies as soon as they are held, the receipt published before a governed value
moves on, and the audit event before an output is written. `ReviewInv` has the request
equal to the action that was computed from the snapshot, program and directory pinned while
the command prepared, and shows that what others do later changes none of what it was
computed from. That a template becomes the text reviewed is shown by following the pieces
of its arguments one by one; the least counterexample replaces the induction. Assumed:
command lines with finitely many parts, an environment allow-list without Jury's own
variables, finitely many inodes (`TasksAssumption`, `NamesAssumption`, `TreesAssumption`,
`VaultAssumption`, `DeliveryAssumption`).

*Endpoints.* For a session: what it holds is from the revision it stands at, within the
limits of time and use, and a lock takes everything. For a supervised process: the
leader is reaped only when the group was seen empty or was struck, and the group's
number is not used after that.

*Exports.* Four commands write one receipts file, which a power loss may set back. The
invariant therefore holds of the file as it is seen and as it would survive, and says of
each command under way what it has already done of what its receipt will claim: the
archive is synced, opened or restored before the command reaches the point where it
records. No assumption on the constants is needed.

*Evidence.* The invariant says of every document in circulation what it was made from: a
request's subjects and places are those of the screen that goes with it, and each display
is one the policy of that request names; a command that waits for a person holds the
screen of the very file it read; a signature is on what was shown, by someone the request's
rule admits; a receipt that verified counted approvals and witnesses of that request.
Earlier policies, requests and signatures are never changed, so that what held of a
document when it was made holds later. Assumed: finitely many approvers and witnesses, and
scenes whose rules name them (`PeopleAssumption`, `ScenesAssumption`).

What is only model-checked, and why:

- `Returns`, `WaitingEnds` and `RetriesComplete` are liveness under fairness, which the
  proof system does not handle.
- `OutputFaithful`, `OneMeaning` and `ComparisonFindsDescent` compare an algorithm over
  sequences with a reference definition: a proof would need induction over the data.
- `RestoreFaithful`, `RolloverWhole`, `InstallationWhole` and `CommandsAccepted`,
  `CommandsConsistent` speak of several instances of a library or of replay at once; their
  invariants are not worked out for all sizes.
- `ProvenanceLasts` and `NamedStaysAskable` range over scenes with fixed vaults and scripts,
  so that a general theorem would be about other statements.

## 5. Findings

- `engine_vault_bound`: cancellations of unknown requests add replay records
  beyond the documented bound per vault; the bound of the service holds.
- `commit_first_use`: whether local state must be initialized is decided before
  the passphrase prompt and not looked at again under the lock.
- `restore_durable`: a file published without a directory sync is accepted by the
  retry as it is, and the marker goes while a power loss can still remove the file.
- `process_stdin`: a child that exits between the poll of its input and the look at
  its state ends the call with success, although input is left unsent.

Differences between documents and code that have no run of their own:

- After `transaction_marker_removed: false` `docs/recovery.md:174-177` asks to repeat the
  command; if the marker was removed and only its sync failed, the repeated command finds
  no marker and refuses, because its targets exist.
- `docs/jury-v1-master-plan.md:1574` says "A writer can decrypt and mutate one granted
  item."; `prepare_with_signer` plans for owners only, and replay
  (`policy/replay/core.rs:173`) accepts revisions of owners only.
- `docs/recovery.md:108` says "Keep that transfer and retry it, or import its owner-signed
  descendant."; an import over a snapshot that was killed between checkpoint and receipts is
  refused ever after (`cli/context.rs:199`), and a first installation killed there accepts
  the same transfer but no descendant of it.
- With an unsafe clock `docs/security/witness-v1/state-machines.md:97` has a reserved
  request end in an anchored denial; the code refuses the call (section 2.2).

Behaviour that the models show and no document promises otherwise:

- *Catalog.* A commit that takes a policy it found staged compares no catalog; after an
  interrupted commit its artifact can name a policy that was pruned (section 2.3).
- *Commit.* Between the last comparison of the artifact and the rename over it a tool
  that takes no lock can replace the file (the exception in `NoLostUpdate`). What was
  reported as committed is retained through a power loss if no sync failed.
- *Commands.* One witnessed-only item makes `principal remove --revoke-all` and `principal
  replace` refuse, since they must read every item; `policy allow-direct` cannot be used on
  such an item; a witness policy without `administrative-rekey` blocks owner changes. No
  command deletes or renames an item.
- *First use.* Beside a restore or an import over a snapshot, a first use that found no
  state resets what was published meanwhile, file by file (`commit_first_use`).
- *Installation.* Two first installations at once can leave the older vault behind the
  newer checkpoint: nothing is lost, but the vault file has to be removed and the newer
  transfer imported. After a failed sync a retry leaves files that are already equal as
  they are, so a power loss can take them (`undone` marks this case). A dry run of a first
  installation refuses a partial state that the import itself completes.
- *Rollover.* A command killed before the list of pending outputs is published cannot be
  resumed and is started again.
- *Exports.* A transfer receipt is recorded even when the directory sync failed, a backup
  receipt only when it succeeded; a new backup receipt does not reset verification and
  drill; a replacing publication compares and then renames.
- *Witnesses.* `cancel` answers "too late" for a denied request too. The client's wait for
  approvals ends when enough decisions have come, denials included. A readiness probe that
  times out leaves the last result as it was. An idle rate bucket that is evicted starts
  again with a full burst.
- *Documents.* A receipt with the outcome denied does not show that no quorum existed. A
  receipt binds what was presented only through its approvals. An approver whose clock is
  behind by less than the skew can see a request and not yet sign it. Labels made by the
  commands have no expiry. No command makes a backup request, and nothing in the code makes
  endpoint acknowledgements or completions, which are only verified.
- *Sessions.* A failed discovery leaves the session open with its revision set; a session
  does not remember which requests it has used. The commands do not use sessions yet.
- *Encodings.* A genesis preimage leaves the suite out; principal labels are not part of
  the normalized state hash; registration digests append preimage and signature without a
  length, which is unambiguous because the signature's length is fixed.
- *Delivery.* A witnessed read adds no local audit event. A run that fails while its child is
  set up ends without an audit event, after a governed receipt was published. The audit of
  `exec` is best effort and reported in `local_audit_recorded`. An executable is pinned by
  its descriptor, so a write into the same inode is not noticed; a destination is bound by
  its name.

## 6. Not modelled

Cryptography is ideal: signatures are not forged, digests do not collide, a slot opens
only for its key, random identifiers are fresh. Byte formats other than the canonical
preimages, prompts and rendering are left out. `PROJECT.json` lists every part with its
status. Simplifications that bound what a result says:

- `BackupRestore` releases the lock of a killed command at once; `RolloverPublication` and
  `VaultInstallation` model the lock that stays. Completion of an installation is checked
  for one command that repeats one transfer, registration over a snapshot for one command
  at a time. That a power loss during a commit follows an unsynced clean-up of a rollover
  is not modelled.
- `VaultInstallation` has one principal. `open_or_create_private_child` does not sync the
  parent directory; the models take the directories as given.
- `RolloverBootstrap` takes the owner's clock as monotone while it polls.
- `RequestEvidence` has one checkpoint per sequence and verifies receipts when everything
  else has happened, which loses nothing because documents are only added.
- `FieldDelivery` leaves out sizes of values, upper limits of timeouts and the decoding of
  literals, and leaves open the order in which items are opened when a field is missing.
- `CanonicalEncoding` leaves out sorting before encoding and size caps. Statements marked
  `part/` are encoded only inside others. Transfers are bound by digests of their JSON.
- In `OwnedProcess` the macOS backend and the check of the running image are left out.
