-------------------------- MODULE RolloverPublication --------------------------
(***************************************************************************)
(* vault rollover, from a prepared candidate to an adopted new lineage.    *)
(*                                                                         *)
(* The candidate's vault, its backup, its transfer and its local state go  *)
(* to four directories, and its registration to every destination witness. *)
(* Two control files in the new home make the home unreadable meanwhile,   *)
(* and copies staged beside the backup let --resume publish the very same  *)
(* bytes: a candidate is random and cannot be made again.                  *)
(*                                                                         *)
(* Several commands may run at once; any of them may be killed between two *)
(* steps, leaving its lock files behind; a directory sync or a witness may *)
(* fail; the machine may lose power; other clones of the source commit;    *)
(* and the owner uses the new home as soon as it can be read.              *)
(***************************************************************************)
EXTENDS DurableFiles, Sequences, SequencesExt, FiniteSets

CONSTANTS
    Rollovers,         \* rollover commands
    Candidates,        \* 1..n, the candidates that can be prepared
    Destinations,      \* the witnesses a destination policy may name
    RolloverScenes     \* [commands : SUBSET Rollovers, witnesses : SUBSET Destinations,
                       \*  faults, kills, losses, commits : Nat]

VARIABLES
    command,           \* [SUBSET Rollovers -> what the command holds and where it is]
    source,            \* [home : revision read here, accepted : the shared checkpoint]
    locked,            \* the edit locks of the source and of the candidates' lineages
    basis,             \* the source revision each candidate copies, or None
    registered,        \* the candidates each witness of the destination has registered
    toll               \* what the environment may still do

rolloverVars == <<disk, stable, command, source, locked, basis, registered, toll>>

None == 0
SourceLock == 0
Witnesses == DOMAIN registered
---------------------------------------------------------------------------------
(* Targets.  The state directory and the staging names carry the vault      *)
(* identifier of the candidate.                                             *)

Out == <<<<"out">>, <<"parent">>>>
PendingVault == <<<<"rollover.pending">>, <<"out">>>>
PendingOutputs == <<<<"rollover.outputs.pending">>, <<"out">>>>
NewVault == <<<<"vault">>, <<"out">>>>
WitnessCheckpoint == <<<<"witness.checkpoint">>, <<"out">>>>
Acknowledgement(w) == <<<<"registration", w>>, <<"out">>>>
BackupOut == <<<<"backup">>, <<"backups">>>>
TransferOut == <<<<"transfer">>, <<"transfers">>>>
NewCatalog(c) == <<<<"catalog">>, <<"lineage", c>>>>
LocalFile(c, kind) == <<<<kind>>, <<"principal", c>>>>
Staged(c, payload) == <<<<payload, c>>, <<"backups">>>>

\* cleanup_name
CleanupName(path) == <<<<"cleanup">> \o path[1], Directory(path)>>

Payloads == <<"backup", "transfer", "audit", "checkpoint", "receipts">>

\* Where each staged payload is published.
Published(c, payload) ==
    CASE payload = "backup" -> BackupOut
      [] payload = "transfer" -> TransferOut
      [] OTHER -> LocalFile(c, payload)

Guards == {PendingVault, PendingOutputs}
StagedFiles(c) == {Staged(c, Payloads[i]) : i \in DOMAIN Payloads}
Outputs(c) == {Published(c, Payloads[i]) : i \in DOMAIN Payloads} \cup {NewCatalog(c)}
RolloverPaths ==
    LET removed == Guards \cup UNION {StagedFiles(c) : c \in Candidates}
    IN removed \cup {CleanupName(path) : path \in removed}
         \cup {Out, NewVault, WitnessCheckpoint} \cup {Acknowledgement(w) : w \in Destinations}
         \cup UNION {Outputs(c) : c \in Candidates}

\* The bytes of a candidate's file; an acknowledgement also has the witness's
\* anchor, which later requests move.
Bytes(c) == <<"candidate", c>>
Acknowledged(c, serial) == <<"acknowledged", c, serial>>
Used(c) == <<"used", c>>

---------------------------------------------------------------------------------
(* The command's bookkeeping *)

Resting == [pc |-> "idle"]

CommandAt(p, pc) == p \in DOMAIN command /\ command[p].pc = pc
Pay(what) == toll[what] > 0 /\ toll' = [toll EXCEPT ![what] = @ - 1]

\* The command returns: Drop removes the lock files it holds.
Return(p) ==
    /\ command' = [command EXCEPT ![p] = Resting]
    /\ locked' = [l \in DOMAIN locked |-> IF locked[l] = p THEN "free" ELSE locked[l]]

Stop(p) == Return(p) /\ UNCHANGED <<disk, stable, toll>>

\* The command goes on with r, and nothing else moves.
Go(p, r) ==
    command' = [command EXCEPT ![p] = r] /\ UNCHANGED <<disk, stable, locked, toll>>

Quiet == UNCHANGED <<source, basis, registered>>

\* A rename whose directory sync fails: the command ends as incomplete.
Deposit(p, path, content, next) ==
    \/ /\ Write(path, content, TRUE)
       /\ command' = [command EXCEPT ![p] = next]
       /\ UNCHANGED <<locked, toll>>
    \/ /\ Write(path, content, FALSE)
       /\ Pay("faults")
       /\ Return(p)

\* publish_private: equal bytes are accepted, others refused, absent created.
PublishPrivate(p, path, content, next) ==
    IF Exists(path)
    THEN IF disk[path] = content
         THEN Go(p, next)
         ELSE Stop(p)
    ELSE Deposit(p, path, content, next)

---------------------------------------------------------------------------------
(* vault_rollover, up to the publication *)

\* RolloverTargets::preflight, and the preparation of a new candidate from
\* the source as it is read now.
PrepareCandidate(p) ==
    /\ CommandAt(p, "idle")
    /\ ~Exists(Out) /\ ~Exists(BackupOut) /\ ~Exists(TransferOut)
    /\ \E c \in Candidates :
           /\ basis[c] = None /\ \A b \in Candidates : b < c => basis[b] # None
           /\ basis' = [basis EXCEPT ![c] = source.home]
           /\ command' = [command EXCEPT ![p] =
                  [pc |-> "adopt", resume |-> FALSE, vault |-> c, read |-> source.home,
                   snapshot |-> None, todo |-> <<>>, fresh |-> TRUE]]
    /\ UNCHANGED <<disk, stable, source, locked, registered, toll>>

\* The source is read once more before it is locked.
AdoptLineage(p) ==
    /\ CommandAt(p, "adopt")
    /\ IF source.home # command[p].read
       THEN Stop(p)
       ELSE Go(p, [command[p] EXCEPT !.pc = "lock"])
    /\ Quiet

---------------------------------------------------------------------------------
(* recovery::resume, up to the publication *)

\* read_primary_or_cleanup
Retained(path) ==
    IF Exists(path) THEN disk[path] ELSE disk[CleanupName(path)]

\* The owner resumes with the original paths: the home must be there.
ResumeRollover(p) ==
    /\ CommandAt(p, "idle")
    /\ Exists(Out)
    /\ Go(p, [pc |-> "snapshot", resume |-> TRUE, vault |-> None, read |-> source.home,
              snapshot |-> None, todo |-> <<>>, fresh |-> FALSE])
    /\ Quiet

\* Snapshot::read_if_present.  A snapshot is of one candidate and one source.
ReadSnapshot(p) ==
    LET found == Retained(PendingOutputs)
    IN /\ CommandAt(p, "snapshot")
       /\ IF found = Absent
          THEN Go(p, [command[p] EXCEPT !.pc = "vault"])
          ELSE IF command[p].read # basis[found[2]]
               THEN Stop(p)
               ELSE Go(p, [command[p] EXCEPT !.pc = "vault", !.snapshot = found[2]])
       /\ Quiet

\* Snapshot::read_vault
SnapshotVault ==
    IF Retained(PendingVault) # Absent THEN Retained(PendingVault) ELSE disk[NewVault]

\* Snapshot::read_vault; or completed::vault, for which no control file may be
\* left.  A vault that has been used since is not a fresh destination.
ReadCandidate(p) ==
    LET r == command[p]
        found == IF r.snapshot # None THEN SnapshotVault
                 ELSE IF Retained(PendingVault) # Absent THEN Absent ELSE disk[NewVault]
    IN /\ CommandAt(p, "vault")
       /\ IF \/ r.snapshot # None /\ found # Bytes(r.snapshot)
             \/ r.snapshot = None /\ (found = Absent \/ found[1] # "candidate")
          THEN Stop(p)
          ELSE Go(p, [r EXCEPT !.pc = "load", !.vault = found[2]])
       /\ Quiet

\* Snapshot::read_payload: the staged copy, or the output it became.
Payload(r, payload) ==
    LET staged == Retained(Staged(r.vault, payload))
    IN IF r.snapshot # None /\ staged # Absent THEN staged ELSE disk[Published(r.vault, payload)]

\* Snapshot::load or completed::outputs under the destination's lock, and the
\* verification that all of it belongs to this vault and to this source.
LoadOutputs(p) ==
    LET r == command[p]
    IN /\ CommandAt(p, "load")
       /\ IF \/ locked[r.vault] # "free"
             \/ \E i \in DOMAIN Payloads : Payload(r, Payloads[i]) # Bytes(r.vault)
             \/ r.read # basis[r.vault]
          THEN Stop(p)
          ELSE Go(p, [r EXCEPT !.pc = IF r.snapshot = None THEN "confirm" ELSE "lock"])
       /\ Quiet

---------------------------------------------------------------------------------
(* publication::publish *)

\* lock_current_source: the vault lock of the source is free, and neither this
\* home nor the shared checkpoint has moved from what the candidate copies.
SourceCurrent(p) ==
    /\ locked[SourceLock] = "free"
    /\ source.home = command[p].read
    /\ source.accepted <= source.home

LockSource(p) ==
    /\ CommandAt(p, "lock")
    /\ IF SourceCurrent(p)
       THEN /\ locked' = [locked EXCEPT ![SourceLock] = p]
            /\ command' = [command EXCEPT ![p].pc = IF command[p].resume THEN "reread" ELSE "create"]
            /\ UNCHANGED <<disk, stable, toll>>
       ELSE Stop(p)
    /\ Quiet

\* create_private_child_new
CreateHome(p) ==
    /\ CommandAt(p, "create")
    /\ IF Exists(Out) THEN Stop(p)
       ELSE Deposit(p, Out, <<"directory">>, [command[p] EXCEPT !.pc = "guard"])
    /\ Quiet

PublishPendingVault(p) ==
    /\ CommandAt(p, "guard")
    /\ PublishPrivate(p, PendingVault, Bytes(command[p].vault),
                      [command[p] EXCEPT !.pc = "stage", !.todo = Payloads])
    /\ Quiet

\* Snapshot::save
StagePayload(p) ==
    LET r == command[p]
        target == Staged(r.vault, Head(r.todo))
    IN /\ CommandAt(p, "stage") /\ r.todo # <<>>
       /\ IF Exists(target) THEN Stop(p)
          ELSE Deposit(p, target, Bytes(r.vault), [r EXCEPT !.todo = Tail(@)])
       /\ Quiet

PublishPendingOutputs(p) ==
    /\ CommandAt(p, "stage") /\ command[p].todo = <<>>
    /\ PublishPrivate(p, PendingOutputs, Bytes(command[p].vault), [command[p] EXCEPT !.pc = "prepare"])
    /\ Quiet

\* On resume the snapshot and the vault are read again under the source lock.
RereadSnapshot(p) ==
    /\ CommandAt(p, "reread")
    /\ IF Retained(PendingOutputs) = Bytes(command[p].vault) /\ SnapshotVault = Bytes(command[p].vault)
       THEN Go(p, [command[p] EXCEPT !.pc = "prepare"])
       ELSE Stop(p)
    /\ Quiet

\* What an earlier attempt made visible is taken for done.
MutOutputOrder(c, fresh) ==
    LET Missing(path) == ~Exists(path)
    IN SelectSeq(<<BackupOut, TransferOut, NewCatalog(c), LocalFile(c, "audit"), LocalFile(c, "checkpoint"),
                   LocalFile(c, "receipts")>> \o (IF fresh THEN <<NewVault>> ELSE <<>>), Missing)

\* Every output is published again, the vault last and only if it is not there.
OutputOrder(c, fresh) ==
    <<BackupOut, TransferOut, NewCatalog(c), LocalFile(c, "audit"), LocalFile(c, "checkpoint"),
      LocalFile(c, "receipts")>> \o (IF fresh THEN <<NewVault>> ELSE <<>>)

\* prepare_backup, prepare_transfer, prepare_vault, validate_existing: what is
\* there already must be this candidate's, and the command a resume.
Acceptable(r, path) == ~Exists(path) \/ (r.resume /\ disk[path] = Bytes(r.vault))

\* The local files are prepared under the destination's lock, and the home of
\* the source is read a last time.
PrepareOutputs(p) ==
    LET r == command[p]
    IN /\ CommandAt(p, "prepare")
       /\ IF \/ locked[r.vault] # "free"
             \/ \E path \in Outputs(r.vault) \cup {NewVault} : ~Acceptable(r, path)
             \/ source.home # r.read
          THEN Stop(p)
          ELSE /\ locked' = [locked EXCEPT ![r.vault] = p]
               /\ command' = [command EXCEPT ![p].pc = "register",
                                             ![p].fresh = ~Exists(NewVault),
                                             ![p].todo = SetToSeq(Witnesses)]
               /\ UNCHANGED <<disk, stable, toll>>
       /\ Quiet

\* verify_saved: the retained acknowledgements of this checkpoint by all.
VerifySaved(c) ==
    Witnesses # {} =>
        /\ disk[WitnessCheckpoint] = Bytes(c)
        /\ \A w \in Witnesses : Exists(Acknowledgement(w))

\* register_all goes on: registrations kept with a published vault are enough.
SkipRegistration(p) ==
    LET r == command[p]
    IN /\ CommandAt(p, "register")
       /\ (~r.fresh /\ VerifySaved(r.vault)) \/ Witnesses = {}
       /\ Go(p, [r EXCEPT !.pc = "outputs", !.todo = OutputOrder(r.vault, r.fresh)])
       /\ Quiet

\* publish_acknowledgement: an older one of this registration is replaced.
PublishAcknowledgement(p, w, content) ==
    LET next == [command[p] EXCEPT !.todo = Tail(@)]
    IN IF Exists(Acknowledgement(w)) /\ disk[Acknowledgement(w)] = content
       THEN Go(p, next)
       ELSE Deposit(p, Acknowledgement(w), content, next)

\* One witness of register_all.
RegisterWitness(p) ==
    LET r == command[p]
        w == Head(r.todo)
    IN /\ CommandAt(p, "register") /\ r.todo # <<>>
       /\ r.fresh \/ ~VerifySaved(r.vault)
       /\ \/ \E serial \in {1, 2} :
                 /\ registered' = [registered EXCEPT ![w] = @ \cup {r.vault}]
                 /\ PublishAcknowledgement(p, w, Acknowledged(r.vault, serial))
          \/ \* The witness fails, or its answer is lost.
             /\ Pay("faults")
             /\ registered' \in {registered, [registered EXCEPT ![w] = @ \cup {r.vault}]}
             /\ Return(p)
             /\ UNCHANGED <<disk, stable>>
       /\ UNCHANGED <<source, basis>>

\* DurablyAccepted: the checkpoint follows the last acknowledgement.
PublishWitnessCheckpoint(p) ==
    LET r == command[p]
    IN /\ CommandAt(p, "register") /\ r.todo = <<>> /\ Witnesses # {}
       /\ r.fresh \/ ~VerifySaved(r.vault)
       /\ PublishPrivate(p, WitnessCheckpoint, Bytes(r.vault),
                         [r EXCEPT !.pc = "outputs", !.todo = OutputOrder(r.vault, r.fresh)])
       /\ Quiet

PublishOutput(p) ==
    LET r == command[p]
    IN /\ CommandAt(p, "outputs") /\ r.todo # <<>>
       /\ Deposit(p, Head(r.todo), Bytes(r.vault), [r EXCEPT !.todo = Tail(@)])
       /\ Quiet

\* The control files go last, PENDING_OUTPUTS after PENDING_ROLLOVER.
CleanupOrder(c) == [i \in DOMAIN Payloads |-> Staged(c, Payloads[i])] \o <<PendingVault, PendingOutputs>>

\* Everything is read back before the first control file goes.
ReadBack(p) ==
    LET r == command[p]
    IN /\ CommandAt(p, "outputs") /\ r.todo = <<>>
       /\ IF \A path \in Outputs(r.vault) \cup {NewVault} : disk[path] = Bytes(r.vault)
          THEN Go(p, [r EXCEPT !.pc = "finish", !.todo = CleanupOrder(r.vault)])
          ELSE Stop(p)
       /\ Quiet

\* cleanup: the file goes to its quarantine name first.
Quarantine(p) ==
    LET path == Head(command[p].todo)
    IN /\ CommandAt(p, "finish") /\ command[p].todo # <<>>
       /\ Exists(path)
       /\ IF Exists(CleanupName(path)) THEN Stop(p)
          ELSE Rename(path, CleanupName(path)) /\ UNCHANGED <<command, locked, toll>>
       /\ Quiet

\* ... and is unlinked there; or both names were absent, and the absence is
\* synced (confirm_private_cleanup_absent).
RemoveCleanup(p) ==
    LET path == Head(command[p].todo)
    IN /\ CommandAt(p, "finish") /\ command[p].todo # <<>>
       /\ ~Exists(path)
       /\ Deposit(p, CleanupName(path), Absent, [command[p] EXCEPT !.todo = Tail(@)])
       /\ Quiet

FinishRollover(p) ==
    /\ CommandAt(p, "finish") /\ command[p].todo = <<>>
    /\ Stop(p)
    /\ Quiet

\* A resume that found no snapshot: everything is there already, and only the
\* absence of the control files may have to be synced.
ConfirmCompleted(p) ==
    LET r == command[p]
        gone == \A path \in Guards : ~Exists(path) /\ ~Exists(CleanupName(path))
    IN /\ CommandAt(p, "confirm")
       /\ IF /\ SourceCurrent(p) /\ gone
             /\ locked[r.vault] = "free" /\ disk[NewCatalog(r.vault)] = Bytes(r.vault)
             /\ VerifySaved(r.vault)
          THEN Deposit(p, CleanupName(PendingOutputs), Absent, [r EXCEPT !.pc = "finish", !.todo = <<>>])
          ELSE Stop(p)
       /\ Quiet

---------------------------------------------------------------------------------
(* The environment *)

\* read_vault on a detached home: no control file under either of its names.
Readable ==
    /\ Exists(NewVault)
    /\ \A path \in Guards : ~Exists(path) /\ ~Exists(CleanupName(path))

\* The owner commits to the new vault.
UseNewVault ==
    LET c == disk[NewVault][2]
        changed == {NewVault, LocalFile(c, "audit"), LocalFile(c, "checkpoint")}
    IN /\ Readable /\ disk[NewVault] # Used(c)
       /\ locked[c] = "free"
       /\ disk' = [path \in DOMAIN disk |-> IF path \in changed THEN Used(c) ELSE disk[path]]
       /\ stable' = [path \in DOMAIN disk |-> IF Directory(path) \in {Directory(f) : f \in changed}
                                        THEN disk'[path] ELSE stable[path]]
       /\ UNCHANGED <<command, source, locked, basis, registered, toll>>

\* A commit to the source, in this home or in another clone of it.
CommitToSource ==
    /\ locked[SourceLock] = "free"
    /\ Pay("commits")
    /\ \E here \in BOOLEAN :
           source' = [home |-> IF here THEN source.accepted + 1 ELSE source.home,
                      accepted |-> source.accepted + 1]
    /\ UNCHANGED <<disk, stable, command, locked, basis, registered>>

\* A killed command leaves its lock files.
KillRollover(p) ==
    /\ p \in DOMAIN command /\ ~CommandAt(p, "idle")
    /\ Pay("kills")
    /\ command' = [command EXCEPT ![p] = Resting]
    /\ locked' = [l \in DOMAIN locked |-> IF locked[l] = p THEN "stale" ELSE locked[l]]
    /\ UNCHANGED <<disk, stable>> /\ Quiet

LosePowerInRollover ==
    /\ Pay("losses")
    /\ PowerLoss
    /\ command' = [p \in DOMAIN command |-> Resting]
    /\ \E left \in SUBSET {l \in DOMAIN locked : locked[l] # "free"} :
           locked' = [l \in DOMAIN locked |-> IF l \in left THEN "stale" ELSE "free"]
    /\ Quiet

\* The operator removes the lock file of a command that is gone.
RemoveStaleLock ==
    /\ \E l \in DOMAIN locked : locked[l] = "stale" /\ locked' = [locked EXCEPT ![l] = "free"]
    /\ UNCHANGED <<disk, stable, command, source, basis, registered, toll>>

---------------------------------------------------------------------------------
RolloverStep(p) ==
    \/ AdoptLineage(p) \/ ReadSnapshot(p) \/ ReadCandidate(p) \/ LoadOutputs(p)
    \/ LockSource(p) \/ CreateHome(p) \/ PublishPendingVault(p) \/ StagePayload(p)
    \/ PublishPendingOutputs(p) \/ RereadSnapshot(p) \/ PrepareOutputs(p)
    \/ SkipRegistration(p) \/ RegisterWitness(p) \/ PublishWitnessCheckpoint(p)
    \/ PublishOutput(p) \/ ReadBack(p) \/ Quarantine(p) \/ RemoveCleanup(p)
    \/ FinishRollover(p) \/ ConfirmCompleted(p)

RolloverStart(scene) ==
    /\ disk = [path \in RolloverPaths |-> Absent]
    /\ stable = disk
    /\ source = [home |-> 1, accepted |-> 1]
    /\ locked = [l \in {SourceLock} \cup Candidates |-> "free"]
    /\ basis = [c \in Candidates |-> None]
    /\ command = [p \in scene.commands |-> Resting]
    /\ registered = [w \in scene.witnesses |-> {}]
    /\ toll = [what \in {"faults", "kills", "losses", "commits"} |-> scene[what]]

RolloverInit == \E scene \in RolloverScenes : RolloverStart(scene)

RolloverNext ==
    \/ \E p \in Rollovers : PrepareCandidate(p) \/ ResumeRollover(p) \/ RolloverStep(p) \/ KillRollover(p)
    \/ UseNewVault \/ CommitToSource \/ LosePowerInRollover \/ RemoveStaleLock

---------------------------------------------------------------------------------
(* Properties *)

\* Whoever can read the new home's vault finds, safe from a power loss, the
\* backup, the transfer, the catalog and the local state of that very vault,
\* and every destination witness has registered it.  publish writes the files
\* in four directories, and read_vault looks at one of them only.
ReadableIsComplete ==
    Readable =>
        LET c == disk[NewVault][2]
            Belongs(content) == content \in {Bytes(c), Used(c)}
        IN /\ \A path \in Outputs(c) \cup {NewVault} : Belongs(disk[path]) /\ Belongs(stable[path])
           /\ \A w \in Witnesses : c \in registered[w] /\ stable[Acknowledgement(w)] # Absent

\* No commit is left behind: when the new home becomes readable, the vault it
\* holds copies the last revision any clone of the source committed, although
\* the candidate was prepared before the source was locked and a resume may
\* come long after (lock_current_source).
NoCommitLeftBehind ==
    ~Readable /\ Readable' => source.accepted <= basis[disk'[NewVault][2]]

\* The second control file is durable, and the source is where it was.
Resumable ==
    \E c \in Candidates :
        stable[PendingOutputs] = Bytes(c) /\ source = [home |-> basis[c], accepted |-> basis[c]]

\* The rollover has come to its end, unless the source has moved on (resume).
Resumed ==
    \/ Readable
    \/ \E c \in Candidates : /\ Bytes(c) \in {stable[PendingOutputs], stable[CleanupName(PendingOutputs)]}
                            /\ source.accepted > basis[c]
=================================================================================
