--------------------------- MODULE VaultInstallation ---------------------------
(***************************************************************************)
(* How a vault comes to a home: vault init creates a lineage, and transfer *)
(* import brings a received artifact, into an empty home or over an older  *)
(* snapshot (a clone, say), perhaps one in which the importing principal   *)
(* is not registered yet.                                                  *)
(*                                                                         *)
(* An import retains the principal's three files below the state root, the *)
(* witness policies in the catalog, and the vault, in three directories.   *)
(* Commands interleave; any of them may be killed between two steps, which *)
(* leaves its lock behind; a sync may fail; the machine may lose power.    *)
(*                                                                         *)
(* One principal imports.  The events a commit appends to the audit are    *)
(* MutationCommit's concern: here an audit is its first event.             *)
(***************************************************************************)
EXTENDS DurableFiles, Sequences, SequencesExt, FiniteSets

CONSTANTS
    Importers,       \* commands of the principal
    RegisteredFrom,  \* the first revision number in which the principal is active
    Weakening,       \* pairs of revisions between which protection is weakened
    PolicyOf,        \* the witness policies a revision needs
    InstallScenes    \* [commands, transfers, snapshot, create, kills, faults, losses],
                     \* where a transfer is [revision : Seq, at : time]

VARIABLES
    installer,       \* [SUBSET Importers -> what the command holds and where it is]
    editLock,        \* vault-edit.lock of the transferred lineage: "free", holder, "stale"
    stamp,           \* the clock: no two initializations by clock are equal
    usable,          \* the transfers in reach
    creates,         \* whether vault init is run too
    installed,       \* history: the vault was put there by a command
    undone,          \* history: power was lost after a failed sync, or a first use
                     \* initialized over the state another command had made
    allowance        \* what the environment may still do

installVars == <<disk, stable, installer, editLock, stamp, usable, creates, installed, undone, allowance>>

---------------------------------------------------------------------------------
(* Files.  A vault names its lineage and its revision; the first audit event *)
(* binds the revision and the time of the initialization.                   *)

Transferred == "transferred"
Kinds == <<"audit", "checkpoint", "receipts">>

VaultFile == <<<<"vault">>, <<"home">>>>
CatalogFile == <<<<"catalog">>, <<"lineage">>>>
StateFile(lineage, kind) == <<<<kind>>, <<"principal", lineage>>>>
InstallPaths ==
    {VaultFile, CatalogFile} \cup
    {StateFile(lineage, Kinds[i]) : lineage \in {Transferred} \cup Importers, i \in DOMAIN Kinds}

VaultAt(lineage, revision) == <<"vault", lineage, revision>>
CatalogOf(policies) == <<"catalog", policies>>

\* PrincipalLocalState::initialize
Initialized(kind, revision, time) ==
    CASE kind = "audit" -> <<"audit", revision, time>>
      [] kind = "checkpoint" -> <<"checkpoint", revision, time, revision>>
      [] kind = "receipts" -> <<"receipts">>

Principal(lineage, kind) == disk[StateFile(lineage, kind)]
Missing(lineage) == {i \in DOMAIN Kinds : Principal(lineage, Kinds[i]) = Absent}

\* verify_files: complete, and the checkpoint continues this audit.
Verified(lineage) ==
    /\ Missing(lineage) = {}
    /\ SubSeq(Principal(lineage, "audit"), 2, 3) = SubSeq(Principal(lineage, "checkpoint"), 2, 3)

Accepted(lineage) == Principal(lineage, "checkpoint")[4]

\* CheckpointCandidate::relation_to
RelationTo(revision, accepted) ==
    IF revision = accepted THEN "equal"
    ELSE IF IsPrefix(accepted, revision) THEN "descendant" ELSE "divergent"

Registers(revision) == Len(revision) >= RegisteredFrom

Policies == IF Exists(CatalogFile) THEN disk[CatalogFile][2] ELSE {}

\* preflight_transfer_import: only the same artifact or a strict descendant
\* that weakens nothing.
Preflight(local, incoming) ==
    /\ IsPrefix(local, incoming)
    /\ <<local, incoming>> \notin Weakening

\* merge_transfer, into the catalog that was loaded.
MergedCatalog(r) ==
    CatalogOf((IF r.catalog = Absent THEN {} ELSE r.catalog[2]) \cup PolicyOf[r.transfer.revision])

---------------------------------------------------------------------------------
(* Bookkeeping *)

NotRunning == [pc |-> "idle", refused |-> "no"]
Refusal(why) == [pc |-> "idle", refused |-> why]

InstallerAt(p, pc) == p \in DOMAIN installer /\ installer[p].pc = pc
Spend(what) == allowance[what] > 0 /\ allowance' = [allowance EXCEPT ![what] = @ - 1]
Steady == UNCHANGED <<stamp, usable, creates, installed, undone>>

\* The command returns: Drop removes its lock file.
Finish(p, how) ==
    /\ installer' = [installer EXCEPT ![p] = how]
    /\ editLock' = IF editLock = p THEN "free" ELSE editLock

Succeed(p) == Finish(p, NotRunning) /\ UNCHANGED <<disk, stable, allowance>>
Refuse(p, why) == Finish(p, Refusal(why)) /\ UNCHANGED <<disk, stable, allowance>>

Continue(p, r) == installer' = [installer EXCEPT ![p] = r] /\ UNCHANGED <<disk, stable, allowance>>

\* try_lock fails at once when the lock file is there.
WithLock(p, action) == IF editLock = "free" THEN action ELSE Refuse(p, "locked")

\* A rename and its sync; a failed sync is local_state_error.
Retain(p, path, content, r) ==
    \/ /\ Write(path, content, TRUE)
       /\ installer' = [installer EXCEPT ![p] = r]
       /\ UNCHANGED <<editLock, allowance>>
    \/ /\ Write(path, content, FALSE)
       /\ Spend("faults")
       /\ Finish(p, Refusal("unsynced"))

---------------------------------------------------------------------------------
(* transfer_import *)

\* The transfer is read and the home looked at.  Over an existing vault the
\* preflight needs the local catalog; an empty home needs an active principal
\* (whether it has something to open or gives --allow-no-access is its choice).
BeginImport(p) ==
    /\ InstallerAt(p, "idle")
    /\ \E t \in usable :
           LET run == [pc |-> "load", transfer |-> t, base |-> <<>>, from |-> t.revision, time |-> t.at,
                     catalog |-> Absent]
           IN IF Exists(VaultFile)
              THEN /\ disk[VaultFile][2] = Transferred
                   /\ PolicyOf[disk[VaultFile][3]] \subseteq Policies
                   /\ Preflight(disk[VaultFile][3], t.revision)
                   /\ Continue(p, run)
              ELSE /\ Registers(t.revision)
                   /\ Continue(p, [run EXCEPT !.pc = "reconcile"])
    /\ UNCHANGED editLock /\ Steady

\* load_principal_context, for a transfer: the vault and the catalog are read
\* again, then the three files.  A principal the old snapshot does not know
\* starts at the revision that registers it.
LoadPrincipal(p) ==
    LET r == installer[p]
        base == disk[VaultFile][3]
        from == IF Registers(base) THEN base ELSE r.transfer.revision
        relation == RelationTo(from, Accepted(Transferred))
    IN /\ InstallerAt(p, "load")
       /\ IF \/ ~Exists(VaultFile)
             \/ disk[VaultFile][2] # Transferred
             \/ ~(PolicyOf[base] \subseteq Policies)
          THEN Refuse(p, "vault")
          ELSE IF ~Registers(r.transfer.revision)
          THEN Refuse(p, "unregistered")
          ELSE IF Missing(Transferred) = DOMAIN Kinds
          THEN /\ Continue(p, [r EXCEPT !.pc = "initialize", !.base = base, !.from = from,
                                        !.catalog = disk[CatalogFile]])
               /\ UNCHANGED editLock
          ELSE IF ~Verified(Transferred)
          THEN Refuse(p, "local-state")
          ELSE IF relation = "divergent"
          THEN Refuse(p, "checkpoint")
          ELSE /\ Continue(p, [r EXCEPT !.pc = IF relation = "equal" THEN "plan" ELSE "accept",
                                        !.base = base, !.from = from,
                                        !.catalog = disk[CatalogFile]])
               /\ UNCHANGED editLock
       /\ Steady

\* initialize_principal_state, up to the first publication.
LockInitialization(p) ==
    /\ InstallerAt(p, "initialize")
    /\ WithLock(p, /\ Continue(p, [installer[p] EXCEPT !.pc = "init-audit", !.time = stamp])
                   /\ editLock' = p)
    /\ stamp' = IF editLock = "free" THEN stamp + 1 ELSE stamp
    /\ undone' = (undone \/ (editLock = "free" /\ Missing(Transferred) # DOMAIN Kinds))
    /\ UNCHANGED <<usable, creates, installed>>

\* Its three publications, whatever is there meanwhile.
InitializeFile(p) ==
    \E i \in DOMAIN Kinds :
        LET r == installer[p]
        IN /\ InstallerAt(p, <<"init-audit", "init-checkpoint", "init-receipts">>[i])
           /\ \/ /\ Write(StateFile(Transferred, Kinds[i]), Initialized(Kinds[i], r.from, r.time), TRUE)
                 /\ installer' = [installer EXCEPT ![p].pc =
                        <<"init-checkpoint", "init-receipts", "plan">>[i]]
                 /\ editLock' = IF i = 3 THEN "free" ELSE editLock
                 /\ UNCHANGED allowance
              \/ /\ Write(StateFile(Transferred, Kinds[i]), Initialized(Kinds[i], r.from, r.time), FALSE)
                 /\ Spend("faults")
                 /\ Finish(p, Refusal("unsynced"))
           /\ Steady

\* advance_principal_checkpoint: one command under the lock.
Advance(p, next) ==
    LET r == installer[p]
    IN WithLock(p,
         IF ~Verified(Transferred)
         THEN Refuse(p, "local-state")
         ELSE IF RelationTo(r.from, Accepted(Transferred)) = "divergent"
         THEN Refuse(p, "checkpoint")
         ELSE IF RelationTo(r.from, Accepted(Transferred)) = "equal"
         THEN Continue(p, [r EXCEPT !.pc = next]) /\ UNCHANGED editLock
         ELSE Retain(p, StateFile(Transferred, "checkpoint"),
                     [Principal(Transferred, "checkpoint") EXCEPT ![4] = r.from],
                     [r EXCEPT !.pc = next]))

AcceptBase(p) == InstallerAt(p, "accept") /\ Advance(p, "plan") /\ Steady

\* prepare_transfer_import against the vault that was loaded.  The same
\* artifact only brings its policies.
PlanImport(p) ==
    LET r == installer[p]
    IN /\ InstallerAt(p, "plan")
       /\ IF ~Preflight(r.base, r.transfer.revision)
          THEN Refuse(p, "transfer")
          ELSE IF r.base = r.transfer.revision
          THEN WithLock(p,
                 IF PolicyOf[r.transfer.revision] \subseteq Policies /\ Exists(CatalogFile)
                 THEN Succeed(p)
                 ELSE Retain(p, CatalogFile, CatalogOf(Policies \cup PolicyOf[r.transfer.revision]),
                             NotRunning))
          ELSE Continue(p, [r EXCEPT !.pc = "commit"]) /\ UNCHANGED editLock
       /\ Steady

\* The commit of the plan, up to the intent: the catalog must be the one that
\* was loaded, or hold the target already; the vault the one planned against,
\* or the target of an earlier attempt.
LockCommit(p) ==
    LET r == installer[p]
        target == r.transfer.revision
        found == disk[VaultFile]
        current == IF Registers(found[3]) THEN found[3] ELSE target
    IN /\ InstallerAt(p, "commit")
       /\ WithLock(p,
            IF \/ disk[CatalogFile] \notin {r.catalog, MergedCatalog(r)}
               \/ found \notin {VaultAt(Transferred, r.base), VaultAt(Transferred, target)}
            THEN Refuse(p, "stale")
            ELSE IF ~Verified(Transferred)
            THEN Refuse(p, "local-state")
            ELSE IF RelationTo(current, Accepted(Transferred)) = "divergent"
            THEN Refuse(p, "checkpoint")
            ELSE Continue(p, [r EXCEPT !.pc = "commit-catalog"]) /\ editLock' = p)
       /\ Steady

CommitCatalog(p) ==
    LET r == installer[p]
        next == [r EXCEPT !.pc = IF disk[VaultFile] = VaultAt(Transferred, r.transfer.revision)
                                 THEN "commit-checkpoint" ELSE "commit-vault"]
    IN /\ InstallerAt(p, "commit-catalog")
       /\ IF disk[CatalogFile] = MergedCatalog(r)
          THEN Continue(p, next) /\ UNCHANGED editLock
          ELSE Retain(p, CatalogFile, MergedCatalog(r), next)
       /\ Steady

\* The artifact is visible either way; the checkpoint follows.
CommitVault(p) ==
    LET r == installer[p]
    IN /\ InstallerAt(p, "commit-vault")
       /\ \/ Write(VaultFile, VaultAt(Transferred, r.transfer.revision), TRUE) /\ UNCHANGED allowance
          \/ Write(VaultFile, VaultAt(Transferred, r.transfer.revision), FALSE) /\ Spend("faults")
       /\ installer' = [installer EXCEPT ![p].pc = "commit-checkpoint"]
       /\ installed' = TRUE
       /\ UNCHANGED <<editLock, stamp, usable, creates, undone>>

CommitCheckpoint(p) ==
    LET r == installer[p]
    IN /\ InstallerAt(p, "commit-checkpoint")
       /\ \E synced \in BOOLEAN :
              /\ Write(StateFile(Transferred, "checkpoint"),
                       [Principal(Transferred, "checkpoint") EXCEPT ![4] = r.transfer.revision], synced)
              /\ IF synced THEN UNCHANGED allowance ELSE Spend("faults")
       /\ Finish(p, NotRunning)
       /\ Steady

---------------------------------------------------------------------------------
(* import_absent *)

MutMatches(t, i) == Principal(Transferred, Kinds[i]) = Absent

\* What this very transfer would have written, or nothing.
Matches(t, i) ==
    Principal(Transferred, Kinds[i]) \in {Absent, Initialized(Kinds[i], t.revision, t.at)}

\* reconcile_first_install_local_state, up to the first publication: a whole
\* state is verified and compared; of a partial one, every file must be what
\* this very transfer would have written.
Reconcile(p) ==
    LET r == installer[p]
    IN /\ InstallerAt(p, "reconcile")
       /\ WithLock(p,
            IF Missing(Transferred) = {}
            THEN IF ~Verified(Transferred)
                 THEN Refuse(p, "local-state")
                 ELSE IF RelationTo(r.transfer.revision, Accepted(Transferred)) = "divergent"
                 THEN Refuse(p, "checkpoint")
                 ELSE Continue(p, [r EXCEPT !.pc = "merge-known"]) /\ editLock' = p
            ELSE IF \E i \in DOMAIN Kinds : ~Matches(r.transfer, i)
            THEN Refuse(p, "local-state")
            ELSE Continue(p, [r EXCEPT !.pc = "merge-fresh"]) /\ editLock' = p)
       /\ Steady

\* reconcile_transfer_catalog_locked; a known state gives the lock back before
\* its checkpoint is advanced.
MergeCatalog(p) ==
    LET r == installer[p]
        target == CatalogOf(Policies \cup PolicyOf[r.transfer.revision])
        known == r.pc = "merge-known"
        next == [r EXCEPT !.pc = IF known THEN "advance" ELSE "first-audit"]
        release == IF known THEN "free" ELSE editLock
    IN /\ InstallerAt(p, "merge-known") \/ InstallerAt(p, "merge-fresh")
       /\ \/ /\ disk[CatalogFile] = target
             /\ Continue(p, next)
             /\ editLock' = release
          \/ /\ disk[CatalogFile] # target
             /\ Write(CatalogFile, target, TRUE)
             /\ installer' = [installer EXCEPT ![p] = next]
             /\ editLock' = release
             /\ UNCHANGED allowance
          \/ /\ disk[CatalogFile] # target
             /\ Write(CatalogFile, target, FALSE)
             /\ Spend("faults")
             /\ Finish(p, Refusal("unsynced"))
       /\ Steady

AdvanceKnown(p) == InstallerAt(p, "advance") /\ Advance(p, "install") /\ Steady

\* The missing files, in order; then the lock is given back.
FirstFile(p) ==
    \E i \in DOMAIN Kinds :
        LET r == installer[p]
            path == StateFile(Transferred, Kinds[i])
            content == Initialized(Kinds[i], r.transfer.revision, r.transfer.at)
            next == [r EXCEPT !.pc = <<"first-checkpoint", "first-receipts", "install">>[i]]
            release == IF i = 3 THEN "free" ELSE editLock
        IN /\ InstallerAt(p, <<"first-audit", "first-checkpoint", "first-receipts">>[i])
           /\ \/ Exists(path) /\ Continue(p, next) /\ editLock' = release
              \/ /\ ~Exists(path)
                 /\ Write(path, content, TRUE)
                 /\ installer' = [installer EXCEPT ![p] = next]
                 /\ editLock' = release
                 /\ UNCHANGED allowance
              \/ /\ ~Exists(path)
                 /\ Write(path, content, FALSE)
                 /\ Spend("faults")
                 /\ Finish(p, Refusal("unsynced"))
           /\ Steady

\* The vault goes to the home before the principal's state.
MutInstallVault(p) ==
    /\ InstallerAt(p, "install") \/ InstallerAt(p, "reconcile")
    /\ ~Exists(VaultFile)
    /\ Write(VaultFile, VaultAt(Transferred, installer[p].transfer.revision), TRUE)
    /\ Finish(p, NotRunning)
    /\ installed' = TRUE
    /\ UNCHANGED allowance
    /\ UNCHANGED <<stamp, usable, creates, undone>>

\* The prepared vault is published with CreateNew: it never replaces one.
InstallVault(p) ==
    LET vault == VaultAt(Transferred, installer[p].transfer.revision)
    IN /\ InstallerAt(p, "install")
       /\ IF Exists(VaultFile)
          THEN Refuse(p, "exists") /\ UNCHANGED installed
          ELSE /\ \/ Write(VaultFile, vault, TRUE) /\ UNCHANGED allowance
                  \/ Write(VaultFile, vault, FALSE) /\ Spend("faults")
               /\ Finish(p, NotRunning)
               /\ installed' = TRUE
       /\ UNCHANGED <<stamp, usable, creates, undone>>

---------------------------------------------------------------------------------
(* vault_init: a new lineage, whose state directory no one else knows. *)

BeginInit(p) ==
    /\ InstallerAt(p, "idle") /\ creates
    /\ ~Exists(VaultFile)
    /\ Missing(p) = DOMAIN Kinds
    /\ Continue(p, [pc |-> "new-audit", time |-> stamp])
    /\ UNCHANGED editLock /\ Steady

\* publish_initial_vault: every local file must be synced before the vault.
PublishInitial(p) ==
    \/ /\ \E i \in DOMAIN Kinds :
              /\ InstallerAt(p, <<"new-audit", "new-checkpoint", "new-receipts">>[i])
              /\ Retain(p, StateFile(p, Kinds[i]), Initialized(Kinds[i], <<>>, installer[p].time),
                        [installer[p] EXCEPT !.pc = <<"new-checkpoint", "new-receipts", "new-vault">>[i]])
       /\ Steady
    \/ /\ InstallerAt(p, "new-vault")
       /\ IF Exists(VaultFile)
          THEN Refuse(p, "exists") /\ UNCHANGED installed
          ELSE /\ \/ Write(VaultFile, VaultAt(p, <<>>), TRUE) /\ UNCHANGED allowance
                  \/ Write(VaultFile, VaultAt(p, <<>>), FALSE) /\ Spend("faults")
               /\ Finish(p, NotRunning)
               /\ installed' = TRUE
       /\ UNCHANGED <<stamp, usable, creates, undone>>

---------------------------------------------------------------------------------
(* The environment *)

\* A killed command leaves the lock file it holds, or was about to create.
KillInstaller(p) ==
    /\ p \in DOMAIN installer /\ installer[p].pc # "idle"
    /\ Spend("kills")
    /\ installer' = [installer EXCEPT ![p] = NotRunning]
    /\ editLock' \in IF editLock = p THEN {"stale"}
                     ELSE IF editLock = "free" THEN {"free", "stale"} ELSE {editLock}
    /\ UNCHANGED <<disk, stable>> /\ Steady

\* The operator removes a lock file no command holds.
ClearLock ==
    /\ editLock = "stale"
    /\ editLock' = "free"
    /\ UNCHANGED <<disk, stable, installer, allowance>> /\ Steady

LosePower ==
    /\ Spend("losses")
    /\ PowerLoss
    /\ installer' = [p \in DOMAIN installer |-> NotRunning]
    /\ editLock' = IF editLock = "free" THEN "free" ELSE "stale"
    /\ undone' = (undone \/ disk' # disk)
    /\ UNCHANGED <<stamp, usable, creates, installed>>

InstallStart(scene) ==
    /\ disk = [path \in InstallPaths |->
                  IF path = VaultFile /\ scene.snapshot # Absent
                  THEN VaultAt(Transferred, scene.snapshot) ELSE Absent]
    /\ stable = disk
    /\ installer = [p \in scene.commands |-> NotRunning]
    /\ editLock = "free"
    /\ stamp = 10
    /\ usable = scene.transfers
    /\ creates = scene.create
    /\ installed = FALSE
    /\ undone = FALSE
    /\ allowance = [kills |-> scene.kills, faults |-> scene.faults, losses |-> scene.losses]

InstallInit == \E scene \in InstallScenes : InstallStart(scene)

InstallStep(p) ==
    \/ LoadPrincipal(p) \/ LockInitialization(p) \/ InitializeFile(p) \/ AcceptBase(p)
    \/ PlanImport(p) \/ LockCommit(p) \/ CommitCatalog(p) \/ CommitVault(p) \/ CommitCheckpoint(p)
    \/ Reconcile(p) \/ MergeCatalog(p) \/ AdvanceKnown(p) \/ FirstFile(p) \/ InstallVault(p)
    \/ PublishInitial(p)

InstallNext ==
    \/ \E p \in Importers :
           InstallStep(p) \/ BeginImport(p) \/ BeginInit(p) \/ KillInstaller(p)
    \/ ClearLock
    \/ LosePower

---------------------------------------------------------------------------------
(* Properties *)

\* A vault that a command has put into the home can be opened there: the
\* catalog has every witness policy it needs, and the state of the principal
\* who installed it is whole, verifies, and is on the same line of revisions.
\* (Unless power was lost over a directory whose sync had failed, or of two
\* imports over a snapshot that both found no state one initialized it after
\* the other: load_principal_context looks before it takes the lock.)
InstalledHasState ==
    installed /\ Exists(VaultFile) /\ ~undone =>
        LET lineage == disk[VaultFile][2]
            revision == disk[VaultFile][3]
        IN /\ Verified(lineage)
           /\ IsPrefix(revision, Accepted(lineage)) \/ IsPrefix(Accepted(lineage), revision)
           /\ lineage = Transferred => PolicyOf[revision] \subseteq Policies

\* However imports interleave and are interrupted, the revision a principal
\* has accepted is only ever replaced by a descendant, except by a first use
\* that had found no state: initialize_principal_state does not look again.
RetainedForward ==
    \/ LosePower
    \/ undone /\ \E p \in Importers : InitializeFile(p)
    \/ \A lineage \in {Transferred} \cup Importers :
           Principal(lineage, "checkpoint") # Absent =>
               IsPrefix(Accepted(lineage), Accepted(lineage)')

\* One command repeats the first installation of one transfer.
Awaited == Cardinality(usable) = 1 /\ Cardinality(DOMAIN installer) = 1 /\ ~Exists(VaultFile)
=================================================================================
