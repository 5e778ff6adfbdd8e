------------------------------ MODULE LocalExports ------------------------------
(***************************************************************************)
(* What an owner takes out of a vault, and what the vault remembers of it: *)
(* transfer export, backup create, backup verify and backup drill, each of *)
(* which ends with a receipt in the owner's local state, and the status    *)
(* commands that read the receipts.                                        *)
(*                                                                         *)
(* Commands interleave with each other and with the commits of the owner   *)
(* and of an approver who shares the state root.  Each locked section      *)
(* writes at most one file, so it is one step here; a lock that is taken   *)
(* shows as a refusal.  Syncs may fail, commands may be killed, power may  *)
(* be lost and the clock may step back.                                    *)
(***************************************************************************)
EXTENDS DurableFiles, FiniteSets

CONSTANTS
    Exporters,        \* commands of the owner
    Since,            \* [owner, approver -> the revision that registers it]
    MaxRevision,      \* bound: revisions committed
    MaxExports,       \* bound: archives and transfers made
    MaxExportTime,    \* bound: clock readings
    ExportScenes      \* [kinds : SUBSET of the four commands, commands : SUBSET Exporters,
                      \*  chances : [faults, losses, kills, skews -> Nat]]

VARIABLES
    head,             \* the revision in the home
    retained,         \* [owner, approver -> [accepted : revision, tail : audit ahead of it]]
    export,           \* [SUBSET Exporters -> what the command holds and where it is]
    offered,          \* the commands that are run
    serial, exportTime, \* identifiers drawn, and the present time
    made,             \* history: what was published under its name
    kept,             \* history: what was published and synced
    provenArchives, drilled,  \* history: archives fully opened, and restored
    replaced,         \* history: [what : replaced, asked : the command had seen it and was told to]
    chance            \* what the environment may still do

exportVars ==
    <<disk, stable, head, retained, export, offered, serial, exportTime, made, kept, provenArchives, drilled,
      replaced, chance>>

Owner == "owner"
Approver == "approver"

---------------------------------------------------------------------------------
(* Files and receipts *)

ArchiveOut == <<<<"archive">>, <<"backups">>>>
TransferOut == <<<<"transfer">>, <<"exchange">>>>
ReceiptsFile == <<<<"receipts">>, <<"principal">>>>
ExportPaths == {ArchiveOut, TransferOut, ReceiptsFile}

NoReceipt == [id |-> 0, revision |-> 0, at |-> 0]
NoReceipts == [transfer |-> NoReceipt, create |-> NoReceipt, verify |-> NoReceipt, drill |-> NoReceipt]
Receipts == disk[ReceiptsFile][2]

ReceiptOf(product) == [id |-> product.id, revision |-> product.revision, at |-> product.at]

\* record_receipt: an export is of the accepted revision, a verification or a
\* drill of the latest backup.
Recordable(kind, receipt) ==
    IF kind \in {"transfer", "create"}
    THEN receipt.revision = retained[Owner].accepted
    ELSE Receipts["create"].id = receipt.id /\ Receipts["create"].revision = receipt.revision

\* LocalReceipts::update, ensure_newer
Newer(kind, receipt) == receipt.at # 0 /\ receipt.at >= Receipts[kind].at

\* backup_status: what a verification or a drill is worth today.
Counts(kind) == Receipts["create"].id # 0 /\ Receipts[kind].id = Receipts["create"].id

---------------------------------------------------------------------------------
(* Archives *)

\* validate_local_state, for every identity in the archive: the checkpoint is
\* that of the archived vault, and no audit event is ahead of it.
ArchiveOpens(archive) ==
    \A who \in DOMAIN archive.states :
        archive.states[who] = [accepted |-> archive.revision, tail |-> FALSE]

\* validate_role_registration: an identity must be of the archived policy.
Registered(archive) == \A who \in DOMAIN archive.states : archive.revision >= Since[who]

---------------------------------------------------------------------------------
(* Bookkeeping *)

NoExport == [pc |-> "idle"]
ExportAt(p, pc) == p \in DOMAIN export /\ export[p].pc = pc
Risk(what) == chance[what] > 0 /\ chance' = [chance EXCEPT ![what] = @ - 1]
GoOn(p, r) == export' = [export EXCEPT ![p] = r]
FilesStay == UNCHANGED <<disk, stable, made, kept, replaced, chance>>
HistoryStays == UNCHANGED <<made, kept, provenArchives, drilled, replaced>>
Destination(kind) == IF kind = "transfer" THEN TransferOut ELSE ArchiveOut

---------------------------------------------------------------------------------
(* The commands *)

\* preview_public_file, preview_private_file: an existing file needs --overwrite.
PreviewExport(p, kind, included) ==
    \E overwrite \in BOOLEAN :
        /\ ExportAt(p, "idle") /\ kind \in offered /\ serial < MaxExports
        /\ Exists(Destination(kind)) => overwrite
        /\ GoOn(p, [pc |-> "read", kind |-> kind, seen |-> disk[Destination(kind)],
                    included |-> included, revision |-> 0])
        /\ UNCHANGED <<head, retained, offered, serial, exportTime, provenArchives, drilled>> /\ FilesStay

\* transfer export, backup create: the latter with or without the approver.
StartTransfer(p) == PreviewExport(p, "transfer", {})
StartBackup(p) == \E included \in {{Owner}, {Owner, Approver}} : PreviewExport(p, "create", included)

\* backup verify and backup drill are given an archive, old or new.
StartOn(p, kind) ==
    \E archive \in made :
        /\ ExportAt(p, "idle") /\ kind \in offered
        /\ archive.kind = "create"
        /\ GoOn(p, [pc |-> IF kind = "verify" THEN "open" ELSE "read", kind |-> kind,
                    product |-> archive, revision |-> 0])
        /\ UNCHANGED <<head, retained, offered, serial, exportTime, provenArchives, drilled>> /\ FilesStay

\* load_vault_principal reads the vault ...
ReadHome(p) ==
    /\ ExportAt(p, "read")
    /\ GoOn(p, [export[p] EXCEPT !.pc = "accept", !.revision = head])
    /\ UNCHANGED <<head, retained, offered, serial, exportTime, provenArchives, drilled>> /\ FilesStay

\* ... and takes it into the owner's checkpoint, unless that has moved on.
AcceptHome(p) ==
    LET r == export[p]
        next == CASE r.kind = "create" -> "snapshot"
                  [] r.kind = "transfer" -> "make"
                  [] r.kind = "verify" -> "record"
                  [] r.kind = "drill" -> "restore"
    IN /\ ExportAt(p, "accept")
       /\ IF retained[Owner].accepted > r.revision
          THEN GoOn(p, NoExport) /\ UNCHANGED retained
          ELSE /\ retained' = [retained EXCEPT ![Owner] = [accepted |-> r.revision, tail |-> FALSE]]
               /\ IF r.kind \in {"verify", "drill"}
                  THEN GoOn(p, [r EXCEPT !.pc = next, !.product = [@ EXCEPT !.at = exportTime]])
                  ELSE GoOn(p, [r EXCEPT !.pc = next])
       /\ UNCHANGED <<head, offered, serial, exportTime, provenArchives, drilled>> /\ FilesStay

\* read_local_state_snapshots: the files of every included identity, under one
\* lock.
ReadSnapshots(p) ==
    LET r == export[p]
    IN /\ ExportAt(p, "snapshot")
       /\ GoOn(p, [pc |-> "make", kind |-> r.kind, seen |-> r.seen, revision |-> r.revision,
                   states |-> [who \in r.included |-> retained[who]]])
       /\ UNCHANGED <<head, retained, offered, serial, exportTime, provenArchives, drilled>> /\ FilesStay

Made(p, product) ==
    IF product.at # 0 /\ serial < MaxExports
    THEN /\ GoOn(p, [pc |-> "check", kind |-> product.kind, seen |-> export[p].seen, product |-> product])
         /\ serial' = serial + 1
    ELSE GoOn(p, NoExport) /\ UNCHANGED serial

\* BackupCreator::create
CreateBackup(p) ==
    LET r == export[p]
        archive == [kind |-> "create", id |-> serial + 1, revision |-> r.revision, at |-> exportTime,
                    states |-> r.states]
    IN /\ ExportAt(p, "make") /\ r.kind = "create"
       /\ IF Registered(archive) /\ ArchiveOpens(archive)
          THEN Made(p, archive)
          ELSE GoOn(p, NoExport) /\ UNCHANGED serial
       /\ UNCHANGED <<head, retained, offered, exportTime, provenArchives, drilled>> /\ FilesStay

\* TransferCreator::create
CreateTransfer(p) ==
    /\ ExportAt(p, "make") /\ export[p].kind = "transfer"
    /\ Made(p, [kind |-> "transfer", id |-> serial + 1, revision |-> export[p].revision, at |-> exportTime,
                states |-> <<>>])
    /\ UNCHANGED <<head, retained, offered, exportTime, provenArchives, drilled>> /\ FilesStay

\* prepare_..._if_unchanged and publish: the destination must still be what was
\* previewed.
CheckDestination(p) ==
    LET r == export[p]
    IN /\ ExportAt(p, "check")
       /\ GoOn(p, IF disk[Destination(r.kind)] = r.seen THEN [r EXCEPT !.pc = "rename"] ELSE NoExport)
       /\ UNCHANGED <<head, retained, offered, serial, exportTime, provenArchives, drilled>> /\ FilesStay

\* publish_with_sync: where nothing was, rename_noreplace.
MayRename(r) == r.seen = Absent => ~Exists(Destination(r.kind))

RenameProduct(p) ==
    LET r == export[p]
        path == Destination(r.kind)
    IN /\ ExportAt(p, "rename")
       /\ IF ~MayRename(r)
          THEN GoOn(p, NoExport) /\ FilesStay
          ELSE /\ \E synced \in BOOLEAN :
                      /\ Write(path, <<"product", r.product>>, synced)
                      /\ IF synced THEN UNCHANGED chance ELSE Risk("faults")
                      /\ kept' = IF synced THEN kept \cup {r.product} ELSE kept
                      /\ GoOn(p, IF r.kind = "create" /\ ~synced THEN NoExport
                                 ELSE [pc |-> "record", kind |-> r.kind, product |-> r.product])
               /\ made' = made \cup {r.product}
               /\ replaced' = IF Exists(path) THEN replaced \cup {[what |-> disk[path], asked |-> r.seen # Absent]}
                              ELSE replaced
       /\ UNCHANGED <<head, retained, offered, serial, exportTime, provenArchives, drilled>>

\* backup verify: open_backup decrypts and validates all of the archive.
OpenArchive(p) ==
    LET r == export[p]
    IN /\ ExportAt(p, "open")
       /\ Registered(r.product) /\ ArchiveOpens(r.product)
       /\ provenArchives' = provenArchives \cup {r.product.id}
       /\ GoOn(p, [r EXCEPT !.pc = "read"])
       /\ UNCHANGED <<head, retained, offered, serial, exportTime, drilled>> /\ FilesStay

\* backup drill: restore_archive, which may fail at any of its steps.
RestoreDrill(p) ==
    LET r == export[p]
    IN /\ ExportAt(p, "restore")
       /\ \/ /\ Registered(r.product) /\ ArchiveOpens(r.product)
             /\ drilled' = drilled \cup {r.product.id}
             /\ GoOn(p, [r EXCEPT !.pc = "record"])
          \/ GoOn(p, NoExport) /\ UNCHANGED drilled
       /\ UNCHANGED <<head, retained, offered, serial, exportTime, provenArchives>> /\ FilesStay

\* A failed publication is recorded too.
MutRecordReceipt(p) ==
    LET r == export[p]
    IN /\ ExportAt(p, "record") \/ (ExportAt(p, "rename") /\ r.kind = "create")
       /\ Write(ReceiptsFile, <<"receipts", [Receipts EXCEPT ![r.kind] = ReceiptOf(r.product)]>>, TRUE)
       /\ GoOn(p, NoExport)
       /\ HistoryStays /\ UNCHANGED <<chance, head, retained, offered, serial, exportTime>>

\* record_local_receipt, under the lock; its failure is only reported.
RecordReceipt(p) ==
    LET r == export[p]
        receipt == ReceiptOf(r.product)
    IN /\ ExportAt(p, "record")
       /\ \/ /\ Recordable(r.kind, receipt)
             /\ Newer(r.kind, receipt)
             /\ \E synced \in BOOLEAN :
                    /\ Write(ReceiptsFile, <<"receipts", [Receipts EXCEPT ![r.kind] = receipt]>>, synced)
                    /\ IF synced THEN UNCHANGED chance ELSE Risk("faults")
          \/ UNCHANGED <<disk, stable, chance>>
       /\ GoOn(p, NoExport)
       /\ HistoryStays /\ UNCHANGED <<head, retained, offered, serial, exportTime>>

---------------------------------------------------------------------------------
(* The others *)

\* A commit of the owner, whole or interrupted: before the vault, which leaves
\* an intent ahead of the checkpoint, or between the vault and the checkpoint.
CommitHead ==
    /\ head < MaxRevision
    /\ \/ /\ head' = head + 1
          /\ retained' = [retained EXCEPT ![Owner] = [accepted |-> head + 1, tail |-> FALSE]]
       \/ /\ head' \in {head, head + 1}
          /\ retained' = [retained EXCEPT ![Owner].tail = TRUE]
    /\ UNCHANGED <<disk, stable, export, offered, serial, exportTime, chance>> /\ HistoryStays

\* Any command of the approver.
ApproverCatchesUp ==
    /\ retained[Approver].accepted < head /\ Since[Approver] <= head
    /\ retained' = [retained EXCEPT ![Approver] = [accepted |-> head, tail |-> FALSE]]
    /\ UNCHANGED <<disk, stable, head, export, offered, serial, exportTime, chance>> /\ HistoryStays

MoveClock ==
    /\ Risk("skews")
    /\ exportTime' \in (1..MaxExportTime) \ {exportTime}
    /\ UNCHANGED <<disk, stable, head, retained, export, offered, serial>> /\ HistoryStays

KillExport(p) ==
    /\ ~ExportAt(p, "idle") /\ p \in DOMAIN export
    /\ Risk("kills")
    /\ GoOn(p, NoExport)
    /\ UNCHANGED <<disk, stable, head, retained, offered, serial, exportTime>> /\ HistoryStays

\* Nothing that was synced is lost, and what was not may be.
LoseExports ==
    /\ Risk("losses")
    /\ PowerLoss
    /\ export' = [p \in DOMAIN export |-> NoExport]
    /\ UNCHANGED <<head, retained, offered, serial, exportTime>> /\ HistoryStays

ExportStart(scene) ==
    /\ disk = [path \in ExportPaths |-> IF path = ReceiptsFile THEN <<"receipts", NoReceipts>> ELSE Absent]
    /\ stable = disk
    /\ head = 1
    /\ retained = [who \in {Owner, Approver} |-> [accepted |-> IF Since[who] = 1 THEN 1 ELSE 0, tail |-> FALSE]]
    /\ export = [p \in scene.commands |-> NoExport]
    /\ offered = scene.kinds
    /\ serial = 0 /\ exportTime = 1
    /\ made = {} /\ kept = {} /\ provenArchives = {} /\ drilled = {} /\ replaced = {}
    /\ chance = scene.chances

ExportInit == \E scene \in ExportScenes : ExportStart(scene)

ExportStep(p) ==
    \/ StartTransfer(p) \/ StartBackup(p) \/ StartOn(p, "verify") \/ StartOn(p, "drill")
    \/ ReadHome(p) \/ AcceptHome(p) \/ ReadSnapshots(p) \/ CreateBackup(p) \/ CreateTransfer(p)
    \/ CheckDestination(p) \/ RenameProduct(p) \/ OpenArchive(p) \/ RestoreDrill(p) \/ RecordReceipt(p)
    \/ KillExport(p)

ExportNext ==
    \/ \E p \in Exporters : ExportStep(p)
    \/ CommitHead \/ ApproverCatchesUp \/ MoveClock \/ LoseExports

ExportSpec == ExportInit /\ [][ExportNext]_exportVars

---------------------------------------------------------------------------------
(* Properties *)

\* What an export leaves behind is true of it.  Whatever commits run while a
\* backup is made, an archive that reaches its name is of one moment: its
\* vault, and the checkpoint and audit of each identity in it, so that a
\* restore accepts it.  The status commands say nothing that did not happen:
\* the latest backup was published and synced, a verification or a drill that
\* counts for it was made of this very archive, and an export receipt names a
\* transfer that was made.
ExportsTruthful ==
    /\ \A a \in made : a.kind = "create" =>
         \A who \in DOMAIN a.states : a.states[who] = [accepted |-> a.revision, tail |-> FALSE]
    /\ Receipts["create"].id # 0 => \E a \in kept : ReceiptOf(a) = Receipts["create"]
    /\ Counts("verify") => Receipts["create"].id \in provenArchives
    /\ Counts("drill") => Receipts["create"].id \in drilled
    /\ Receipts["transfer"].id # 0 => \E t \in made : ReceiptOf(t) = Receipts["transfer"]
    /\ \A r \in replaced : r.asked    \* seen, and told to overwrite
=================================================================================
