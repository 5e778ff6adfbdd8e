------------------------------ MODULE BackupRestore ------------------------------
(***************************************************************************)
(* backup restore and backup drill: one archive published into an identity *)
(* directory, a vault home and a state root that no single rename covers.  *)
(*                                                                         *)
(* A marker beside the owner identity records what has been published.  A  *)
(* command that finds no marker requires every target to be absent; one    *)
(* that finds the marker of the same request is a retry, which accepts     *)
(* what is already there if it is exactly what the archive holds.  The     *)
(* marker goes last, through a quarantine name.                            *)
(*                                                                         *)
(* Several commands may run at once, for the same targets or for targets   *)
(* that share a state root; any of them may be killed between two steps;   *)
(* a directory sync may fail; the machine may lose power; and the owner    *)
(* may use the installation before it is complete.                         *)
(***************************************************************************)
EXTENDS DurableFiles, Sequences, SequencesExt, FiniteSets

CONSTANTS
    Procs,      \* restore commands
    Requests,   \* [dir, home, root : places, roles : Seq, reuse, drill : BOOLEAN]
    Original,   \* what the disk may hold before the first command
    Budgets     \* [attempts, faults, kills, losses, uses : Nat]

VARIABLES
    run,        \* [Procs -> what the command has read and where it is]
    lock,       \* the roots whose vault state some command holds locked
    result,     \* [Procs -> how the last attempt ended]
    spent,      \* what is used up of the budget
    opening     \* the first uses: [q, origin, done, alive], of what the owner found
                \* without local state and initializes, or died initializing

vars == <<disk, stable, run, lock, result, spent, opening>>

---------------------------------------------------------------------------------
(* Targets *)

IdentityDir(q) == <<"identities", q.dir>>
Marker(q) == <<"marker", IdentityDir(q)>>
Cleanup(q) == <<"cleanup", IdentityDir(q)>>
Owner(q) == <<"owner", IdentityDir(q)>>
RoleFile(q, role) == <<role, <<"roles", q.dir>>>>
Home(q) == <<"home", <<"homes", q.home>>>>
Vault(q) == <<"vault", <<"home", q.home>>>>
StateDir(q) == <<"lineage", <<"roots", q.root>>>>
Catalog(q) == <<"catalog", <<"state", q.root, "vault">>>>
StateFile(q, role, kind) == <<kind, <<"state", q.root, role>>>>

Kinds == <<"audit", "checkpoint", "receipts">>

\* The principal state files of one recovered identity, in publication order.
StateFilesOf(q, role) == [i \in 1..Len(Kinds) |-> StateFile(q, role, Kinds[i])]

\* What publish_recovered_state goes through: every identity, then the catalog.
StateFiles(q) ==
    Append(FlattenSeq([i \in 1..(1 + Len(q.roles)) |->
                           StateFilesOf(q, IF i = 1 THEN "owner" ELSE q.roles[i - 1])]),
           Catalog(q))

Targets(q) == {Owner(q), Vault(q)} \cup {RoleFile(q, q.roles[i]) : i \in DOMAIN q.roles}
                 \cup Range(StateFiles(q))

---------------------------------------------------------------------------------
(* Contents.  A sealed identity is random; local state depends on the       *)
(* timestamp the marker fixed.                                              *)

Foreign == <<"identity", "foreign">>
Sealed(serial) == <<"identity", "sealed", serial>>
FromBackup == <<"vault", "backup">>
Later == <<"vault", "later">>
RestoredState(time) == <<"state", "restored", time>>
FreshState == <<"state", "fresh">>
ResetState == <<"state", "reset">>
LaterState == <<"state", "later">>
BackupCatalog == <<"catalog", "backup">>

\* restored_local_files and the merged catalog, for one file of the state.
Recovered(q, file, time) == IF file = Catalog(q) THEN BackupCatalog ELSE RestoredState(time)

\* RestoreMarker: the request it belongs to, its time, and what is published.
NewMarker(q, time) ==
    [request |-> q, time |-> time, identity |-> q.reuse, roles |-> {}, vault |-> FALSE, state |-> FALSE]

MarkerFile(marker) == <<"marker", marker>>

---------------------------------------------------------------------------------
(* The command's bookkeeping *)

Idle == [pc |-> "idle"]

At(p, pc) == run[p].pc = pc
Goto(p, pc) == run' = [run EXCEPT ![p].pc = pc]
Spend(what) == /\ spent[what] < spent.budget[what]
               /\ spent' = [spent EXCEPT ![what] = @ + 1]

\* The command returns; the state lock, if it holds it, goes with it.
End(p, outcome) ==
    /\ run' = [run EXCEPT ![p] = Idle]
    /\ lock' = {l \in lock : l.holder # p}
    /\ result' = [result EXCEPT ![p] = outcome]

Refuse(p, outcome) == End(p, outcome) /\ UNCHANGED <<disk, stable, spent>>

\* A change of the disk whose directory sync did not happen: the sync failed,
\* and the command returns, or the command was killed before it.
Unsynced(p, outcome) == Spend("faults") /\ (End(p, outcome) \/ End(p, "killed"))

\* PreparedPrivateFile.publish, and what require_durable_restore_step makes
\* of its outcome: an unsynced publication ends the command.
Publish(p, path, content, next) ==
    \/ /\ Write(path, content, TRUE)
       /\ run' = [run EXCEPT ![p] = next]
       /\ UNCHANGED <<lock, result, spent>>
    \/ /\ Write(path, content, FALSE)
       /\ Unsynced(p, "unsynced")

\* The publication replaces what it finds.
MutPublishNew(p, path, content, next) == Publish(p, path, content, next)

\* PublicationPolicy::CreateNew: the rename never replaces.
PublishNew(p, path, content, next) ==
    IF Exists(path) THEN Refuse(p, "conflict") ELSE Publish(p, path, content, next)

\* write_marker with replace: whatever stands under the marker's name goes.
Note(p, marker, pc) ==
    Publish(p, Marker(run[p].q), MarkerFile(marker), [run[p] EXCEPT !.marker = marker, !.pc = pc])

---------------------------------------------------------------------------------
(* The steps of restore_archive_with_observer *)

\* preflight_new_restore_targets
Clear(q) ==
    /\ Exists(Owner(q)) = q.reuse
    /\ \A i \in DOMAIN q.roles : ~Exists(RoleFile(q, q.roles[i]))
    /\ ~Exists(Home(q))
    /\ ~Exists(StateDir(q))

\* The marker a retry would continue, from either of its names.
Prior(q) == IF Exists(Marker(q)) THEN disk[Marker(q)] ELSE disk[Cleanup(q)]

\* A retry goes on with the marker it found, and with that marker's time.
Continued(q, prior, time) == IF prior = Absent THEN NewMarker(q, time) ELSE prior[2]

\* Read the markers, and without one check that the targets are absent.
Look(p, q) ==
    LET prior == Prior(q)
        retry == prior # Absent
        time == spent.attempts + 1
        marker == Continued(q, prior, time)
        start == [pc |-> "open", q |-> q, retry |-> retry, marker |-> marker,
                  seen |-> Exists(Owner(q)), serial |-> time, owner |-> Absent, role |-> 1,
                  todo |-> <<>>]
    IN /\ At(p, "idle")
       /\ Spend("attempts")
       /\ UNCHANGED <<disk, stable>>
       /\ \/ /\ Exists(Marker(q)) /\ Exists(Cleanup(q))
             /\ End(p, "wedged")
          \/ /\ ~(Exists(Marker(q)) /\ Exists(Cleanup(q)))
             /\ IF \/ ~retry /\ ~Clear(q)
                   \/ marker.request # q
                THEN End(p, "refused")
                ELSE IF marker.identity /\ ~q.reuse /\ ~start.seen
                     THEN End(p, "conflict")
                     ELSE /\ run' = [run EXCEPT ![p] = start]
                          /\ result' = [result EXCEPT ![p] = "running"]
                          /\ UNCHANGED lock

\* Unlock the identity that is there, or seal the recovered one anew.
OpenIdentity(p) ==
    LET r == run[p]
        next == IF r.retry THEN "identity" ELSE "marker"
    IN /\ At(p, "open")
       /\ IF r.seen
          THEN IF disk[Owner(r.q)] = Foreign \/ (~r.q.reuse /\ ~r.retry)
               THEN Refuse(p, "refused")
               ELSE /\ run' = [run EXCEPT ![p].owner = disk[Owner(r.q)], ![p].pc = next]
                    /\ UNCHANGED <<disk, stable, lock, result, spent>>
          ELSE IF r.q.reuse
               THEN Refuse(p, "refused")
               ELSE /\ run' = [run EXCEPT ![p].owner = Sealed(r.serial), ![p].pc = next]
                    /\ UNCHANGED <<disk, stable, lock, result, spent>>

CreateMarker(p) ==
    /\ At(p, "marker")
    /\ PublishNew(p, Marker(run[p].q), MarkerFile(run[p].marker), [run[p] EXCEPT !.pc = "identity"])

PublishIdentity(p) ==
    /\ At(p, "identity")
    /\ IF run[p].seen
       THEN Goto(p, "noteIdentity") /\ UNCHANGED <<disk, stable, lock, result, spent>>
       ELSE PublishNew(p, Owner(run[p].q), run[p].owner, [run[p] EXCEPT !.pc = "noteIdentity"])

NoteIdentity(p) ==
    /\ At(p, "noteIdentity")
    /\ IF run[p].marker.identity
       THEN Goto(p, "role") /\ UNCHANGED <<disk, stable, lock, result, spent>>
       ELSE Note(p, [run[p].marker EXCEPT !.identity = TRUE], "role")

\* restore_additional_role_identity, once per role of the archive.
RestoreRole(p) ==
    LET r == run[p]
        role == r.q.roles[r.role]
        file == RoleFile(r.q, role)
    IN /\ At(p, "role")
       /\ r.role <= Len(r.q.roles)
       /\ IF Exists(file)
          THEN IF ~r.retry \/ disk[file] = Foreign
               THEN Refuse(p, "conflict")
               ELSE Goto(p, "noteRole") /\ UNCHANGED <<disk, stable, lock, result, spent>>
          ELSE IF role \in r.marker.roles
               THEN Refuse(p, "conflict")
               ELSE PublishNew(p, file, Sealed(r.serial), [r EXCEPT !.pc = "noteRole"])

NoteRole(p) ==
    LET r == run[p]
        role == r.q.roles[r.role]
    IN /\ At(p, "noteRole")
       /\ IF role \in r.marker.roles
          THEN /\ run' = [run EXCEPT ![p].role = @ + 1, ![p].pc = "role"]
               /\ UNCHANGED <<disk, stable, lock, result, spent>>
          ELSE LET marker == [r.marker EXCEPT !.roles = @ \cup {role}]
               IN Publish(p, Marker(r.q), MarkerFile(marker),
                          [r EXCEPT !.marker = marker, !.role = @ + 1, !.pc = "role"])

ReadVault(p) ==
    LET r == run[p]
    IN /\ At(p, "role")
       /\ r.role > Len(r.q.roles)
       /\ IF Exists(Vault(r.q))
          THEN IF disk[Vault(r.q)] # FromBackup \/ ~r.retry
               THEN Refuse(p, "conflict")
               ELSE Goto(p, "noteVault") /\ UNCHANGED <<disk, stable, lock, result, spent>>
          ELSE IF r.marker.vault
               THEN Refuse(p, "conflict")
               ELSE Goto(p, "home") /\ UNCHANGED <<disk, stable, lock, result, spent>>

\* ensure_detached_restore_home; a directory is durable once created.
MakeHome(p) ==
    LET r == run[p]
    IN /\ At(p, "home")
       /\ IF Exists(Home(r.q))
          THEN IF r.retry
               THEN Goto(p, "vault") /\ UNCHANGED <<disk, stable, lock, result, spent>>
               ELSE Refuse(p, "conflict")
          ELSE /\ Write(Home(r.q), <<"directory">>, TRUE)
               /\ Goto(p, "vault")
               /\ UNCHANGED <<lock, result, spent>>

PublishVault(p) ==
    /\ At(p, "vault")
    /\ PublishNew(p, Vault(run[p].q), FromBackup, [run[p] EXCEPT !.pc = "noteVault"])

NoteVault(p) ==
    /\ At(p, "noteVault")
    /\ IF run[p].marker.vault
       THEN Goto(p, "state") /\ UNCHANGED <<disk, stable, lock, result, spent>>
       ELSE Note(p, [run[p].marker EXCEPT !.vault = TRUE], "state")

\* publish_recovered_state, up to the lock: the state directory of the lineage.
OpenState(p) ==
    LET r == run[p]
        dir == StateDir(r.q)
    IN /\ At(p, "state")
       /\ IF Exists(dir)
          THEN IF r.q.drill /\ ~r.retry
               THEN Refuse(p, "conflict")
               ELSE Goto(p, "lock") /\ UNCHANGED <<disk, stable, lock, result, spent>>
          ELSE IF r.marker.state
               THEN Refuse(p, "conflict")
               ELSE /\ Write(dir, <<"directory">>, TRUE)
                    /\ Goto(p, "lock")
                    /\ UNCHANGED <<lock, result, spent>>

\* Under the lock, what is there must be what this transaction would write;
\* the rest is prepared, unless the marker says it was already published.
LockState(p) ==
    LET r == run[p]
        files == StateFiles(r.q)
        Missing(file) == ~Exists(file)
    IN /\ At(p, "lock")
       /\ IF \/ \E l \in lock : l.root = r.q.root
             \/ \E i \in DOMAIN files : \/ Missing(files[i]) /\ r.marker.state
                                        \/ ~Missing(files[i]) /\ disk[files[i]] # Recovered(r.q, files[i], r.marker.time)
          THEN Refuse(p, IF \E l \in lock : l.root = r.q.root THEN "busy" ELSE "conflict")
          ELSE /\ lock' = lock \cup {[root |-> r.q.root, holder |-> p]}
               /\ run' = [run EXCEPT ![p].todo = SelectSeq(files, Missing), ![p].pc = "publish"]
               /\ UNCHANGED <<disk, stable, result, spent>>

PublishState(p) ==
    LET r == run[p]
    IN /\ At(p, "publish")
       /\ r.todo # <<>>
       /\ PublishNew(p, Head(r.todo), Recovered(r.q, Head(r.todo), r.marker.time),
                     [r EXCEPT !.todo = Tail(@)])

UnlockState(p) ==
    /\ At(p, "publish")
    /\ run[p].todo = <<>>
    /\ lock' = {l \in lock : l.holder # p}
    /\ Goto(p, "noteState")
    /\ UNCHANGED <<disk, stable, result, spent>>

NoteState(p) ==
    /\ At(p, "noteState")
    /\ IF run[p].marker.state
       THEN Goto(p, "validate") /\ UNCHANGED <<disk, stable, lock, result, spent>>
       ELSE Note(p, [run[p].marker EXCEPT !.state = TRUE], "validate")

\* The installation is read back, and validate_restored_state_publication.
Validate(p) ==
    LET r == run[p]
        files == StateFiles(r.q)
    IN /\ At(p, "validate")
       /\ IF /\ disk[Owner(r.q)] = r.owner
             /\ disk[Vault(r.q)] = FromBackup
             /\ \A i \in DOMAIN files : disk[files[i]] = Recovered(r.q, files[i], r.marker.time)
          THEN Goto(p, "cleanup") /\ UNCHANGED <<disk, stable, lock, result, spent>>
          ELSE Refuse(p, "conflict")

---------------------------------------------------------------------------------
(* cleanup_private_file_if_exact *)

Report(p, removed) == End(p, IF removed THEN "committed" ELSE "uncleaned")

CheckMarker(p) ==
    LET r == run[p]
        expected == MarkerFile(r.marker)
        quarantined == Exists(Cleanup(r.q))
    IN /\ At(p, "cleanup")
       /\ UNCHANGED <<disk, stable, spent>>
       /\ IF \/ quarantined /\ (disk[Cleanup(r.q)] # expected \/ Exists(Marker(r.q)))
             \/ ~quarantined /\ disk[Marker(r.q)] # expected
          THEN Report(p, FALSE)
          ELSE /\ Goto(p, IF quarantined THEN "unlink" ELSE "quarantine")
               /\ UNCHANGED <<lock, result>>

QuarantineMarker(p) ==
    LET q == run[p].q
    IN /\ At(p, "quarantine")
       /\ UNCHANGED spent
       /\ IF Exists(Cleanup(q)) \/ ~Exists(Marker(q))
          THEN Report(p, FALSE) /\ UNCHANGED <<disk, stable>>
          ELSE Rename(Marker(q), Cleanup(q)) /\ Goto(p, "verify") /\ UNCHANGED <<lock, result>>

\* A marker that was replaced before the rename goes back under its name.
VerifyQuarantine(p) ==
    LET r == run[p]
    IN /\ At(p, "verify")
       /\ UNCHANGED spent
       /\ IF disk[Cleanup(r.q)] = MarkerFile(r.marker)
          THEN Goto(p, "unlink") /\ UNCHANGED <<disk, stable, lock, result>>
          ELSE /\ Report(p, FALSE)
               /\ IF Exists(Cleanup(r.q)) /\ ~Exists(Marker(r.q))
                  THEN Rename(Cleanup(r.q), Marker(r.q))
                  ELSE UNCHANGED <<disk, stable>>

RemoveQuarantine(p) ==
    LET cleanup == Cleanup(run[p].q)
    IN /\ At(p, "unlink")
       /\ \/ Exists(cleanup) /\ Unlink(cleanup, TRUE) /\ Report(p, TRUE) /\ UNCHANGED spent
          \/ Exists(cleanup) /\ Unlink(cleanup, FALSE) /\ Unsynced(p, "uncleaned")
          \/ ~Exists(cleanup) /\ Report(p, FALSE) /\ UNCHANGED <<disk, stable, spent>>

---------------------------------------------------------------------------------
(* The environment *)

\* The lock file a killed command leaves behind is removed by the operator
\* before anyone else comes for it.
Kill(p) ==
    /\ ~At(p, "idle")
    /\ Spend("kills")
    /\ End(p, "killed")
    /\ UNCHANGED <<disk, stable>>

\* The first uses that have published a file.
Begun == {u \in opening : u.done > 0}

LosePower ==
    /\ Spend("losses")
    /\ PowerLoss
    /\ lock' = {}
    /\ result' = [p \in Procs |-> IF At(p, "idle") THEN result[p] ELSE "killed"]
    /\ run' = [p \in Procs |-> Idle]
    /\ opening' = {[u EXCEPT !.alive = FALSE] : u \in Begun}

Openable(q) == Exists(Vault(q)) /\ Exists(Owner(q)) /\ disk[Owner(q)] # Foreign

\* Files published and synced by someone else.
Change(content) ==
    /\ disk' = [path \in DOMAIN disk |-> IF path \in DOMAIN content THEN content[path] ELSE disk[path]]
    /\ stable' = [path \in DOMAIN disk |-> IF path \in DOMAIN content THEN content[path] ELSE stable[path]]

\* The owner opens the vault: a principal without any local state is taken
\* for a first use.  The look is not made under the state lock.
ProbeVault(q) ==
    /\ Spend("uses")
    /\ Openable(q)
    /\ \A file \in Range(StateFilesOf(q, "owner")) : ~Exists(file)
    /\ opening' = opening \cup {[q |-> q, origin |-> Absent, done |-> 0, alive |-> TRUE]}
    /\ UNCHANGED <<disk, stable, run, lock, result>>

\* A first use ends; what is left of it is remembered.
FirstUseOver(u, rest) ==
    /\ opening' = (opening \ {u}) \cup rest
    /\ lock' = {l \in lock : u.origin # Absent => l.holder # u.q}

\* initialize_principal_state, up to the lock, without a second look at the
\* files: what is there by now is reset.
LockFirstUse(u) ==
    LET q == u.q
        found == \E file \in Range(StateFilesOf(q, "owner")) : Exists(file)
    IN /\ u.origin = Absent
       /\ Change([path \in {StateDir(q)} |-> <<"directory">>])
       /\ IF \E l \in lock : l.root = q.root
          THEN FirstUseOver(u, {})
          ELSE /\ lock' = lock \cup {[root |-> q.root, holder |-> q]}
               /\ opening' = (opening \ {u}) \cup {[u EXCEPT !.origin = IF found THEN ResetState ELSE FreshState]}
       /\ UNCHANGED <<run, result, spent>>

\* Its three publications, one by one; an unsynced one ends it.
PublishFirstUse(u) ==
    LET done == u.done + 1
        file == StateFilesOf(u.q, "owner")[done]
    IN /\ u.origin # Absent /\ u.alive
       /\ \/ /\ Write(file, u.origin, TRUE)
             /\ IF done = Len(Kinds)
                THEN FirstUseOver(u, {})
                ELSE opening' = (opening \ {u}) \cup {[u EXCEPT !.done = done]} /\ UNCHANGED lock
             /\ UNCHANGED spent
          \/ /\ Write(file, u.origin, FALSE)
             /\ Spend("faults")
             /\ FirstUseOver(u, {[u EXCEPT !.done = done, !.alive = FALSE]})
       /\ UNCHANGED <<run, result>>

KillFirstUse(u) ==
    /\ u.alive
    /\ Spend("kills")
    /\ FirstUseOver(u, {[v EXCEPT !.alive = FALSE] : v \in {u} \cap Begun})
    /\ UNCHANGED <<disk, stable, run, result>>

\* The owner commits to the vault, whose local state is complete and verifies.
CommitToVault(q) ==
    /\ Spend("uses")
    /\ Openable(q)
    /\ \A file \in Range(StateFilesOf(q, "owner")) : Exists(file)
    /\ disk[StateFile(q, "owner", "audit")] = disk[StateFile(q, "owner", "checkpoint")]
    /\ ~\E l \in lock : l.root = q.root
    /\ Change([path \in {Vault(q), StateFile(q, "owner", "audit"), StateFile(q, "owner", "checkpoint")} |->
                   IF path = Vault(q) THEN Later ELSE LaterState])
    /\ UNCHANGED <<run, lock, result, opening>>

---------------------------------------------------------------------------------
Step(p) ==
    \/ OpenIdentity(p) \/ CreateMarker(p) \/ PublishIdentity(p) \/ NoteIdentity(p)
    \/ RestoreRole(p) \/ NoteRole(p) \/ ReadVault(p) \/ MakeHome(p) \/ PublishVault(p)
    \/ NoteVault(p) \/ OpenState(p) \/ LockState(p) \/ PublishState(p) \/ UnlockState(p)
    \/ NoteState(p) \/ Validate(p) \/ CheckMarker(p) \/ QuarantineMarker(p)
    \/ VerifyQuarantine(p) \/ RemoveQuarantine(p)

FirstUse(u) == LockFirstUse(u) \/ PublishFirstUse(u) \/ KillFirstUse(u)

Use(q) == ProbeVault(q) \/ CommitToVault(q) \/ \E u \in opening : u.q = q /\ FirstUse(u)

RestorePaths == UNION {Targets(q) \cup {Marker(q), Cleanup(q), Home(q), StateDir(q)} : q \in Requests}

Start(found, budget) ==
    /\ disk = [path \in RestorePaths |-> IF path \in DOMAIN found THEN found[path] ELSE Absent]
    /\ stable = disk
    /\ run = [p \in Procs |-> Idle]
    /\ lock = {}
    /\ result = [p \in Procs |-> "none"]
    /\ opening = {}
    /\ spent = [attempts |-> 0, faults |-> 0, kills |-> 0, losses |-> 0, uses |-> 0, budget |-> budget]

Init == \E found \in Original, budget \in Budgets : Start(found, budget)

Next ==
    \/ UNCHANGED opening /\ \E p \in Procs : Step(p) \/ Kill(p) \/ \E q \in Requests : Look(p, q)
    \/ LosePower
    \/ \E q \in Requests : Use(q)

Spec == Init /\ [][Next]_vars

---------------------------------------------------------------------------------
(* What restore promises *)

\* The whole installation stands: the archive's contents, or what the owner
\* made of them since.
Complete(q) ==
    /\ Exists(Owner(q)) /\ disk[Owner(q)] # Foreign
    /\ \A i \in DOMAIN q.roles : Exists(RoleFile(q, q.roles[i]))
    /\ disk[Vault(q)] \in {FromBackup, Later}
    /\ \A file \in Range(StateFiles(q)) : Exists(file) /\ disk[file] # FreshState

Success == {"committed", "uncleaned"}

(* Restore never overwrites a vault, an identity or local state: whatever   *)
(* stands under a target's name when a restore step is taken stands there   *)
(* after it, however many restores run and wherever they are interrupted.   *)
NeverOverwrites ==
    [][spent'.uses = spent.uses /\ spent'.losses = spent.losses /\ opening' = opening =>
           \A q \in Requests : \A path \in Targets(q) : Exists(path) => disk'[path] = disk[path]]_vars

(* A restore that reports success leaves the whole installation in place:   *)
(* never a vault whose local state is missing or was begun by a first use   *)
(* before it.  (State that a first use, having looked before, overwrites    *)
(* after its publication is ResetState: see MutationCommit.)                *)
SuccessIsWhole ==
    [][\A p \in Procs : run[p] # Idle /\ run'[p] = Idle /\ result'[p] \in Success => Complete(run[p].q)]_vars

(* Once the marker is durably gone, the owner identity is durably there,    *)
(* whatever syncs were missed on the way; and if none was missed, the whole *)
(* installation would survive a power loss.                                 *)
SuccessIsDurable ==
    [][\A p \in Procs : run[p] # Idle /\ run'[p] = Idle /\ result'[p] = "committed" =>
           \A path \in Targets(run[p].q) :
               path = Owner(run[p].q) \/ spent'.faults = 0 => stable'[path] # Absent]_vars

(* recovery.md: restore "removes the marker after the identity, vault, and  *)
(* local state are all durably published".                                  *)
MarkerOutlivesDoubt ==
    [][\A p \in Procs : run[p] # Idle /\ run'[p] = Idle /\ result'[p] = "committed" =>
           \A path \in Targets(run[p].q) : stable'[path] # Absent]_vars

(* The local state of one principal has one origin: restores that raced or  *)
(* died half way, and first uses in between, never leave files of different *)
(* origins side by side.  The exception is a first use that looked before   *)
(* the restore published its state and is between two of its files, or      *)
(* ended there or with a file unsynced (initialize_principal_state          *)
(* publishes them one by one): what it has not replaced is the restored     *)
(* state still.                                                             *)
OneOrigin ==
    \A q \in Requests : \A file, other \in Range(StateFilesOf(q, "owner")) :
        Exists(file) /\ Exists(other) =>
            \/ LaterState \in {disk[file], disk[other]}
            \/ disk[file] = disk[other]
            \/ /\ ResetState \in {disk[file], disk[other]}
               /\ \E u \in Begun : u.q.root = q.root /\ u.origin = ResetState
=================================================================================
