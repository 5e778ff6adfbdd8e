-------------------------------- MODULE MCFiles --------------------------------
(***************************************************************************)
(* The commands that bring a vault into a home over several directories:   *)
(* restore, rollover, and the first installation.  They share no files: in *)
(* a behaviour one of them runs, and the others rest in an initial state.  *)
(***************************************************************************)
EXTENDS MCBackupRestore, TLC

CONSTANTS r1, r2, w1, w2,
          Rollovers, Candidates, Destinations, RolloverScenes,
          Importers, RegisteredFrom, Weakening, PolicyOf, InstallScenes,
          Parts                   \* the commands among which a behaviour chooses

VARIABLES part,
          newDisk, newStable, command, source, locked, basis, registered, toll,
          homeDisk, homeStable, installer, editLock, stamp, usable, creates, installed, undone,
          allowance

Rollover == INSTANCE RolloverPublication WITH disk <- newDisk, stable <- newStable
Installation == INSTANCE VaultInstallation WITH disk <- homeDisk, stable <- homeStable

---------------------------------------------------------------------------------
\* The commands at work, the witnesses of the destination, and the mishaps.
RolloverScene(commands, witnesses, faults, kills, losses, commits) ==
    [commands |-> commands, witnesses |-> witnesses,
     faults |-> faults, kills |-> kills, losses |-> losses, commits |-> commits]

MCRolloverScenes ==
    {RolloverScene({r1}, {}, 1, 1, 1, 1), RolloverScene({r1}, {w1}, 1, 1, 1, 0),
     RolloverScene({r1}, {w1, w2}, 1, 0, 1, 0), RolloverScene({r1, r2}, {}, 0, 1, 0, 0),
     RolloverScene({r1, r2}, {w1}, 0, 0, 0, 1)}

\* Three revisions on one line and two on others, one of which weakens.
R0 == <<>>
R1 == <<"a">>
R2 == <<"a", "b">>
RX == <<"x">>
RY == <<"y">>

T1 == [revision |-> R1, at |-> 1]
T1b == [revision |-> R1, at |-> 2]
T2 == [revision |-> R2, at |-> 2]
TX == [revision |-> RX, at |-> 1]
TY == [revision |-> RY, at |-> 1]

MCPolicyOf == R0 :> {} @@ R1 :> {1} @@ R2 :> {1, 2} @@ RX :> {3} @@ RY :> {1}
MCWeakening == {<<R0, RX>>}

InstallScene(commands, transfers, snapshot, create, kills, faults, losses) ==
    [commands |-> commands, transfers |-> transfers, snapshot |-> snapshot, create |-> create,
     kills |-> kills, faults |-> faults, losses |-> losses]

MCInstallScenes ==
    {InstallScene({p1, p2}, {T1, T2}, Absent, FALSE, 1, 1, 0),
     InstallScene({p1, p2}, {T1, TX}, Absent, TRUE, 1, 0, 0),
     InstallScene({p1}, {T1, T1b, T2, TX}, Absent, TRUE, 1, 1, 1),
     InstallScene({p1}, {T1, T1b, T2, TX}, R0, FALSE, 1, 1, 1),
     InstallScene({p1, p2}, {T1, T2}, R0, FALSE, 0, 0, 0),
     InstallScene({p1, p2}, {T2}, R0, FALSE, 1, 0, 0),
     InstallScene({p1, p2}, {T1, TY}, R0, FALSE, 0, 1, 0),
     InstallScene({p1}, {T1}, Absent, FALSE, 2, 1, 1),
     InstallScene({p1, p2}, {T1}, Absent, FALSE, 1, 1, 0)}

---------------------------------------------------------------------------------
restoreVars == <<vars, scenario>>
rolloverVars == <<newDisk, newStable, command, source, locked, basis, registered, toll>>
installVars == <<homeDisk, homeStable, installer, editLock, stamp, usable, creates, installed, undone,
                 allowance>>
allVars == <<part, restoreVars, rolloverVars, installVars>>

\* At rest nobody has asked for the command.
Unasked == MCScenario([p \in {} |-> Plain], Empty, Budget(0, 0, 0, 0, 0))

FilesInit ==
    /\ part \in Parts
    /\ IF part = "restore" THEN MCInit
       ELSE scenario = Unasked /\ Start(Unasked.found, Unasked.budget)
    /\ IF part = "rollover" THEN Rollover!RolloverInit
       ELSE Rollover!RolloverStart(RolloverScene({}, {}, 0, 0, 0, 0))
    /\ IF part = "installation" THEN Installation!InstallInit
       ELSE Installation!InstallStart(InstallScene({}, {}, Absent, FALSE, 0, 0, 0))

FilesNext ==
    /\ UNCHANGED part
    /\ \/ MCNext /\ UNCHANGED <<rolloverVars, installVars>>
       \/ Rollover!RolloverNext /\ UNCHANGED <<restoreVars, installVars>>
       \/ Installation!InstallNext /\ UNCHANGED <<restoreVars, rolloverVars>>

\* The fairness of each command, of the part that runs.
FilesSpec ==
    /\ FilesInit /\ [][FilesNext]_allVars
    /\ \A p \in Procs : WF_restoreVars(part = "restore" /\ p \in DOMAIN scenario.asks /\ MCCommand(p))
    /\ \A p \in Rollovers : /\ WF_rolloverVars(part = "rollover" /\ Rollover!RolloverStep(p))
                            /\ WF_rolloverVars(part = "rollover" /\ Rollover!ResumeRollover(p))
    /\ WF_rolloverVars(part = "rollover" /\ Rollover!RemoveStaleLock)
    /\ \A p \in Importers : /\ WF_installVars(part = "installation" /\ Installation!InstallStep(p))
                            /\ SF_installVars(part = "installation" /\ Installation!BeginImport(p))
    /\ WF_installVars(part = "installation" /\ Installation!ClearLock)

---------------------------------------------------------------------------------
(* What the commands promise *)

\* A restore puts its files only where nothing stood, and success means that
\* the whole installation is in place and, short of a failed sync, durable
\* (restore_archive_with_observer, with two commands, kills, a power loss and
\* an owner who uses the vault in between).
RestoreFaithful == NeverOverwrites /\ SuccessIsWhole /\ SuccessIsDurable /\ []OneOrigin

\* Whoever can read the new home finds all of the rollover there, durably and
\* at every witness, and a copy of the last revision the source committed
\* (publish, resume and lock_current_source of vault rollover).
RolloverWhole ==
    [][Rollover!ReadableIsComplete' /\ Rollover!NoCommitLeftBehind]_rolloverVars

\* A vault that transfer import or vault init has put into the home can be
\* opened by the principal who did, and the revision the principal accepted
\* only moves forward, however imports into an empty home interleave and are
\* interrupted.  Over a snapshot the same holds until two imports both find
\* no state and one initializes it over the other's.
InstallationWhole ==
    [][Installation!InstalledHasState' /\ Installation!RetainedForward]_installVars

Interrupted == scenario \in MCRepeats \/ Rollover!Resumable \/ Installation!Awaited

Completed ==
    CASE part = "restore" -> Restored
      [] part = "rollover" -> Rollover!Resumed
      [] part = "installation" -> Installation!Exists(Installation!VaultFile)

\* Repeating what was interrupted finishes it: the restore, the rollover once
\* its control files are durable, and the first installation of one transfer;
\* and a restore that is repeated alone is not turned away before its end.
RetriesComplete ==
    /\ []RetryAccepted
    /\ Interrupted ~> Completed
=================================================================================
