------------------------------ MODULE DurableFiles ------------------------------
(***************************************************************************)
(* The private files that multi-step publications write: what every        *)
(* process sees (disk) and what would survive a power loss (stable).       *)
(*                                                                         *)
(* A prepared file reaches its name by one rename and is durable once the  *)
(* parent directory has been synced; a failed sync leaves it visible but   *)
(* not durable (PublishedButParentUnsynced), and a later sync of the same  *)
(* directory, by any publication or removal in it, makes it durable.       *)
(* A path is <<name, directory>>; every content is a tuple.                *)
(***************************************************************************)
EXTENDS Naturals

VARIABLES disk, stable      \* functions of the same paths

Absent == <<"absent">>

Directory(path) == path[2]

Exists(path) == disk[path] # Absent

\* sync_parent: everything visible in the directory becomes durable.
SyncedIn(dir, view) ==
    [path \in DOMAIN disk |-> IF Directory(path) = dir THEN view[path] ELSE stable[path]]

\* The rename of a prepared file over its name, and the sync that follows it.
Write(path, content, synced) ==
    /\ disk' = [disk EXCEPT ![path] = content]
    /\ stable' = IF synced THEN SyncedIn(Directory(path), disk') ELSE stable

\* rename_noreplace from one name of a directory to another, without a sync.
Rename(from, to) ==
    /\ disk' = [disk EXCEPT ![from] = Absent, ![to] = disk[from]]
    /\ UNCHANGED stable

Unlink(path, synced) == Write(path, Absent, synced)

\* A power loss: what was not synced may be lost, directory by directory (the
\* changes of one directory are journalled together).
PowerLoss ==
    \E lost \in SUBSET {Directory(path) : path \in {p \in DOMAIN disk : disk[p] # stable[p]}} :
        /\ disk' = [path \in DOMAIN disk |-> IF Directory(path) \in lost THEN stable[path] ELSE disk[path]]
        /\ stable' = disk'
=================================================================================
