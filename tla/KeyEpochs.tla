----------------------------- MODULE KeyEpochs -----------------------------
(***************************************************************************)
(* What a vault policy promises about the keys of its items.  Every key    *)
(* epoch of an item fixes one set of readers, and the key of that epoch is *)
(* sealed to no one else.  The readers change only with a move to the next *)
(* epoch; an item that is retired never returns, and neither does its      *)
(* identifier.  One policy revision may move several items at once.        *)
(***************************************************************************)
EXTENDS Naturals

CONSTANTS Items, People

VARIABLE keys    \* the key of each item: its epoch, its readers, its holders

Status == {"unborn", "live", "retired"}
Key == [status : Status, epoch : Nat, readers : SUBSET People,
        holders : SUBSET People]

Unborn == [status |-> "unborn", epoch |-> 0, readers |-> {}, holders |-> {}]
Retired == [status |-> "retired", epoch |-> 0, readers |-> {}, holders |-> {}]

Init == keys = [i \in Items |-> Unborn]

\* The item is live at epoch e, and only its readers hold the key.
SealedAt(i, e) == /\ keys'[i].status = "live"
                  /\ keys'[i].epoch = e
                  /\ keys'[i].holders \subseteq keys'[i].readers

Keep(i) == keys'[i] = keys[i]

Create(i) == keys[i] = Unborn /\ SealedAt(i, 1)

Rotate(i) == keys[i].status = "live" /\ SealedAt(i, keys[i].epoch + 1)

Retire(i) == keys[i] # Retired /\ keys'[i] = Retired

Next == /\ keys' \in [Items -> Key]
        /\ \A i \in Items : Keep(i) \/ Create(i) \/ Rotate(i) \/ Retire(i)

Spec == Init /\ [][Next]_keys
=============================================================================
