----------------------------- MODULE AnchoredLog -----------------------------
(***************************************************************************)
(* What a witness promises whoever relies on its answers, with no mention  *)
(* of databases, candidates, compare-and-swap or crashes: there is one     *)
(* history of operations, it only grows, and an answer is only ever given  *)
(* about a history that already is the (anchored) history or a part of it. *)
(***************************************************************************)
EXTENDS Sequences, Naturals

CONSTANT Ops                  \* the state changes a witness can record

VARIABLES history,            \* the one anchored history
          answered            \* the histories some answer was given about

vars == <<history, answered>>

Parts(h) == {SubSeq(h, 1, n) : n \in 0..Len(h)}

Init == history = <<>> /\ answered = {}

\* One more operation becomes part of the history.
Extend == /\ \E op \in Ops : history' = Append(history, op)
          /\ UNCHANGED answered

\* An answer is given about a part of the history.
Answer == /\ \E h \in Parts(history) : answered' = answered \cup {h}
          /\ UNCHANGED history

Next == Extend \/ Answer

Spec == Init /\ [][Next]_vars
==============================================================================
