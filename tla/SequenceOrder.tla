--------------------------- MODULE SequenceOrder ----------------------------
(***************************************************************************)
(* The two sequence helpers of FieldDelivery and RolloverBootstrap, with   *)
(* their folds written as recursive functions so that the prover can       *)
(* reason about the modules that use them.                                 *)
(***************************************************************************)
EXTENDS Integers, Sequences, FiniteSets

\* The sequences of a sequence, one after the other.
Joined(parts) ==
  LET join[n \in 0 .. Len(parts)] == IF n = 0 THEN <<>> ELSE join[n - 1] \o parts[n]
  IN  join[Len(parts)]

\* A finite set of numbers in ascending order, as a BTreeMap iterates its keys.
InOrder(S) ==
  [n \in 1 .. Cardinality(S) |-> CHOOSE x \in S : Cardinality({y \in S : y < x}) = n - 1]
=============================================================================
