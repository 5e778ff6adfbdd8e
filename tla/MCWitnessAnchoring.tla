-------------------------- MODULE MCWitnessAnchoring --------------------------
(***************************************************************************)
(* An instance of WitnessAnchoring for TLC.  Two of the three processes    *)
(* act in a behaviour: either two that share one file, or two with a file  *)
(* each, of which the second exists once a backup is restored to it.       *)
(***************************************************************************)
EXTENDS WitnessAnchoring, TLC

CONSTANTS a, b,               \* two operations
          p1, p2, p3,         \* processes
          f1, f2              \* two files

VARIABLE acting               \* the processes that run

MCFileOf == p1 :> f1 @@ p2 :> f1 @@ p3 :> f2

\* Operations are interchangeable: no step or property names one.
OpSymmetry == Permutations({a, b})

MCInit == Init /\ acting \in {{p1, p2}, {p1, p3}}

MCNext ==
  /\ UNCHANGED acting
  /\ \/ \E p \in acting : \/ \E op \in Ops \cup {Query} : Begin(p, op)
                          \/ Advance(p)
                          \/ Fail(p)
     \/ \E swap \in late : LateCas(swap)
     \/ p3 \in acting /\ \E c \in Copies : Backup(c) \/ Restore(c)

MCSpec == MCInit /\ [][MCNext]_<<vars, acting>>
===============================================================================
