-------------------------- MODULE DecisionRegister --------------------------
(***************************************************************************)
(* What a witness promises about a request: it may hold the request open,  *)
(* it gives it at most one decision, only a request it held open can be    *)
(* approved, and a request it has dropped or decided stays so whatever is  *)
(* cleaned up afterwards.  One step may settle several requests at once.   *)
(***************************************************************************)
CONSTANT Requests

VARIABLES held,         \* the requests waiting for a decision
          decision      \* the decision given to each request

Outcomes == {"Approved", "Denied", "Cancelled"}

Init == /\ held = {}
        /\ decision = [q \in Requests |-> "none"]

Hold(q) == /\ decision[q] = "none"
           /\ q \notin held /\ q \in held'
           /\ decision'[q] = "none"

Decide(q) == /\ decision[q] = "none"
             /\ decision'[q] \in Outcomes
             /\ decision'[q] = "Approved" => q \in held
             /\ q \notin held'

Drop(q) == /\ q \in held /\ q \notin held'
           /\ decision'[q] = decision[q]

Keep(q) == /\ q \in held' <=> q \in held
           /\ decision'[q] = decision[q]

Next == /\ held' \subseteq Requests
        /\ decision' \in [Requests -> Outcomes \union {"none"}]
        /\ \A q \in Requests : Hold(q) \/ Decide(q) \/ Drop(q) \/ Keep(q)

Spec == Init /\ [][Next]_<<held, decision>>
=============================================================================
