----------------------------- MODULE MCOwnedProcess -----------------------------
(***************************************************************************)
(* OwnedProcess for TLC.  Each call below gives the environment leave for  *)
(* one kind of trouble (the budgets forks, moves, thefts, faults, signals, *)
(* bytes, closes), so that the state spaces of the kinds add up.           *)
(***************************************************************************)
EXTENDS OwnedProcess

CONSTANTS leader1, kid1, kid2

MCKids == {kid1, kid2}

MCSymbols == {"s", "t"}

\* Two secrets, one a prefix of the other, which also overlap themselves.
MCSecrets == {<<"s", "t">>, <<"s", "t", "s", "s">>}

Quiet ==
    [mode |-> "output", bounded |-> TRUE, strict |-> FALSE, limit |-> 5, secrets |-> {}, stdin |-> 0,
     forks |-> 0, moves |-> 0, thefts |-> 0, faults |-> 0, signals |-> 0, bytes |-> 0, closes |-> 0]

\* Descendants that leave and come back; a waiter that takes the status; any
\* one system call failing, in a call and in an interaction; input that the
\* child reads, or closes; output with secrets, and with a limit.
Descendants == [Quiet EXCEPT !.forks = 2, !.moves = 2, !.signals = 1]
Theft == [Quiet EXCEPT !.forks = 1, !.thefts = 1, !.faults = 1, !.signals = 1]
Unbounded == [Quiet EXCEPT !.bounded = FALSE, !.forks = 1, !.thefts = 1]
Interaction == [Quiet EXCEPT !.mode = "interaction", !.forks = 1, !.thefts = 1, !.faults = 1]
Protected == [Quiet EXCEPT !.stdin = 2, !.forks = 1, !.faults = 1, !.closes = 1]
Secret == [Quiet EXCEPT !.secrets = MCSecrets, !.bytes = 5]
Broken == [Quiet EXCEPT !.secrets = MCSecrets, !.bytes = 3, !.faults = 1]
Limited == [Quiet EXCEPT !.secrets = MCSecrets, !.bytes = 3, !.limit = 1, !.forks = 1, !.moves = 1]
Strict == [Limited EXCEPT !.strict = TRUE]

MCAsks == {Descendants, Theft, Unbounded, Interaction, Protected, Secret, Broken, Limited, Strict}

MCStdinAsks == {[Protected EXCEPT !.faults = 0, !.closes = 0]}
=================================================================================
