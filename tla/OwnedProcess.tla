------------------------------ MODULE OwnedProcess ------------------------------
(***************************************************************************)
(* One supervised command: a child that leads a process group of its own,  *)
(* the loop that feeds its standard input, drains its output and watches   *)
(* it, and the clean-up that ends the whole group before the call returns. *)
(*                                                                         *)
(* The group is known by a number.  The number is the group's as long as   *)
(* the leader's wait status has not been consumed; the supervisor consumes *)
(* it when it reaps the leader, but another waiter of the same program may *)
(* consume it first, and the system may then give the number to another    *)
(* group.  Descendants fork, leave the group (keeping the output open),    *)
(* come back, and die only some time after they were killed.               *)
(*                                                                         *)
(* Sleeping and the passing of time are the steps Expire and Lapse; the    *)
(* macOS backend is left out.                                              *)
(***************************************************************************)
EXTENDS Naturals, Sequences, FiniteSets, StreamingRedaction

CONSTANTS
    Leader,     \* the direct child
    Kids,       \* descendants
    Symbols,    \* what output is made of
    Asks        \* the calls

ASSUME LeaderAssumption == Leader \notin Kids

VARIABLES
    ask,        \* the call
    pc,         \* where the supervisor stands
    leader,     \* "none", "running", "exited" (unreaped), "reaped", "stolen"
    group,      \* the live descendants in the leader's group
    outside,    \* the live descendants that left it
    struck,     \* who has a SIGKILL pending
    joined,     \* who joined the group since the last scan of it began
    reused,     \* the number now belongs to another group
    thief,      \* where the supervisor stood when another waiter took the status
    hits,       \* where signals were sent from that reached that other group
    pinned,     \* process_group is Some
    scan,       \* [todo : the processes not yet inspected, proofs : 0..2]
    expired,    \* the deadlines that have passed: "run", "cleanup", "drain"
    failure,    \* what ended the supervision: "exited", or a failure
    trouble,    \* the clean-up has failed
    input,      \* protected standard input: [unsent, inPipe : Nat, closed : BOOLEAN]
    output,     \* what the processes wrote, what is still in the pipe, what the
                \* redactor holds back, what was captured, how the reader ended
    left,       \* what the environment may still do
    result      \* what the call returned

supervisor == <<pc, pinned, scan, failure, trouble, result>>
family == <<leader, group, outside, struck, joined, reused, thief, hits>>
vars == <<ask, supervisor, family, expired, input, output, left>>

PipeRoom == 1

---------------------------------------------------------------------------------
(* The family of processes *)

Alive == group \cup outside \cup (IF leader = "running" THEN {Leader} ELSE {})
Members == group \cup (IF leader = "running" THEN {Leader} ELSE {})

Use(what) == left[what] > 0 /\ left' = [left EXCEPT ![what] = @ - 1]

Fork(parent, kid) ==
    /\ Use("forks")
    /\ parent \in Alive \ struck /\ kid \in Kids \ Alive
    /\ IF parent \in outside
       THEN outside' = outside \cup {kid} /\ UNCHANGED <<group, joined>>
       ELSE group' = group \cup {kid} /\ joined' = joined \cup {kid} /\ UNCHANGED outside
    /\ UNCHANGED <<ask, supervisor, leader, struck, reused, thief, hits, expired, input, output>>

\* setpgid, of a descendant that is not yet killed.
Leave(kid) ==
    /\ Use("moves")
    /\ kid \in group \ struck
    /\ group' = group \ {kid} /\ outside' = outside \cup {kid}
    /\ UNCHANGED <<ask, supervisor, leader, struck, joined, reused, thief, hits, expired, input, output>>

Rejoin(kid) ==
    /\ Use("moves")
    /\ kid \in outside /\ ~reused
    /\ leader \in {"running", "exited"} \/ group # {}
    /\ outside' = outside \ {kid} /\ group' = group \cup {kid} /\ joined' = joined \cup {kid}
    /\ UNCHANGED <<ask, supervisor, leader, struck, reused, thief, hits, expired, input, output>>

Die(who) ==
    /\ who \in Alive
    /\ group' = group \ {who} /\ outside' = outside \ {who}
    /\ leader' = IF who = Leader THEN "exited" ELSE leader
    /\ struck' = struck \ {who} /\ joined' = joined \ {who}
    /\ UNCHANGED <<ask, supervisor, reused, thief, hits, expired, input, output, left>>

\* Another waiter of the program consumes the leader's status.
Steal ==
    /\ Use("thefts")
    /\ leader = "exited"
    /\ leader' = "stolen" /\ thief' = pc
    /\ UNCHANGED <<ask, supervisor, group, outside, struck, joined, reused, hits, expired, input, output>>

\* The number of a group without processes may be given out again.
Recycle ==
    /\ leader = "stolen" /\ group = {} /\ ~reused
    /\ reused' = TRUE
    /\ UNCHANGED <<ask, supervisor, leader, group, outside, struck, joined, thief, hits, expired, input, output, left>>

Produce ==
    /\ Use("bytes")
    /\ Alive # {} /\ output.reader = "open"
    /\ \E symbol \in Symbols :
           output' = [output EXCEPT !.queued = Append(@, symbol), !.produced = Append(@, symbol)]
    /\ UNCHANGED <<ask, supervisor, family, expired, input>>

Consume ==
    /\ Alive # {} /\ input.inPipe > 0
    /\ input' = [input EXCEPT !.inPipe = @ - 1]
    /\ UNCHANGED <<ask, supervisor, family, expired, output, left>>

CloseInput ==
    /\ Use("closes")
    /\ Alive # {} /\ ~input.closed
    /\ input' = [input EXCEPT !.closed = TRUE]
    /\ UNCHANGED <<ask, supervisor, family, expired, output>>

Environment ==
    \/ \E parent \in Kids \cup {Leader}, kid \in Kids : Fork(parent, kid)
    \/ \E kid \in Kids : Leave(kid) \/ Rejoin(kid)
    \/ \E who \in Kids \cup {Leader} : Die(who)
    \/ Steal \/ Recycle \/ Produce \/ Consume \/ CloseInput

\* A deadline passes; the clean-up's and the drain's are set when they begin.
Lapse(what) ==
    /\ what \notin expired
    /\ what = "run" => ask.bounded /\ failure = "none"
    /\ what = "cleanup" => failure # "none" /\ pc \notin {"drain", "finish"}
    /\ what = "drain" => pc = "drain"
    /\ expired' = expired \cup {what}
    /\ UNCHANGED <<ask, supervisor, family, input, output, left>>

---------------------------------------------------------------------------------
(* What the system calls answer *)

\* A fault that is not the process's doing: one system call fails.
Fault == Use("faults")

\* observe_owned_process, waitid with WNOWAIT on the leader: its state,
\* ECHILD, or another error.  ECHILD, and only that, unpins the group.  (It
\* does not block, and is not interrupted.)
Observed(state) == pinned /\ leader = state /\ UNCHANGED <<pinned, left>>

ObserveFails ==
    \/ (~pinned \/ leader = "stolen") /\ pinned' = FALSE /\ UNCHANGED left
    \/ pinned /\ Fault /\ UNCHANGED pinned

\* A signal to the number: it reaches the group, the group that has the
\* number now, or nobody.
Reaches == IF leader \in {"running", "exited"} \/ group # {} THEN "group"
           ELSE IF reused THEN "other" ELSE "nobody"

Sent == hits' = IF Reaches = "other" THEN hits \cup {pc} ELSE hits

---------------------------------------------------------------------------------
(* run_owned_process_tree_with_io_and_cleanup *)

Return(value) == pc' = "done" /\ result' = value

Fail(what) == failure' = what /\ pc' = "terminate"

\* Up to the loop.  A failed set-up leaves no reader to drain.
Start ==
    /\ pc = "start"
    /\ UNCHANGED <<ask, group, outside, struck, joined, reused, thief, hits, expired, input, scan, trouble>>
    /\ \/ /\ ask.mode = "output" /\ Return("cancelled before start")
          /\ UNCHANGED <<leader, pinned, failure, left, output>>
       \/ /\ Fault /\ Return("start") /\ UNCHANGED <<leader, pinned, failure, output>>
       \/ /\ leader' = "running" /\ pinned' = TRUE /\ UNCHANGED result
          /\ \/ /\ pc' = (IF ask.mode = "output" THEN "input" ELSE "interact")
                /\ UNCHANGED <<failure, left, output>>
             \/ /\ Fault /\ \E what \in {"stdin", "output"} : Fail(what)
                /\ output' = [output EXCEPT !.reader = "none"]

\* The caller's exchange with the child; it may fail.
Interact ==
    /\ pc = "interact"
    /\ pc' = "terminate"
    /\ \E what \in {"exited", "interaction"} : failure' = what
    /\ UNCHANGED <<ask, family, expired, input, output, left, pinned, scan, trouble, result>>

\* ProtectedInputDrain::poll: write what the pipe takes; without a reader
\* the write fails.
PollInput ==
    LET room == PipeRoom - input.inPipe
        sent == IF input.unsent < room THEN input.unsent ELSE room
    IN /\ pc = "input"
       /\ IF input.unsent > 0 /\ (Alive = {} \/ input.closed)
          THEN Fail("stdin") /\ UNCHANGED input
          ELSE /\ pc' = "output" /\ UNCHANGED failure
               /\ input' = [input EXCEPT !.unsent = @ - sent, !.inPipe = @ + sent]
       /\ UNCHANGED <<ask, family, expired, output, left, pinned, scan, trouble, result>>

\* CaptureSink::write: what fits under the limit is kept.
Capture(o, shown) ==
    LET all == o.captured \o shown
    IN [o EXCEPT !.captured = SubSeq(all, 1, Min({Len(all), ask.limit})),
                 !.truncated = @ \/ Len(all) > ask.limit]

\* OutputDrain::emit, of the first n queued bytes and what the redactor made
\* of them, and finish_redaction.
Emit(o, n, pushed) ==
    [Capture(o, pushed.written) EXCEPT !.pending = pushed.pending, !.queued = SubSeq(@, n + 1, Len(@))]

Reads(o, counts) ==
    UNION {{Emit(o, n, pushed) : pushed \in {PushChunk(ask.secrets, o.pending, SubSeq(o.queued, 1, n))}} :
               n \in counts}

FinishRedaction(o) ==
    {[Capture(o, shown) EXCEPT !.pending = <<>>, !.reader = "eof"] :
         shown \in {FinishStream(ask.secrets, o.pending)}}

\* The reader is closed before the end of the output; what the redactor
\* held back is never shown.
CloseReader(o) == [o EXCEPT !.reader = "closed", !.pending = <<>>, !.queued = <<>>]

\* The observer refuses bytes in the loop: they are read, and stay with the
\* redactor if there is one.
Lost(o) == [o EXCEPT !.queued = <<>>, !.pending = IF ask.secrets = {} THEN <<>> ELSE @ \o o.queued]

\* It refuses them during the final drain, which ends.
Refused(o) == [CloseReader(o) EXCEPT !.reader = "refused"]

\* OutputDrain::poll.  It stops when the pipe is empty, at its bound on
\* reads, or at the end, when no process holds the pipe any more.
Polled ==
    IF output.reader # "open" THEN {output}
    ELSE Reads(output, IF output.queued # <<>> THEN 1..Len(output.queued)
                       ELSE IF Alive # {} THEN {0} ELSE {})
           \cup (IF Alive = {} THEN UNION {FinishRedaction(o) : o \in Reads(output, {Len(output.queued)})} ELSE {})

PollOutput ==
    /\ pc = "output"
    /\ UNCHANGED <<ask, family, expired, input, pinned, scan, trouble, result>>
    /\ \/ \E drain \in Polled :
              /\ output' = drain /\ UNCHANGED left
              /\ IF ask.strict /\ drain.truncated /\ ~output.truncated
                 THEN Fail("overflow")
                 ELSE pc' = "cancel" /\ UNCHANGED failure
       \/ /\ Fault /\ output.reader = "open"
          /\ output' = CloseReader(output) /\ pc' = "cancel" /\ UNCHANGED failure
       \/ /\ Fault /\ output.reader = "open" /\ output.queued # <<>>
          /\ output' = Lost(output) /\ Fail("output")

CheckCancelled ==
    /\ pc = "cancel"
    /\ \/ Fault /\ Fail("cancelled")
       \/ Use("signals") /\ pc' = "forward" /\ UNCHANGED failure
       \/ pc' = "observe" /\ UNCHANGED <<failure, left>>
    /\ UNCHANGED <<ask, family, expired, input, output, pinned, scan, trouble, result>>

\* forward_owned_process_signal: the look, then the signal.  That nobody has
\* the number is no failure if the leader was seen to have exited.
ForwardLook ==
    /\ pc = "forward"
    /\ \/ Observed("running") /\ pc' = "send" /\ UNCHANGED failure
       \/ Observed("exited") /\ pc' = "send to exited" /\ UNCHANGED failure
       \/ ObserveFails /\ Fail("signal")
    /\ UNCHANGED <<ask, family, expired, input, output, scan, trouble, result>>

ForwardSend ==
    /\ pc \in {"send", "send to exited"}
    /\ \/ /\ Sent /\ UNCHANGED left
          /\ IF Reaches = "nobody" /\ pc = "send" THEN Fail("signal") ELSE pc' = "observe" /\ UNCHANGED failure
       \/ Fault /\ Fail("signal") /\ UNCHANGED hits
    /\ UNCHANGED <<ask, leader, group, outside, struck, joined, reused, thief, expired, input, output,
                   pinned, scan, trouble, result>>

\* The deadline of the run is not looked at.
MutWatch ==
    /\ pc = "observe"
    /\ \/ Observed("exited") /\ Fail("exited")
       \/ Observed("running") /\ pc' = "input" /\ UNCHANGED failure
       \/ ObserveFails /\ Fail("await")
    /\ UNCHANGED <<ask, family, expired, input, output, scan, trouble, result>>

\* The exit of the leader ends the loop, and so does the deadline.
Watch ==
    /\ pc = "observe"
    /\ \/ Observed("exited") /\ Fail("exited")
       \/ Observed("running") /\ "run" \in expired /\ Fail("timeout")
       \/ Observed("running") /\ "run" \notin expired /\ pc' = "input" /\ UNCHANGED failure
       \/ ObserveFails /\ Fail("await")
    /\ UNCHANGED <<ask, family, expired, input, output, scan, trouble, result>>

---------------------------------------------------------------------------------
(* terminate_and_reap *)

\* ensure_owned_process_cleanup_budget and the budget of the final wait.
Late == "cleanup" \in expired

Trouble == trouble' = TRUE /\ pc' = "fallback"

\* terminate_owned_process_tree, up to the first signal.
Terminate ==
    /\ pc = "terminate"
    /\ scan' = [todo |-> {}, proofs |-> 0]
    /\ IF Late \/ ~pinned THEN Trouble ELSE pc' = "look" /\ UNCHANGED trouble
    /\ UNCHANGED <<ask, family, expired, input, output, left, pinned, failure, result>>

\* signal_pinned_process_group: the exact observation before every signal.
Look ==
    /\ pc = "look"
    /\ \/ (Late \/ ~pinned) /\ Trouble /\ UNCHANGED <<pinned, left>>
       \/ ~Late /\ ObserveFails /\ Trouble
       \/ ~Late /\ (Observed("running") \/ Observed("exited")) /\ pc' = "strike" /\ UNCHANGED trouble
    /\ UNCHANGED <<ask, family, expired, input, output, scan, failure, result>>

\* The budget is checked again; SIGKILL to the number; then, with time left,
\* the scan of the members begins.
Strike ==
    /\ pc = "strike"
    /\ UNCHANGED <<ask, leader, group, outside, reused, thief, expired, input, output, pinned, failure, result>>
    /\ \/ /\ Late /\ Trouble /\ UNCHANGED <<struck, joined, hits, scan, left>>
       \/ /\ Fault /\ Trouble /\ UNCHANGED <<struck, joined, hits, scan>>
       \/ /\ Sent
          /\ struck' = IF Reaches = "group" THEN struck \cup Members ELSE struck
          /\ IF Late
             THEN Trouble /\ UNCHANGED <<joined, scan>>
             ELSE /\ pc' = "prove" /\ joined' = {} /\ scan' = [scan EXCEPT !.todo = Kids \cup {Leader}]
                  /\ UNCHANGED trouble
          /\ UNCHANGED left

\* The group counts as gone with its leader.
MutIsLive(who) == who = Leader /\ leader = "running"

\* A zombie is not live.
IsLive(who) == who \in Members

\* linux_process_group_has_live_members inspects one process at a time.
Inspect(who) ==
    /\ pc = "prove" /\ who \in scan.todo
    /\ UNCHANGED <<ask, family, expired, input, output, pinned, failure, result>>
    /\ \/ /\ Late \/ Fault
          /\ Trouble /\ UNCHANGED scan /\ (Late => UNCHANGED left)
       \/ /\ ~Late /\ UNCHANGED <<trouble, left>>
          /\ IF IsLive(who)
             THEN pc' = "look" /\ scan' = [todo |-> {}, proofs |-> 0]
             ELSE pc' = pc /\ scan' = [scan EXCEPT !.todo = @ \ {who}]

\* ConsecutiveQuiescence: two scans in a row without a live member.
Conclude ==
    /\ pc = "prove" /\ scan.todo = {}
    /\ UNCHANGED <<ask, family, expired, input, output, left, pinned, failure, result>>
    /\ IF Late
       THEN Trouble /\ UNCHANGED scan
       ELSE /\ scan' = [scan EXCEPT !.proofs = @ + 1]
            /\ pc' = (IF scan.proofs = 1 THEN "reap" ELSE "look") /\ UNCHANGED trouble

\* terminate_owned_process_fallback: the look, then the kill of the child.
\* Unless the look answers ECHILD, the child is killed; "kill blind" is
\* after a look that failed otherwise.
Fallback ==
    /\ pc = "fallback"
    /\ \/ /\ ~pinned \/ leader = "stolen"
          /\ pc' = "reap" /\ pinned' = FALSE /\ UNCHANGED left
       \/ /\ pinned /\ leader # "stolen"
          /\ pc' = "kill child" /\ UNCHANGED <<pinned, left>>
       \/ /\ pinned /\ Fault
          /\ pc' = "kill blind" /\ UNCHANGED pinned
    /\ UNCHANGED <<ask, family, expired, input, output, scan, failure, trouble, result>>

KillChild ==
    /\ pc \in {"kill child", "kill blind"}
    /\ pc' = "reap"
    /\ \/ /\ struck' = IF leader = "running" THEN struck \cup {Leader} ELSE struck
          /\ hits' = IF leader = "stolen" /\ reused THEN hits \cup {pc} ELSE hits
          /\ pinned' = (leader # "stolen" \/ reused)  \* the look after ESRCH
          /\ UNCHANGED left
       \/ Fault /\ UNCHANGED <<struck, hits, pinned>>
    /\ UNCHANGED <<ask, leader, group, outside, joined, reused, thief, expired, input, output,
                   scan, failure, trouble, result>>

Reaped == leader = "exited" /\ leader' = "reaped" /\ pinned' = FALSE

\* wait_timeout on the child; then finalize_cleanup.
Reap ==
    /\ pc = "reap"
    /\ pc' = "drain"
    /\ \/ Reaped /\ UNCHANGED <<trouble, left>>
       \/ leader = "running" /\ Late /\ trouble' = TRUE /\ UNCHANGED <<leader, pinned, left>>
       \/ leader = "stolen" /\ trouble' = TRUE /\ pinned' = FALSE /\ UNCHANGED <<leader, left>>
       \/ Fault /\ trouble' = TRUE /\ UNCHANGED <<leader, pinned>>
    /\ UNCHANGED <<ask, group, outside, struck, joined, reused, thief, hits, expired, input, output,
                   scan, failure, result>>

\* OwnedProcessOutputDrains::finish: poll until the end of the output or the
\* deadline; one last poll; a reader still open is dropped.
DrainRest ==
    /\ pc = "drain" /\ ask.mode = "output" /\ output.reader = "open" /\ "drain" \notin expired
    /\ UNCHANGED <<ask, family, expired, input, pinned, scan, failure, trouble, result>>
    /\ \/ \E drain \in Polled : output' = drain /\ UNCHANGED <<pc, left>>
       \/ Fault /\ output' = CloseReader(output) /\ UNCHANGED pc
       \/ Fault /\ output.queued # <<>> /\ output' = Refused(output) /\ pc' = "finish"

LastPoll ==
    /\ pc = "drain" /\ (ask.mode = "interaction" \/ output.reader # "open" \/ "drain" \in expired)
    /\ pc' = "finish"
    /\ \/ /\ \E drain \in Polled : output' = IF drain.reader = "open" THEN CloseReader(drain) ELSE drain
          /\ UNCHANGED left
       \/ Fault /\ output.reader = "open" /\ output' = CloseReader(output)
       \/ Fault /\ output.reader = "open" /\ output.queued # <<>> /\ output' = Refused(output)
    /\ UNCHANGED <<ask, family, expired, input, pinned, scan, failure, trouble, result>>

\* finish_owned_process_wait, finalize_owned_process_output, finish_interaction.
\* The observer's refusal while draining is an error only after a clean end.
Finish ==
    /\ pc = "finish"
    /\ Return(IF trouble THEN (IF failure = "exited" THEN "cleanup" ELSE "cleanup after failure")
              ELSE IF failure # "exited" THEN failure
              ELSE IF ask.mode = "output" /\ output.reader = "refused" THEN "output"
              ELSE IF ask.mode = "output" /\ ask.strict /\ output.truncated THEN "overflow"
              ELSE "ok")
    /\ UNCHANGED <<ask, family, expired, input, output, left, pinned, scan, failure, trouble>>

---------------------------------------------------------------------------------
Supervise ==
    \/ Start \/ Interact \/ PollInput \/ PollOutput \/ CheckCancelled \/ ForwardLook \/ ForwardSend \/ Watch
    \/ Terminate \/ Look \/ Strike \/ (\E who \in Kids \cup {Leader} : Inspect(who)) \/ Conclude
    \/ Fallback \/ KillChild \/ Reap \/ DrainRest \/ LastPoll \/ Finish

Deadlines == {"run", "cleanup", "drain"}

Init ==
    /\ ask \in Asks
    /\ pc = "start" /\ leader = "none" /\ group = {} /\ outside = {} /\ struck = {} /\ joined = {}
    /\ reused = FALSE /\ thief = "none" /\ hits = {} /\ pinned = FALSE
    /\ scan = [todo |-> {}, proofs |-> 0] /\ expired = {} /\ failure = "none" /\ trouble = FALSE
    /\ input = [unsent |-> ask.stdin, inPipe |-> 0, closed |-> FALSE]
    /\ output = [produced |-> <<>>, queued |-> <<>>, pending |-> <<>>, captured |-> <<>>, truncated |-> FALSE,
                 reader |-> "open"]
    /\ left = [what \in {"forks", "moves", "thefts", "faults", "signals", "bytes", "closes"} |-> ask[what]]
    /\ result = "none"

\* The call has returned.
Returned == pc = "done" /\ UNCHANGED vars

Next ==
    \/ Supervise
    \/ pc # "done" /\ Environment
    \/ pc # "done" /\ \E what \in Deadlines : Lapse(what)
    \/ Returned

\* The supervisor runs, and time passes.
Spec == Init /\ [][Next]_vars /\ WF_vars(Supervise) /\ \A what \in Deadlines : WF_vars(Lapse(what))

---------------------------------------------------------------------------------
(* Properties *)

\* A signal reaches another group that got the number only if the leader's
\* status was taken between the look and that very signal; the one exception
\* is the kill of the child after a look that failed with another error
\* (signal_pinned_process_group, forward_owned_process_signal, and
\* terminate_owned_process_fallback).  The group is pinned only while the
\* supervisor has not consumed the leader's status (process_group is cleared
\* on reaping).
OwnGroupOnly ==
    /\ pinned => leader \in {"running", "exited", "stolen"}
    /\ \A place \in hits : place = "kill blind" \/ thief = place

\* A call that does not report a failed clean-up has reaped the leader, and
\* left no process in its group: the only ones there joined it after the last
\* scan had begun (run_owned_process_tree_with_io_and_cleanup and
\* terminate_and_reap, whatever ended the supervision); and it signalled its
\* own group only.
Contained ==
    /\ OwnGroupOnly
    /\ pc = "done" /\ result \notin {"cancelled before start", "start", "cleanup", "cleanup after failure"} =>
           leader = "reaped" /\ group \subseteq joined

\* What is captured is at every moment the beginning of the redacted text of
\* what the processes wrote, in whatever pieces it was read, so no piece of a
\* secret gets out before it is known not to be one; when the reader has met the
\* end it is all of that text, up to the limit; and a call under the strict
\* policy never succeeds with less (OutputDrain::poll and finish,
\* StreamingRedactor).  After a refusal by the observer the call fails.
OutputFaithful ==
    failure # "output" =>
        LET whole == Redact(ask.secrets, output.produced)
            limited == SubSeq(whole, 1, Min({Len(whole), ask.limit}))
        IN /\ output.captured \in {SubSeq(limited, 1, n) : n \in 0 .. Len(limited)}
           /\ output.reader = "eof" => output.captured = limited /\ (output.truncated <=> limited # whole)
           /\ result = "ok" /\ ask.strict => ~output.truncated

\* A call with a bounded run returns, whatever the processes do: it never
\* waits for them without a deadline.
Returns == ask.bounded => <>(pc = "done")

\* What the options promise of protected standard input: a call that succeeds
\* has delivered every byte of it.
StdinDelivered == result = "ok" => input.unsent = 0
=================================================================================
