--------------------------- MODULE StreamingRedaction ---------------------------
(***************************************************************************)
(* The redactor of process output: bytes arrive in chunks, occurrences of  *)
(* the patterns leave as one marker, and a suffix that may still begin an  *)
(* occurrence is held back.  Positions count from 0, as in the code; the   *)
(* minimum length of a pattern (4 bytes) and the bounds on their number    *)
(* are left to the caller's choice of patterns.                            *)
(***************************************************************************)
EXTENDS Naturals, Sequences, FiniteSetsExt

Marker == "[REDACTED]"

MaxPatternLen(patterns) == Max({Len(p) : p \in patterns} \cup {0})

\* The patterns that occur in input at position start.
Occurring(patterns, input, start) ==
    {p \in patterns : start + Len(p) <= Len(input) /\ SubSeq(input, start + 1, start + Len(p)) = p}

\* emit_matches: the matcher reports the leftmost, of those the longest,
\* occurrences, without overlaps; the ones that start before the limit are
\* replaced.  What was written, and how much of the input was consumed.
EmitMatches(patterns, input, limit) ==
    LET Starts(cursor) == {i \in cursor..(Len(input) - 1) : Occurring(patterns, input, i) # {}}
        from[cursor \in 0..Len(input)] ==
            IF Starts(cursor) = {} \/ Min(Starts(cursor) \cup {Len(input)}) >= limit
            THEN [written |-> SubSeq(input, cursor + 1, limit), consumed |-> Max({cursor, limit})]
            ELSE LET start == Min(Starts(cursor))
                     end == start + MaxPatternLen(Occurring(patterns, input, start))
                 IN [from[end] EXCEPT !.written = SubSeq(input, cursor + 1, start) \o <<Marker>> \o @]
    IN from[0]

\* finish: the pending bytes, redacted.
FinishStream(patterns, pending) == EmitMatches(patterns, pending, Len(pending)).written

\* Nothing is held back between chunks.
MutPushChunk(patterns, pending, chunk) ==
    [written |-> FinishStream(patterns, pending \o chunk), pending |-> <<>>]

\* push_chunk: what is written, and the pending bytes afterwards.
PushChunk(patterns, pending, chunk) ==
    LET bytes == pending \o chunk
        kept == MaxPatternLen(patterns) - 1
        safeStartLimit == IF Len(bytes) > kept THEN Len(bytes) - kept ELSE 0
        emitted == EmitMatches(patterns, bytes, safeStartLimit)
    IN IF patterns = {} THEN [written |-> chunk, pending |-> <<>>]
       ELSE IF chunk = <<>> \/ safeStartLimit = 0 THEN [written |-> <<>>, pending |-> bytes]
       ELSE [written |-> emitted.written, pending |-> SubSeq(bytes, emitted.consumed + 1, Len(bytes))]

\* What redaction means, of a whole text: at each position the longest
\* occurrence, if there is one, becomes a marker, and reading goes on after it.
Redact(patterns, text) ==
    LET at[i \in 0..Len(text)] ==
            LET found == Occurring(patterns, text, i)
            IN IF i = Len(text) THEN <<>>
               ELSE IF found = {} THEN <<text[i + 1]>> \o at[i + 1]
               ELSE <<Marker>> \o at[i + MaxPatternLen(found)]
    IN at[0]
=================================================================================
