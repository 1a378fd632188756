-------------------------- MODULE ResponsesFramer --------------------------
(***************************************************************************)
(* The answer to a Responses client (openai_responses_handlers.go): the    *)
(* chunks of the upstream, cut anywhere or line by line, are written as    *)
(* whole server-sent events, and the event that completes the response     *)
(* gets the output items told before when it lists none.  Text is a        *)
(* sequence of tokens: the field event, the line break, and three of the   *)
(* field data: up to a colon of its JSON, the colon and what is joined to  *)
(* it, and the rest; they are JSON together only.                          *)
(***************************************************************************)
EXTENDS Integers, Sequences, SequencesExt, FiniteSets

CONSTANTS
    Streams,  \* sequences of [type, index, own]: an item of an index (or None), the
              \* completion with output of its own or without, and other events
    MaxChunk  \* bound: tokens of a chunk

VARIABLES
    stream,   \* what the upstream says
    byLine,   \* whether its chunks are lines, without their breaks
    rest,     \* the tokens still to come
    pending,  \* the framer's text that is not written yet
    items,    \* outputItems: events by index
    loose,    \* unindexedOutputItems
    written,  \* what was written to the client
    torn,     \* history: events with a chunk that begins at their colon
    phase     \* "peek", "stream", or how it ended: "done" or "failed"

vars == <<stream, byLine, rest, pending, items, loose, written, torn, phase>>

None == -1
NL == [k |-> "nl", n |-> 0]
Tok(k, n) == [k |-> k, n |-> n]
Whole(n, output) == [k |-> "whole", n |-> n, output |-> output]  \* data with its output filled in
Blank == <<NL, NL>>
Frame(n) == <<Tok("event", n), NL, Tok("open", n), Tok("colon", n), Tok("rest", n)>> \o Blank
Text == FlattenSeq([n \in DOMAIN stream |-> Frame(n)])

-----------------------------------------------------------------------------
\* Lines, without their breaks.
Lines(text) ==
    FoldLeft(LAMBDA ls, t : IF t = NL THEN Append(ls, <<>>)
                            ELSE [ls EXCEPT ![Len(ls)] = Append(@, t)], <<<<>>>>, text)
HasField(text, kinds) == \E l \in ToSet(Lines(text)) : l # <<>> /\ l[1].k \in kinds
IsSpace(text) == \A i \in DOMAIN text : text[i] = NL

\* json.Valid of a data line
Valid(line) == line = <<Tok("open", line[1].n), Tok("colon", line[1].n), Tok("rest", line[1].n)>>

\* responsesSSECanEmitWithoutDelimiter
CanEmit(text) ==
    /\ HasField(text, {"open"})
    /\ \A l \in ToSet(Lines(text)) : l # <<>> /\ l[1].k = "open" => Valid(l)

\* responsesSSENeedsLineBreak: a chunk that begins with the name of a field, or with the
\* colon of a comment, is taken to continue no line, even if its colon is one of JSON.
NeedsBreak(text, chunk) ==
    text # <<>> /\ text[Len(text)] # NL /\ chunk[1].k \in {"event", "open", "colon"}

\* The frames of the pending text, and what is left of it.
Split(text) ==
    FoldLeft(LAMBDA acc, t : IF IsSuffix(Blank, Append(acc.left, t))
                             THEN [frames |-> Append(acc.frames, Append(acc.left, t)), left |-> <<>>]
                             ELSE [acc EXCEPT !.left = Append(@, t)],
             [frames |-> <<>>, left |-> <<>>], text)

-----------------------------------------------------------------------------
(* A frame on its way: [written, items, loose]. *)
NoItems == [i \in {} |-> 0]
Data(frame) == LET ls == SelectSeq(Lines(frame), LAMBDA l : l # <<>> /\ l[1].k = "open")
               IN IF Len(ls) = 1 /\ Valid(ls[1]) THEN ls[1][1].n ELSE 0

\* recordOutputItem
Record(w, n) ==
    IF stream[n].index = None THEN [w EXCEPT !.loose = Append(@, n)]
    ELSE [w EXCEPT !.items = [i \in DOMAIN @ \cup {stream[n].index} |->
                                IF i = stream[n].index THEN n ELSE @[i]]]

\* repairCompletedPayload: the items by their index, and those that have none.
Output(w) == [k \in 1 .. Cardinality(DOMAIN w.items) |->
                 w.items[SetToSortSeq(DOMAIN w.items, LAMBDA a, b : a < b)[k]]] \o w.loose
Repaired(w, frame, n) ==
    IF stream[n].own \/ Output(w) = <<>> THEN frame
    ELSE FlattenSeq([i \in DOMAIN Lines(frame) |->
            LET l == Lines(frame)[i] IN IF l = <<>> \/ l[1].k = "open" THEN <<>> ELSE Append(l, NL)])
         \o <<Whole(n, Output(w))>> \o Blank

\* writeResponsesSSEChunk ends what it writes with a blank line.
Ended(text) ==
    IF IsSuffix(Blank, text) THEN text
    ELSE IF text[Len(text)] = NL THEN Append(text, NL) ELSE text \o Blank

WriteFrame(w, frame) ==
    LET n == Data(frame)
        type == IF n = 0 THEN "other" ELSE stream[n].type
        r == IF type = "item" THEN Record(w, n) ELSE w
    IN [r EXCEPT !.written = @ \o Ended(IF type = "completed" THEN Repaired(w, frame, n) ELSE frame)]

Framer == [written |-> written, items |-> items, loose |-> loose]
Becomes(w) == written' = w.written /\ items' = w.items /\ loose' = w.loose

WriteChunk(chunk) ==
    LET text == (IF NeedsBreak(pending, chunk) THEN Append(pending, NL) ELSE pending) \o chunk
        split == Split(text)
        w == FoldLeft(WriteFrame, Framer, split.frames)
    IN IF ~IsSpace(split.left) /\ CanEmit(split.left)
       THEN Becomes(WriteFrame(w, split.left)) /\ pending' = <<>>
       ELSE Becomes(w) /\ pending' = IF IsSpace(split.left) THEN <<>> ELSE split.left

\* Flush: what cannot be an event is dropped.
Flushed == IF ~IsSpace(pending) /\ CanEmit(pending) THEN WriteFrame(Framer, pending) ELSE Framer

-----------------------------------------------------------------------------
Init ==
    /\ stream \in Streams /\ byLine \in BOOLEAN
    /\ rest = Text /\ pending = <<>> /\ items = NoItems /\ loose = <<>> /\ written = <<>>
    /\ torn = {} /\ phase = "peek"

\* The next chunk; a line comes without its break, and an empty one is nothing.
Bytes(n) ==
    /\ ~byLine /\ n <= Len(rest) /\ rest' = SubSeq(rest, n + 1, Len(rest))
    /\ WriteChunk(SubSeq(rest, 1, n))
    /\ torn' = IF rest[1].k = "colon" THEN torn \cup {rest[1].n} ELSE torn
Line ==
    LET n == IF rest[1] = NL THEN 0 ELSE Len(Lines(rest)[1]) IN
    /\ byLine /\ rest' = SubSeq(rest, n + 2, Len(rest))
    /\ IF n = 0 THEN UNCHANGED <<pending, items, loose, written>> ELSE WriteChunk(SubSeq(rest, 1, n))
    /\ UNCHANGED torn

Chunk ==
    /\ phase \in {"peek", "stream"} /\ rest # <<>>
    /\ Line \/ \E n \in 1 .. MaxChunk : Bytes(n)
    /\ phase' = "stream" /\ UNCHANGED <<stream, byLine>>

\* The stream ends, within an event or after the last: WriteDone.
Close ==
    /\ phase \in {"peek", "stream"}
    /\ Becomes([Flushed EXCEPT !.written = Append(@, NL)])
    /\ pending' = <<>> /\ phase' = "done"
    /\ UNCHANGED <<stream, byLine, rest, torn>>

\* It fails: before anything came the answer is an error, else WriteTerminalError tells it.
Fail ==
    /\ phase \in {"peek", "stream"}
    /\ IF phase = "peek" THEN UNCHANGED <<pending, items, loose, written>>
       ELSE /\ Becomes([Flushed EXCEPT !.written = @ \o <<NL>> \o Frame(0)])
            /\ pending' = <<>>
    /\ phase' = "failed"
    /\ UNCHANGED <<stream, byLine, rest, torn>>

Next == Chunk \/ Close \/ Fail

Spec == Init /\ [][Next]_vars

-----------------------------------------------------------------------------
(* What the client makes of what was written: an event at every blank line  *)
(* that follows data.                                                       *)
Read ==
    LET step(acc, l) ==
            IF l # <<>> THEN [acc EXCEPT !.lines = Append(@, l)]
            ELSE [told |-> IF \E x \in ToSet(acc.lines) : x[1].k \in {"open", "whole"}
                           THEN Append(acc.told, acc.lines) ELSE acc.told, lines |-> <<>>]
    IN FoldLeft(step, [told |-> <<>>, lines |-> <<>>], Lines(written)).told

\* What it is to be told of an event: the items before it are those not torn.
Items(n) == {m \in 1 .. n \ torn : stream[m].type = "item"}
Listed(n) ==
    LET last == {m \in Items(n) : stream[m].index # None /\
                    \A o \in Items(n) : stream[o].index = stream[m].index => o <= m}
    IN SetToSortSeq(last, LAMBDA a, b : stream[a].index < stream[b].index)
       \o SetToSortSeq({m \in Items(n) : stream[m].index = None}, LAMBDA a, b : a < b)
Event(n) ==
    <<<<Tok("event", n)>>,
      IF n # 0 /\ stream[n].type = "completed" /\ ~stream[n].own /\ Listed(n) # <<>>
      THEN <<Whole(n, Listed(n))>> ELSE <<Tok("open", n), Tok("colon", n), Tok("rest", n)>> >>

\* The events whose data came in full.
Arrived == {n \in DOMAIN stream : \A i \in DOMAIN rest : rest[i] # Tok("rest", n)}

\* The client has been told every event that arrived in full, at once, in order, each on
\* its own and whole; the completed one lists what was told before; and half an event is
\* never told, whether the stream ends or fails in it.  A cut right before a colon of an
\* event's JSON, which the framer takes for the end of a line, tears that event and no
\* other.
FramesAreWhole ==
    LET whole == SetToSortSeq(Arrived \ torn, LAMBDA a, b : a < b) IN
    SelectSeq(Read, LAMBDA e : e[1][1].n \notin torn) =
        [k \in DOMAIN whole |-> Event(whole[k])]
        \o (IF phase = "failed" /\ written # <<>> THEN <<Event(0)>> ELSE <<>>)
=============================================================================
