----------------------------- MODULE ExecutorCall -----------------------------
(***************************************************************************)
(* One call of the Claude executor or of the OpenAI-compatible one         *)
(* (internal/runtime/executor), up to the last chunk of its answer, with   *)
(* the usage record it leaves (helps/usage_helpers.go).  The upstream, the *)
(* reader of the chunks and the end of its context are the environment.    *)
(***************************************************************************)
EXTENDS Integers, Sequences, FiniteSets, SequencesExt

CONSTANT MaxLines  \* bound on the lines of an answer

VARIABLES
    how,      \* the executor, the kind of call and whether answers are translated
    phase,    \* of the call
    body,     \* of the upstream's response: "none", "open", "closed"
    buffer,   \* StreamUsageBuffer
    records,  \* what the UsageReporter published
    chunks,   \* what the reader got: "data" and "error"
    offer,    \* the chunks being handed over, and what follows them
    gone,     \* the reader's context has ended
    lines,    \* history: the lines read
    result    \* what the call returned: "none", "ok", "error"

vars == <<how, phase, body, buffer, records, chunks, offer, gone, lines, result>>

Executors == {"claude", "compat"}
Modes == {"unary", "stream", "images", "image_stream", "count"}
Hows == {h \in [executor : Executors, mode : Modes, translated : BOOLEAN] :
            h.mode \in {"images", "image_stream"} => h.executor = "compat"}
Streams == {"stream", "image_stream"}

NoUsage == [tokens |-> 0, tier |-> "none", seen |-> FALSE]
Record(failed, usage) == [failed |-> failed, tokens |-> usage.tokens, tier |-> usage.tier]
NoOffer == [left |-> <<>>, then |-> "lines"]

\* A line of an answer: what usage it tells, and what else it is.
Line(kind, tokens, tier) == [kind |-> kind, tokens |-> tokens, tier |-> tier]
NoTokens == -1
Lines == {Line(k, t, s) : k \in {"data"}, t \in {NoTokens, 0, 1, 2}, s \in {"none", "t"}}
         \cup {Line("blank", NoTokens, "none"), Line("bare", NoTokens, "none")}

Init ==
    /\ how \in Hows
    /\ phase = "start" /\ body = "none" /\ buffer = NoUsage
    /\ records = <<>> /\ chunks = <<>> /\ offer = NoOffer
    /\ gone = FALSE /\ lines = <<>> /\ result = "none"

-----------------------------------------------------------------------------
(* The reporter: a sync.Once, so the first to publish wins. *)
Published(recs, record) == IF recs = <<>> THEN <<record>> ELSE recs
Failure(recs) == Published(recs, Record(TRUE, NoUsage))
EnsurePublished(recs) == Published(recs, Record(FALSE, NoUsage))
PublishBuffer(recs, buf) == IF buf.seen THEN Published(recs, Record(FALSE, buf)) ELSE recs

ObserveReplacing(buf, line) ==  \* mutant: a line that tells the tier forgets the tokens
    IF line.tokens = NoTokens /\ line.tier = "none" THEN buf
    ELSE [tokens |-> IF line.tokens = NoTokens THEN 0 ELSE line.tokens,
          tier |-> line.tier, seen |-> TRUE]

\* StreamUsageBuffer.ObserveOpenAIStream: a line without tokens that tells the
\* tier adds to what is known, a later usage replaces it but for the tier.
Observe(buf, line) ==
    LET usage == line.tokens # NoTokens
        tier == IF buf.tier = "none" \/ usage THEN line.tier ELSE "none"
    IN IF ~usage /\ tier = "none" THEN buf
       ELSE IF tier = "none" \/ line.tokens > 0
            THEN [tokens |-> line.tokens, seen |-> TRUE,
                  tier |-> IF tier = "none" THEN buf.tier ELSE tier]
            ELSE [buf EXCEPT !.tier = tier, !.seen = TRUE]

-----------------------------------------------------------------------------
(* The call: limits, credentials, translation, the request and its status. *)
HasReporter == how.mode # "count"
Reported(recs) == IF HasReporter THEN Failure(recs) ELSE recs  \* TrackFailure
HasLimit == how.mode \in {"unary", "stream"}

Return(what) == result' = what /\ phase' = "ended"
Quiet == UNCHANGED <<how, buffer, chunks, offer, gone, lines>>

LimitReached ==
    /\ phase = "start" /\ HasLimit
    /\ Return("error")
    /\ UNCHANGED <<body, records>> /\ Quiet

\* No base URL, a body that cannot be prepared, or an upstream not reached.
RequestFails ==
    /\ phase = "start"
    /\ records' = Reported(records)
    /\ Return("error")
    /\ UNCHANGED body /\ Quiet

\* The compatible executor counts tokens itself.
CountLocally ==
    /\ phase = "start" /\ how.mode = "count" /\ how.executor = "compat"
    /\ Return("ok")
    /\ UNCHANGED <<body, records>> /\ Quiet

Answered ==
    /\ phase = "start" /\ ~(how.mode = "count" /\ how.executor = "compat")
    /\ phase' = "answered" /\ body' = "open"
    /\ UNCHANGED <<records, result>> /\ Quiet

\* A status that is not 2xx: the body is read for the error and closed.  An
\* upstream that cannot count tokens (404) is answered by an estimate.
StatusFails(notFound) ==
    /\ phase = "answered"
    /\ body' = "closed"
    /\ records' = IF notFound /\ how.mode = "count" THEN records ELSE Reported(records)
    /\ Return(IF notFound /\ how.mode = "count" THEN "ok" ELSE "error")
    /\ Quiet

\* decodeResponseBody or reading the body fails.
ReadFails ==
    /\ phase = "answered" /\ (how.mode \notin Streams \/ how.executor = "claude")
    /\ body' = "closed"
    /\ records' = Reported(records)
    /\ Return("error")
    /\ Quiet

\* A whole answer.  When it is translated, Claude's is a stream that is
\* validated first and its first usage published.
Completes(line, valid) ==
    /\ phase = "answered" /\ how.mode \notin Streams
    /\ line \in Lines /\ line.kind = "data"
    /\ ~valid => how = [executor |-> "claude", mode |-> "unary", translated |-> TRUE]
    /\ body' = "closed"
    /\ LET usage == [tokens |-> IF line.tokens = NoTokens THEN 0 ELSE line.tokens,
                     tier |-> line.tier, seen |-> TRUE] IN
       CASE ~valid -> records' = Failure(records) /\ Return("error")
         [] valid /\ how.mode = "count" ->
               UNCHANGED records /\ Return("ok")
         [] valid /\ how.mode # "count" ->
               /\ records' = IF how.executor = "claude" /\ how.translated /\ line.tokens = NoTokens
                             THEN records
                             ELSE Published(records, Record(FALSE,
                                    IF how.executor = "claude" THEN [usage EXCEPT !.tier = "none"] ELSE usage))
               /\ Return("ok")
    /\ Quiet

StreamOpens ==
    /\ phase = "answered" /\ how.mode \in Streams
    /\ result' = "ok" /\ phase' = "lines"
    /\ UNCHANGED <<body, records>> /\ Quiet

-----------------------------------------------------------------------------
(* The goroutine of a stream: it reads a line, publishes or keeps its usage *)
(* and hands over what becomes of it.                                       *)
Hand(seq, then) == offer' = [left |-> seq, then |-> then] /\ phase' = "handing"

\* The deferred calls of the goroutine.
Closed(recs) ==
    /\ body' = "closed" /\ phase' = "ended"
    /\ records' = CASE how.mode = "image_stream" -> EnsurePublished(recs)
                    [] how.mode = "stream" /\ how.executor = "compat" -> PublishBuffer(recs, buffer)
                    [] how.mode = "stream" /\ how.executor = "claude" -> recs

ClaudeLine(line, told) ==
    /\ records' = IF line.tokens # NoTokens
                  THEN Published(records, Record(FALSE, [tokens |-> line.tokens, tier |-> "none"]))
                  ELSE records
    /\ Hand(IF ~how.translated
            THEN (IF line.kind = "blank" THEN <<"data">> ELSE <<>>)
            ELSE [i \in 1..told |-> "data"], "lines")
    /\ UNCHANGED buffer

CompatLine(line, told) ==
    /\ buffer' = Observe(buffer, line)
    /\ IF line.kind = "bare"
       THEN records' = Failure(records) /\ Hand(<<"error">>, "return")
       ELSE /\ UNCHANGED records
            /\ Hand(IF line.kind = "blank" THEN <<>> ELSE [i \in 1..told |-> "data"], "lines")

\* An image stream is handed over as it comes.
ImageBytes ==
    /\ Hand(<<"data">>, "lines")
    /\ UNCHANGED <<records, buffer>>

ReadLine(line, told) ==
    /\ phase = "lines" /\ Len(lines) < MaxLines
    /\ lines' = Append(lines, line)
    /\ CASE how.mode = "image_stream" -> ImageBytes
         [] how.mode = "stream" /\ how.executor = "claude" -> ClaudeLine(line, told)
         [] how.mode = "stream" /\ how.executor = "compat" -> CompatLine(line, told)
    /\ UNCHANGED <<how, body, chunks, gone, result>>

\* The Claude executor gathers the lines of an event it does not translate.
Unended ==
    /\ how.executor = "claude" /\ ~how.translated
    /\ lines # <<>> /\ Last(lines).kind # "blank"

Fails ==
    /\ records' = Failure(records)
    /\ Hand(<<"error">>, IF how.executor = "compat" THEN "done" ELSE "return")

\* The upstream breaks the connection off: an unended event goes first ...
Breaks ==
    /\ phase = "lines"
    /\ IF Unended THEN Hand(<<"data">>, "fail") /\ UNCHANGED records ELSE Fails
    /\ UNCHANGED <<how, body, buffer, chunks, gone, lines, result>>

\* ... and, unless the reader has left, the failure after it.
Flushed ==
    /\ phase = "handing" /\ offer.left = <<>> /\ offer.then = "fail"
    /\ Fails
    /\ UNCHANGED <<how, body, buffer, chunks, gone, lines, result>>

\* The upstream is done: the compatible executor makes up the [DONE] that
\* completes the translation, the Claude one hands over an unended event.
Ends(told) ==
    /\ phase = "lines"
    /\ Hand([i \in 1..told |-> "data"], "done")
    /\ how.executor = "claude" => (told = 1 <=> Unended)
    /\ how.mode = "image_stream" => told = 0
    /\ UNCHANGED <<how, body, buffer, records, chunks, gone, lines, result>>

Receive ==
    /\ phase = "handing" /\ offer.left # <<>> /\ ~gone
    /\ chunks' = Append(chunks, Head(offer.left))
    /\ offer' = [offer EXCEPT !.left = Tail(@)]
    /\ UNCHANGED <<how, phase, body, buffer, records, gone, lines, result>>

Handed ==
    /\ phase = "handing" /\ offer.left = <<>> /\ offer.then # "fail"
    /\ offer' = NoOffer
    /\ CASE offer.then = "lines" -> phase' = "lines" /\ UNCHANGED <<body, records>>
         [] offer.then = "return" -> Closed(records)
         [] offer.then = "done" ->
              Closed(IF how.mode = "stream" /\ how.executor = "compat"
                     THEN EnsurePublished(PublishBuffer(records, buffer)) ELSE records)
    /\ UNCHANGED <<how, buffer, chunks, gone, lines, result>>

\* The reader's context ends: the goroutine gives up, except that the error
\* of a broken connection is only dropped.
GiveUp ==
    /\ phase = "handing" /\ offer.left # <<>> /\ gone
    /\ IF Head(offer.left) = "error"
       THEN offer' = [offer EXCEPT !.left = <<>>] /\ UNCHANGED <<phase, body, records>>
       ELSE offer' = NoOffer /\ Closed(records)
    /\ UNCHANGED <<how, buffer, chunks, gone, lines, result>>

Leave ==
    /\ phase \in {"lines", "handing"} /\ ~gone
    /\ gone' = TRUE
    /\ UNCHANGED <<how, phase, body, buffer, records, chunks, offer, lines, result>>

Next ==
    \/ LimitReached \/ RequestFails \/ CountLocally \/ Answered
    \/ \E notFound \in BOOLEAN : StatusFails(notFound)
    \/ ReadFails
    \/ \E line \in Lines, valid \in BOOLEAN : Completes(line, valid)
    \/ StreamOpens
    \/ \E line \in Lines, told \in 0..1 : ReadLine(line, told)
    \/ Breaks \/ \E told \in 0..1 : Ends(told)
    \/ Receive \/ Handed \/ Flushed \/ GiveUp \/ Leave

Spec == Init /\ [][Next]_vars

-----------------------------------------------------------------------------
(* A call leaves at most one record, a failed one when and only when it     *)
(* failed before it told its usage, and the connection is given back.  A    *)
(* call the compatible executor completes leaves one, with the tokens of    *)
(* the last usage line and the tier that was told.                          *)
Ended == phase = "ended"
Tiers == {l.tier : l \in Range(lines)} \ {"none"}
\* A usage of no tokens that comes with the tier is taken for the tier alone.
TellsTokens(l) == l.tokens > 0 \/ (l.tokens = 0 /\ l.tier = "none")
TellAt == {i \in DOMAIN lines : TellsTokens(lines[i])}
ToldLast(tokens) ==
    /\ TellAt = {} => tokens = 0
    /\ \A i \in TellAt : (\A j \in TellAt : j <= i) => tokens = lines[i].tokens

CallIsRecorded ==
    /\ Len(records) <= 1
    /\ body = "open" => ~Ended
    /\ Ended =>
        /\ HasReporter /\ result = "error" /\ records = <<>> => HasLimit /\ body = "none"
        /\ ~HasReporter => records = <<>>
        /\ \A r \in Range(records) : r.failed => gone \/ result = "error" \/ Last(chunks) = "error"
        /\ how.executor = "compat" /\ HasReporter /\ result = "ok" /\ ~gone =>
              Len(records) = 1
        /\ how.executor = "compat" /\ how.mode = "stream" /\ result = "ok" =>
              \A r \in Range(records) : ~r.failed =>
                  ToldLast(r.tokens) /\ (r.tier # "none" <=> Tiers # {})

(* "guarantees that a usage record is emitted exactly once ... even when    *)
(* upstream responses do not include any usage fields": only where          *)
(* EnsurePublished is called, which the Claude executor never does.         *)
EveryAnswerIsRecorded == Ended /\ HasReporter /\ result = "ok" /\ ~gone => Len(records) = 1
=============================================================================
