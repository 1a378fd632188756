------------------------------- MODULE Images -------------------------------
(***************************************************************************)
(* The image endpoints (openai_images_handlers.go): a request is checked   *)
(* and sent along one of seven paths; the upstream is called by another    *)
(* goroutine, whose chunks (of the upstream's bytes, cut anywhere) and     *)
(* error come through two channels; while the handler waits it writes      *)
(* keep-alives, also between two chunks.  Text is made of the tokens of    *)
(* ResponsesFramer; other fields of requests and answers, masks among      *)
(* them, are left out.                                                     *)
(***************************************************************************)
EXTENDS Integers, Sequences, SequencesExt, FiniteSets

CONSTANTS
    Requests, \* of [kind, stream, form, off, prompt, image]: kind is that of the model
    Streams,  \* sequences of [type, images]: a partial image, the completion, or others
    MaxChunk, \* bound: tokens of a chunk
    MaxTicks  \* bound: keep-alives of a request

VARIABLES
    request,  \* what the client asks for
    listed,   \* whether the registry still has the model as one for images
    gone,     \* the client has left
    handler,  \* [phase, path, started, end]
    relay,    \* the calling goroutine and the relay it starts
    error,    \* an error message waits in its channel
    stream,   \* what the upstream says
    byLine,   \* whether a translator hands it over line by line
    rest,     \* the tokens still to come
    pending,  \* sseFrameAccumulator.pending
    head,     \* the status the client has seen: "none", "ok" or "error"
    out,      \* the text it was sent
    ticks,    \* keep-alives written
    torn      \* history: events a keep-alive fell into

vars == <<request, listed, gone, handler, relay, error, stream, byLine, rest, pending, head, out, ticks, torn>>

Framer == INSTANCE ResponsesFramer WITH
    items <- {}, loose <- <<>>, written <- out, phase <- handler.phase

NL    == Framer!NL
Blank == Framer!Blank
Tok(k, n) == Framer!Tok(k, n)
Json(what) == Tok(what, 0)
ErrorEvent == <<Tok("event", 0), NL, Tok("error", 0)>> \o Blank
Image(n, i) == <<Tok("event", n), NL, [k |-> "image", n |-> n, i |-> i]>> \o Blank
ImagesOf(n) == FlattenSeq([i \in 1 .. stream[n].images |-> Image(n, i)])

Raw      == {"routed", "compat"}       \* bytes of the upstream go on as they come
Streamed == Raw \cup {"responses"}
Buffered == {"raw", "unary", "single"} \* the upstream answers in one piece

Init ==
    /\ request \in Requests /\ listed = TRUE /\ gone = FALSE
    /\ handler = [phase |-> "check", path |-> "none", started |-> FALSE, end |-> "none"]
    /\ relay = "off" /\ error = FALSE
    /\ stream \in Streams /\ byLine \in BOOLEAN
    /\ rest = Framer!Text /\ pending = <<>> /\ head = "none" /\ out = <<>>
    /\ ticks = 0 /\ torn = {}

-----------------------------------------------------------------------------
(* What is written.  The status goes with the first text, or with the end. *)

Write(status, text) ==
    /\ head' = IF head = "none" /\ text # <<>> THEN status ELSE head
    /\ out' = out \o text
Ends(why, status, text) ==
    /\ head' = IF head = "none" THEN status ELSE head
    /\ out' = out \o text
    /\ handler' = [handler EXCEPT !.phase = "ended", !.end = why]

\* WriteErrorResponse, or an event of a stream that has begun.
TellError(asEvent) ==
    IF asEvent THEN Ends("error", "ok", ErrorEvent) ELSE Ends("error", "error", <<Json("json")>>)

-----------------------------------------------------------------------------
(* Which path a request takes.                                             *)

\* isSupportedImagesModel looks into the registry, and so does the choice of the path.
Supported == request.kind \in {"codex", "xai"} \/ (request.kind = "compat" /\ listed)

Refused ==
    \/ request.off \/ request.form = "other" \/ ~Supported \/ ~request.prompt
    \/ request.form = "multipart" /\ ~request.image

Path ==
    CASE request.kind = "codex" -> IF request.stream THEN "routed" ELSE "raw"
      [] request.kind = "xai" -> IF request.stream THEN "single" ELSE "unary"
      [] request.kind = "compat" /\ listed -> IF request.stream THEN "compat" ELSE "unary"
      [] OTHER -> IF request.stream THEN "responses" ELSE "collect"

\* Only these two find out that a JSON edit has no image.
NoImage ==
    request.form = "json" /\ ~request.image /\ (request.kind = "xai" \/ Path \in {"responses", "collect"})

\* An endpoint that is switched off is not found, without a body.
Check ==
    /\ handler.phase = "check"
    /\ IF Refused THEN Ends("refused", "error", IF request.off THEN <<>> ELSE <<Json("json")>>)
       ELSE handler' = [handler EXCEPT !.phase = "route"] /\ UNCHANGED <<head, out>>
    /\ UNCHANGED <<request, listed, gone, relay, error, stream, byLine, rest, pending, ticks, torn>>

\* The last client of the model is taken out of the registry.
Unlist ==
    /\ request.kind = "compat" /\ handler.phase \in {"check", "route"}
    /\ listed' = FALSE
    /\ UNCHANGED <<request, gone, handler, relay, error, stream, byLine, rest, pending, head, out, ticks, torn>>

Route ==
    /\ handler.phase = "route"
    /\ IF NoImage THEN Ends("refused", "error", <<Json("json")>>) /\ UNCHANGED relay
       ELSE /\ handler' = [handler EXCEPT !.phase = "wait", !.path = Path]
            /\ relay' = "calling" /\ UNCHANGED <<head, out>>
    /\ UNCHANGED <<request, listed, gone, error, stream, byLine, rest, pending, ticks, torn>>

-----------------------------------------------------------------------------
(* The upstream, the manager and the relay.                                *)

ctx == gone \/ handler.phase = "ended"
RelayKeeps == UNCHANGED <<request, listed, gone, handler, stream, byLine, rest, pending, head, out, ticks, torn>>

\* The call returns: an answer in one piece, with images or without, a stream whose first
\* chunk has come, or an error, without a data channel then.
Returns ==
    /\ relay = "calling"
    /\ \/ handler.path \in Buffered /\ relay' \in {"images", "empty", "failed"} /\ UNCHANGED error
       \/ handler.path \notin Buffered /\ relay' = "on" /\ UNCHANGED error
       \/ handler.path \notin Buffered /\ relay' = "absent" /\ error' = TRUE
    /\ RelayKeeps

\* The upstream ends anywhere, or fails, or hands over half a document, or nobody listens.
RelayEnds ==
    /\ relay = "on" /\ relay' = "closing" /\ error' \in {FALSE, TRUE}
    /\ RelayKeeps

\* The error channel is closed, which the handler ignores, and then the data channel.
Closes ==
    /\ relay = "closing" /\ relay' = "closed"
    /\ UNCHANGED error /\ RelayKeeps

-----------------------------------------------------------------------------
(* sseFrameAccumulator and the frames that come out of it.                 *)

\* AddChunk
Added(chunk) ==
    LET text  == (IF Framer!NeedsBreak(pending, chunk) THEN Append(pending, NL) ELSE pending) \o chunk
        split == Framer!Split(text)
        whole == ~Framer!IsSpace(split.left) /\ Framer!CanEmit(split.left)
    IN [frames  |-> IF whole THEN Append(split.frames, split.left) ELSE split.frames,
        pending |-> IF whole \/ Framer!IsSpace(split.left) THEN <<>> ELSE split.left]

Flushed ==
    [frames  |-> IF ~Framer!IsSpace(pending) /\ Framer!CanEmit(pending) THEN <<pending>> ELSE <<>>,
     pending |-> <<>>]

\* processFrame of a stream: partial images go on, the completion is the last.
Process(acc, frame) ==
    LET n == Framer!Data(frame) IN
    IF acc.end # "none" \/ n = 0 \/ stream[n].type = "other" THEN acc
    ELSE IF stream[n].type = "partial" THEN [acc EXCEPT !.text = @ \o ImagesOf(n)]
    ELSE IF stream[n].images = 0 THEN [text |-> acc.text \o ErrorEvent, end |-> "empty"]
    ELSE [text |-> acc.text \o ImagesOf(n), end |-> "completed"]

\* processFrame of a collection: the first completion is the answer.
Collect(acc, frame) ==
    LET n == Framer!Data(frame) IN
    IF acc.end # "none" \/ n = 0 \/ stream[n].type # "completed" THEN acc
    ELSE IF stream[n].images = 0 THEN [text |-> <<Json("json")>>, end |-> "empty"]
    ELSE [text |-> <<Tok("body", n)>>, end |-> "completed"]

\* What comes of the frames: [text, end].
Outcome(got) ==
    FoldLeft(LAMBDA acc, frame : IF handler.path = "collect" THEN Collect(acc, frame) ELSE Process(acc, frame),
             [text |-> <<>>, end |-> "none"], got.frames)

\* A collection whose end came without an answer is an error as well.
Tells(r) ==
    /\ Ends(r.end, IF handler.path = "responses" \/ r.end = "completed" THEN "ok" ELSE "error", r.text)
    /\ pending' = <<>>

-----------------------------------------------------------------------------
(* The handler.                                                            *)

Reads == handler.phase \in {"peek", "forward"}
Keeps == UNCHANGED <<request, listed, gone, stream, byLine>>

\* waitImagesStreamExecution hands over the channels.
Begins ==
    /\ handler.phase = "wait" /\ relay # "calling" /\ handler.path \notin Buffered
    /\ handler' = [handler EXCEPT !.phase = "peek"]
    /\ Keeps /\ UNCHANGED <<relay, error, rest, pending, head, out, ticks, torn>>

\* A chunk that comes cut anywhere, or a line without its break.
Cut(n) ==
    IF byLine
    THEN LET l == Framer!Lines(rest)[1] IN [chunk |-> l, rest |-> SubSeq(rest, Len(l) + 2, Len(rest))]
    ELSE [chunk |-> SubSeq(rest, 1, n), rest |-> SubSeq(rest, n + 1, Len(rest))]

\* validateSSEDataJSON lets no half of a document through.
Halved(chunk) == \E l \in ToSet(Framer!Lines(chunk)) : l # <<>> /\ l[1].k = "open" /\ ~Framer!Valid(l)

Takes(chunk) ==
    LET got == Added(chunk)
        r   == Outcome(got)
    IN IF r.end # "none" THEN Tells(r)
       ELSE /\ Write("ok", r.text) /\ pending' = got.pending
            /\ handler' = [handler EXCEPT !.phase = "forward"]

\* A chunk of bytes, the first one or a later.
RawChunk(n) ==
    /\ Reads /\ relay = "on" /\ handler.path \in Raw /\ n <= Len(rest)
    /\ Write("ok", SubSeq(rest, 1, n))
    /\ rest' = SubSeq(rest, n + 1, Len(rest))
    /\ handler' = [handler EXCEPT !.phase = "forward", !.started = TRUE]
    /\ Keeps /\ UNCHANGED <<relay, error, pending, ticks, torn>>

\* A chunk of a translator; an empty line is no chunk.
Chunk(n) ==
    /\ Reads /\ relay = "on" /\ handler.path \notin Raw /\ n <= Len(rest)
    /\ LET cut == Cut(n) IN
       /\ rest' = cut.rest /\ ~Halved(cut.chunk)
       /\ IF cut.chunk = <<>> THEN UNCHANGED <<handler, pending, head, out>> ELSE Takes(cut.chunk)
    /\ Keeps /\ UNCHANGED <<relay, error, ticks, torn>>

\* An error before the stream has begun is the answer, and one of a collection always.
TakesError ==
    /\ Reads /\ error
    /\ error' = FALSE
    /\ TellError(handler.path # "collect" /\ (handler.started \/ handler.phase = "forward"))
    /\ Keeps /\ UNCHANGED <<relay, rest, pending, ticks, torn>>

\* The data channel is closed before the first chunk: nobody looks for an error.
EndsEmpty ==
    /\ handler.phase = "peek" /\ relay = "closed" /\ handler.path # "collect"
    /\ Ends("data", "ok", IF handler.path = "compat" THEN <<>> ELSE <<NL>>)
    /\ Keeps /\ UNCHANGED <<relay, error, rest, pending, ticks, torn>>

\* It is closed after that: only ForwardStream looks once more for an error.
EndsForwarded ==
    /\ handler.phase = "forward" /\ relay = "closed" /\ handler.path \in Raw
    /\ IF handler.path = "compat" /\ error THEN TellError(TRUE) /\ error' = FALSE
       ELSE Ends("data", "ok", <<>>) /\ UNCHANGED error
    /\ Keeps /\ UNCHANGED <<relay, rest, pending, ticks, torn>>

\* What the accumulator still holds counts, and a collection has to have its answer.
EndsFlushed ==
    /\ relay = "closed"
    /\ \/ handler.path = "collect" /\ Reads
       \/ handler.path = "responses" /\ handler.phase = "forward"
    /\ LET r == Outcome(Flushed) IN
       Tells(IF r.end # "none" THEN r
             ELSE [text |-> IF handler.path = "collect" THEN <<Json("json")>> ELSE r.text, end |-> "data"])
    /\ Keeps /\ UNCHANGED <<relay, error, rest, ticks, torn>>

\* The answer came in one piece: a body, if there are images where the handler looks.
AnswersBody ==
    /\ handler.phase = "wait" /\ handler.path \in {"raw", "unary"} /\ relay # "calling"
    /\ IF relay = "failed" \/ (relay = "empty" /\ handler.path = "unary") THEN TellError(FALSE)
       ELSE Ends("completed", "ok", <<Tok("body", 0)>>)
    /\ Keeps /\ UNCHANGED <<relay, error, rest, pending, ticks, torn>>

\* Or a stream made of it: an event for each of its images, say two.
AnswersStream ==
    /\ handler.phase = "wait" /\ handler.path = "single" /\ relay # "calling"
    /\ IF relay = "images" THEN Ends("completed", "ok", Image(0, 1) \o Image(0, 2))
       ELSE TellError(handler.started)
    /\ Keeps /\ UNCHANGED <<relay, error, rest, pending, ticks, torn>>

\* The request's context ends.  A call in one piece, or before a collection, is waited for.
Leaves ==
    /\ gone
    /\ Reads \/ (handler.phase = "wait" /\ handler.path \in Streamed \cup {"single"})
    /\ IF handler.path = "collect" THEN TellError(FALSE) ELSE Ends("client", "ok", <<>>)
    /\ Keeps /\ UNCHANGED <<relay, error, rest, pending, ticks, torn>>

\* The event that has begun and is not whole.
Within == IF Len(rest) % 7 \in 2 .. 6 THEN {Len(stream) - Len(rest) \div 7} ELSE {}

\* A comment of the stream, or, where the answer comes in one piece, a blank line.
Ticks ==
    /\ handler.phase = "wait" \/ Reads
    /\ ticks < MaxTicks /\ ticks' = ticks + 1
    /\ IF handler.path \in Streamed \cup {"single"}
       THEN /\ Write("ok", <<Tok("comment", 0)>> \o Blank)
            /\ handler' = [handler EXCEPT !.started = TRUE]
            /\ torn' = IF handler.path \in Raw THEN torn \cup Within ELSE torn
       ELSE Write("ok", <<NL>>) /\ UNCHANGED <<handler, torn>>
    /\ Keeps /\ UNCHANGED <<relay, error, rest, pending>>

ClientLeaves ==
    /\ ~gone /\ handler.phase \notin {"check", "route", "ended"}
    /\ gone' = TRUE
    /\ UNCHANGED <<request, listed, handler, relay, error, stream, byLine, rest, pending, head, out, ticks, torn>>

Next ==
    \/ Check \/ Unlist \/ Route
    \/ Returns \/ RelayEnds \/ Closes
    \/ Begins \/ (\E n \in 1 .. MaxChunk : RawChunk(n) \/ Chunk(n)) \/ TakesError
    \/ EndsEmpty \/ EndsForwarded \/ EndsFlushed \/ AnswersBody \/ AnswersStream
    \/ Leaves \/ Ticks \/ ClientLeaves

Spec == Init /\ [][Next]_vars

-----------------------------------------------------------------------------
(* What the client reads: an event at every blank line that follows data.  *)

Told ==
    LET step(acc, l) ==
            IF l = <<>>
            THEN [told |-> IF acc.data = <<>> THEN acc.told
                           ELSE Append(acc.told, [name |-> acc.name, data |-> acc.data]),
                  name |-> <<>>, data |-> <<>>]
            ELSE IF l[1].k = "event" THEN [acc EXCEPT !.name = l]
            ELSE IF l[1].k \in {"open", "image", "error"} THEN [acc EXCEPT !.data = Append(@, l)]
            ELSE acc
    IN FoldLeft(step, [told |-> <<>>, name |-> <<>>, data |-> <<>>], Framer!Lines(out)).told

Event(n)  == [name |-> <<Tok("event", n)>>, data |-> <<<<Tok("open", n), Tok("colon", n), Tok("rest", n)>>>>]
AnError   == [name |-> <<Tok("event", 0)>>, data |-> <<<<Tok("error", 0)>>>>]
EventsOf(n) == [i \in 1 .. stream[n].images |->
                [name |-> <<Tok("event", n)>>, data |-> <<<<[k |-> "image", n |-> n, i |-> i]>>>>]]

\* The events whose data has come, the first completion among them, and what is due of them.
Come == {n \in DOMAIN stream : \A i \in DOMAIN rest : rest[i] # Tok("rest", n)}
Completions == {n \in Come : stream[n].type = "completed"}
Final == IF Completions = {} THEN Cardinality(Come) ELSE CHOOSE n \in Completions : \A m \in Completions : n <= m
Due == FlattenSeq([n \in 1 .. Final |-> IF stream[n].type = "other" THEN <<>> ELSE EventsOf(n)])

Ended == handler.phase = "ended"

\* An answer of the server's own is the only one, and an error of a stream its last event,
\* unless it falls into an event of the upstream.
ErrorsStandAlone ==
    /\ \A i \in DOMAIN out : out[i] = Json("json") =>
         i = Len(out) /\ (\A j \in 1 .. i - 1 : out[j] = NL) /\ (i = 1 => head = "error")
    /\ Ended /\ handler.end \in {"error", "empty"} /\ out[Len(out)] # Json("json")
       /\ (handler.path \in Raw => Len(rest) % 7 = 0) =>
         Told # <<>> /\ Told[Len(Told)] = AnError

\* Of a stream that goes on as it comes, the events that came whole are told in their
\* order, but for those a keep-alive fell into, and never half of one as if it were whole.
RawIsWhole == handler.path \in Raw =>
    LET told == SelectSeq(Told, LAMBDA e : \E n \in DOMAIN stream : e = Event(n)) IN
    /\ \A i, j \in DOMAIN told : i < j => told[i].name[1].n < told[j].name[1].n
    /\ \A n \in 1 .. Len(stream) - (Len(rest) + 6) \div 7 :
         n \in torn \/ \E i \in DOMAIN told : told[i] = Event(n)

\* Of a translated stream every image up to the completion is told once, in order, as soon
\* as its data has come, and nothing after the completion.
ImagesAreTold == handler.path = "responses" =>
    SelectSeq(Told, LAMBDA e : e # AnError) = Due

\* A collection has a body if and only if its first completion has come with images.
CollectionIsAnswered == handler.path = "collect" /\ Ended =>
    IF Completions # {} /\ stream[Final].images > 0 /\ handler.end # "client"
    THEN out[Len(out)] = Tok("body", Final) ELSE out[Len(out)] = Json("json")

\* While the client listens, an error is left untold only if the completion was told
\* before, or if the handler found the end of the data first and does not look again.
ErrorsAreAnswered == Ended /\ error /\ ~gone =>
    \/ handler.end \in {"completed", "empty"}
    \/ handler.end = "data" /\ (handler.path # "compat" \/ ~(\E i \in DOMAIN out : out[i].k = "event"))

ImagesAreSound == ErrorsStandAlone /\ RawIsWhole /\ ImagesAreTold /\ CollectionIsAnswered /\ ErrorsAreAnswered
=============================================================================
