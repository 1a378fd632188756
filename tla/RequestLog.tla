------------------------------ MODULE RequestLog ------------------------------
(***************************************************************************)
(* The request log: what the middleware (internal/api/middleware) and the  *)
(* executors (helps/logging_helpers.go) note of a request, and the file    *)
(* that internal/logging/request_logger.go makes of it.  With the log off  *)
(* only failed requests get a file, and only so many of those are kept.    *)
(* Files that cannot be written are not modelled.                          *)
(***************************************************************************)
EXTENDS Integers, Sequences, FiniteSets, SequencesExt

CONSTANTS
    Clients,     \* requests
    Capacity,    \* of the channels between a response and its log file
    MaxFiles,    \* errorLogsMaxFiles
    MaxChunks,   \* bound on the chunks of a response
    MaxAttempts, \* bound on the attempts at an upstream
    MaxToggles   \* bound on the changes of request-log

VARIABLES
    enabled,  \* FileRequestLogger.enabled
    capture,  \* RequestLog of the executors' configuration
    toggles,  \* number of changes
    logs,     \* the log files in the order they were written, removed ones too
    req       \* the requests

vars == <<enabled, capture, toggles, logs, req>>

\* A FileBodySource: none, the parts in its files, or cleaned.
NoSource == [on |-> FALSE, clean |-> FALSE, parts |-> <<>>]
NewSource == [NoSource EXCEPT !.on = TRUE]
Noted(source, part) == IF source.clean THEN source ELSE [source EXCEPT !.parts = Append(@, part)]
Cleaned(source) == [source EXCEPT !.clean = @ \/ source.on, !.parts = <<>>]

\* A channel of chunks and who reads it.
NoPipe == [on |-> FALSE, queue |-> <<>>, closed |-> FALSE]
Sent(pipe, chunk) ==
    IF Len(pipe.queue) >= Capacity THEN pipe ELSE [pipe EXCEPT !.queue = Append(@, chunk)]

NoRequest == [
    phase |-> "none",
    onlyErrors |-> FALSE,  \* logOnErrorOnly
    status |-> 0, stream |-> FALSE, failed |-> FALSE,
    body |-> <<>>,         \* ResponseWriterWrapper.body
    chunks |-> NoPipe,     \* chunkChannel
    writes |-> NoPipe,     \* FileStreamingLogWriter.chunkChan
    file |-> <<>>,         \* response-body-*.tmp
    temps |-> FALSE,       \* the writer's temporary files are there
    upload |-> NoSource,   \* deferredBodyCapture
    asked |-> NoSource, answers |-> NoSource,
    deferred |-> <<>>,     \* DeferredAPIRequest
    askedHere |-> <<>>, answersHere |-> <<>>,  \* API_REQUEST, API_RESPONSE
    force |-> FALSE,       \* forceLog
    listed |-> {},         \* error logs listed by cleanupOldErrorLogs
    said |-> 0, attempts |-> 0, replies |-> 0,  \* history
    steady |-> TRUE, late |-> FALSE]

Init ==
    /\ enabled \in BOOLEAN /\ capture = enabled /\ toggles = 0
    /\ logs = <<>> /\ req = [c \in Clients |-> NoRequest]

Step(c, r) == req' = [req EXCEPT ![c] = r] /\ UNCHANGED <<enabled, capture, toggles>>
Same == UNCHANGED logs

-----------------------------------------------------------------------------
(* RequestLoggingMiddleware: with the log on, the sources of the upstream's *)
(* requests and responses; with the log off, a large body goes to a file.   *)
(* (In commercial mode there is no such middleware, some paths and methods  *)
(* are skipped, and a body in a file is cut at 32 MiB: not modelled.)       *)
Begin(c, large) ==
    /\ req[c].phase = "none" /\ (large => ~enabled)
    /\ Step(c, [NoRequest EXCEPT !.phase = "handling", !.onlyErrors = ~enabled,
                    !.steady = enabled = capture,
                    !.upload = IF large THEN Noted(NewSource, 0) ELSE NoSource,
                    !.asked = IF enabled THEN NewSource ELSE NoSource,
                    !.answers = IF enabled THEN NewSource ELSE NoSource])
    /\ Same

\* RecordAPIRequest of an attempt.  An executor may still be at it, or at its
\* response, when the request is over.
Ask(c) ==
    LET r == req[c] n == r.attempts + 1 IN
    /\ r.phase # "none" /\ n <= MaxAttempts
    /\ Step(c, [(CASE ~capture -> [r EXCEPT !.deferred = Append(@, n)]
                   [] capture /\ r.asked.on -> [r EXCEPT !.asked = Noted(@, n)]
                   [] capture /\ ~r.asked.on -> [r EXCEPT !.askedHere = Append(@, n)])
                EXCEPT !.attempts = n, !.late = @ \/ r.phase # "handling"])
    /\ Same

\* RecordAPIResponseMetadata, RecordAPIResponseError and AppendAPIResponseChunk.
Reply(c) ==
    LET r == req[c] IN
    /\ r.phase # "none" /\ r.replies < r.attempts
    /\ Step(c, [(CASE ~capture -> r
                   [] capture /\ r.answers.on -> [r EXCEPT !.answers = Noted(@, r.attempts)]
                   [] capture /\ ~r.answers.on -> [r EXCEPT !.answersHere = Append(@, r.attempts)])
                EXCEPT !.replies = r.attempts, !.late = @ \/ r.phase # "handling"])
    /\ Same

\* API_RESPONSE_ERROR: the handler was told of a failure of the upstream.
Failed(c) ==
    /\ req[c].phase = "handling" /\ ~req[c].failed
    /\ Step(c, [req[c] EXCEPT !.failed = TRUE]) /\ Same

-----------------------------------------------------------------------------
(* ResponseWriterWrapper.  A handler sets the status of an answer in one    *)
(* piece and of an error; what it streams sets none of its own.             *)
Streaming(r) == [r EXCEPT !.chunks.on = TRUE, !.writes.on = TRUE, !.temps = TRUE]

WriteHeader(c, status, sse) ==
    LET r == req[c] IN
    /\ r.phase = "handling" /\ r.status = 0
    /\ sse => status >= 400
    /\ LET noted == [r EXCEPT !.status = status, !.stream = sse]
       IN Step(c, IF sse /\ enabled THEN Streaming(noted) ELSE noted)
    /\ Same

\* shouldBufferResponseBody
Buffered(r) == enabled \/ (r.onlyErrors /\ r.status >= 400)

Write(c) ==
    LET r == req[c] n == r.said + 1 IN
    /\ r.phase = "handling" /\ n <= MaxChunks
    /\ Step(c, [(IF r.chunks.on THEN [r EXCEPT !.chunks = Sent(@, n)]
                 ELSE IF Buffered(r) THEN [r EXCEPT !.body = Append(@, n)] ELSE r)
                EXCEPT !.said = n])
    /\ Same

\* processStreamingChunks passes a chunk on, asyncWriter writes it to the file.
Pass(c) ==
    LET r == req[c] IN
    /\ r.chunks.queue # <<>>
    /\ Step(c, [r EXCEPT !.chunks.queue = Tail(@), !.writes = Sent(@, Head(r.chunks.queue))])
    /\ Same
Store(c) ==
    LET r == req[c] IN
    /\ r.writes.queue # <<>>
    /\ Step(c, [r EXCEPT !.writes.queue = Tail(@), !.file = Append(@, Head(r.writes.queue))])
    /\ Same

-----------------------------------------------------------------------------
(* Finalize. *)
CleanSome(r) ==  \* mutant of CleanAll: the body of the request is forgotten
    [r EXCEPT !.asked = Cleaned(@), !.answers = Cleaned(@)]

CleanAll(r) == [r EXCEPT !.upload = Cleaned(@), !.asked = Cleaned(@), !.answers = Cleaned(@)]

HasError(r) == r.failed \/ r.status >= 400

\* A request that began with the log on is not logged when it is off by now.
Finalize(c) ==
    LET r == req[c] force == r.onlyErrors /\ HasError(r) /\ ~enabled IN
    /\ r.phase = "handling"
    /\ Step(c, IF ~enabled /\ ~force THEN [CleanAll(r) EXCEPT !.phase = "over"]
               ELSE IF r.chunks.on THEN [r EXCEPT !.phase = "draining", !.chunks.closed = TRUE]
               ELSE [r EXCEPT !.phase = "logging", !.force = force])
    /\ Same

Drained(c) ==  \* streamDone
    LET r == req[c] IN
    /\ r.phase = "draining" /\ r.chunks.queue = <<>>
    /\ Step(c, [r EXCEPT !.phase = "closing", !.writes.closed = TRUE]) /\ Same

Log(c, error, response, asked, answers) ==
    [client |-> c, error |-> error, there |-> TRUE,
     response |-> response, asked |-> asked, answers |-> answers]
Asked(r) == r.askedHere \o r.asked.parts
Answers(r) == r.answersHere \o r.answers.parts

StreamLog(c, r) == Log(c, FALSE, r.file, Asked(r), Answers(r))
PlainLog(c, r, error) ==
    LET asked == IF r.force /\ Asked(r) = <<>> THEN r.deferred ELSE Asked(r)
    IN Log(c, error, r.body, asked, Answers(r))

\* FileStreamingLogWriter.Close, once its writer is done.
Close(c) ==
    LET r == req[c] IN
    /\ r.phase = "closing" /\ r.writes.queue = <<>>
    /\ logs' = Append(logs, StreamLog(c, r))
    /\ Step(c, [CleanAll(r) EXCEPT !.phase = "over", !.temps = FALSE,
                    !.chunks = NoPipe, !.writes = NoPipe])

\* logRequestWithSources: a log that is off by now writes an error log, and
\* only when the failure was the reason.
LogPlain(c) ==
    LET r == req[c] error == r.force /\ ~enabled
    IN /\ r.phase = "logging"
       /\ IF ~enabled /\ ~r.force THEN Same
          ELSE logs' = Append(logs, PlainLog(c, r, error))
       /\ Step(c, [CleanAll(r) EXCEPT !.phase = IF error THEN "listing" ELSE "over"])

\* cleanupOldErrorLogs: the oldest go, unless the log is on by now.
ErrorLogs == {i \in DOMAIN logs : logs[i].there /\ logs[i].error}
Newer(listed, i) == {j \in listed : j > i}
Old(listed) == {i \in listed : Cardinality(Newer(listed, i)) >= MaxFiles}

List(c) ==
    LET r == req[c] IN
    /\ r.phase = "listing"
    /\ Step(c, IF enabled THEN [r EXCEPT !.phase = "over"]
               ELSE [r EXCEPT !.phase = "pruning", !.listed = ErrorLogs])
    /\ Same
Prune(c) ==
    LET r == req[c] IN
    /\ r.phase = "pruning"
    /\ logs' = [i \in DOMAIN logs |->
                   [logs[i] EXCEPT !.there = @ /\ i \notin Old(r.listed)]]
    /\ Step(c, [r EXCEPT !.phase = "over", !.listed = {}])

\* A reload changes the logger and the configuration of the executors.
Toggle(which) ==
    /\ toggles < MaxToggles /\ toggles' = toggles + 1
    /\ enabled' = IF which = "logger" THEN ~enabled ELSE enabled
    /\ capture' = IF which = "executors" THEN ~capture ELSE capture
    /\ req' = [c \in Clients |->
                  IF req[c].phase = "none" THEN req[c] ELSE [req[c] EXCEPT !.steady = FALSE]]
    /\ Same

Next ==
    \/ \E c \in Clients :
        \/ \E large \in BOOLEAN : Begin(c, large)
        \/ \E status \in {200, 500}, sse \in BOOLEAN : WriteHeader(c, status, sse)
        \/ Ask(c) \/ Reply(c) \/ Failed(c) \/ Write(c) \/ Pass(c) \/ Store(c)
        \/ Finalize(c) \/ Drained(c) \/ Close(c) \/ LogPlain(c) \/ List(c) \/ Prune(c)
    \/ \E which \in {"logger", "executors"} : Toggle(which)

Spec == Init /\ [][Next]_vars

-----------------------------------------------------------------------------
(* A request that is over leaves no temporary file and no goroutine behind, *)
(* not even when an executor notes something later, unless the log was      *)
(* switched off while it streamed.                                          *)
Over(c) == req[c].phase \in {"listing", "pruning", "over"}
Tidy(c) ==
    LET r == req[c] IN
    Over(c) =>
        /\ \A source \in {r.upload, r.asked, r.answers} :
               source.parts = <<>> /\ source.on = source.clean
        /\ r.steady => ~r.temps /\ ~r.chunks.on /\ ~r.writes.on

\* While nothing is switched, every request is logged when the log is on, and
\* every failed one when it is off (and its log pruned, perhaps), with all
\* that was tried and answered, and with what the client got, in its order: all
\* of it unless it was streamed, and of a failure what followed the status.
LogsOf(c) == {i \in DOMAIN logs : logs[i].there /\ logs[i].client = c}
Promised(c) ==
    LET r == req[c] IN
    r.steady /\ Over(c)
Ordered(seq) == \A i, j \in DOMAIN seq : i < j => seq[i] < seq[j]
Kept(c) ==
    /\ \A i \in LogsOf(c) : Ordered(logs[i].response)
    /\ Promised(c) =>
        LET r == req[c] found == LogsOf(c) IN
        /\ \A i, j \in found : i = j
        /\ enabled => found # {}
        /\ HasError(r) => \E i \in DOMAIN logs : logs[i].client = c
        /\ ~enabled /\ ~HasError(r) => found = {}
        /\ \A i \in found :
            LET log == logs[i] IN
            /\ log.error = ~enabled
            /\ ~r.late => log.asked = [n \in 1..r.attempts |-> n]
            /\ ~r.late /\ enabled => ToSet(log.answers) \subseteq ToSet(log.asked)
            /\ enabled /\ ~r.stream => log.response = [n \in 1..r.said |-> n]

\* Of the error logs the newest are kept: those of the last requests to end.
Rest == \A c \in Clients : req[c].phase \notin {"listing", "pruning"}
ErrorsBounded ==
    /\ toggles = 0 /\ Rest => Cardinality(ErrorLogs) <= MaxFiles
    /\ Rest /\ (\E c \in Clients : Over(c) /\ req[c].force /\ req[c].steady) => ErrorLogs # {}

LogsAreKept == ErrorsBounded /\ \A c \in Clients : Tidy(c) /\ Kept(c)

(* Violated: what a stream told before its failure is in the log of the     *)
(* failure ("provides methods for writing both regular and streaming        *)
(* HTTP request/response cycles").                                          *)
StreamIsLogged ==
    \A c \in Clients : Promised(c) /\ enabled /\ MaxChunks <= Capacity =>
        \A i \in LogsOf(c) : logs[i].response = [n \in 1..req[c].said |-> n]
=============================================================================
