----------------------------- MODULE StreamRelay -----------------------------
(***************************************************************************)
(* One request from the client's side: the handler's goroutine (the        *)
(* writer), the manager's loop it calls, the goroutine that wraps an       *)
(* upstream stream (wrapStreamResult), the goroutine that relays chunks    *)
(* and retries a failed bootstrap (executeStreamWithAuthManagerFormats),   *)
(* and the client, who may go away at any time.  The channels between them *)
(* are unbuffered, but for one error message.                              *)
(***************************************************************************)
EXTENDS Requests

CONSTANTS
    Dialects,           \* "openai" and "claude" peek at a stream differently
    BootstrapRetries,   \* streaming.bootstrap-retries
    MaxChunks           \* bound: chunks with a payload of one stream

ASSUME StreamRelayAssumption == BootstrapRetries \in Nat

VARIABLES
    client,    \* "here" or "gone"
    writer,    \* the handler: phase, dialect and whether it saw errs closed
    relay,     \* the relaying goroutine
    wrap,      \* wrap[s]: the wrapping goroutine of the s-th stream
    errs,      \* the error channel: messages and whether it is closed
    dataOpen,  \* FALSE once the data channel is closed
    ticker,    \* keep-alive of a non-streaming response: "on", "stopping", "off"
    out        \* what the client has been sent

relayVars == <<client, writer, relay, wrap, errs, dataOpen, ticker, out>>
vars == <<loopVars, relayVars>>

Streams == 1..(1 + BootstrapRetries)
NoWrap  == [st |-> "none", buffered |-> 0, sent |-> 0, open |-> FALSE, failed |-> FALSE]

Init ==
    /\ \E kind \in Kinds : LoopInit(kind)
    /\ client = "here"
    /\ \E d \in Dialects : writer = [phase |-> "start", dialect |-> d]
    /\ relay = [phase |-> "off", cur |-> 1, pending |-> <<>>, closed |-> FALSE,
                sent |-> FALSE, boots |-> 0, err |-> "none"]
    /\ wrap = [s \in Streams |-> NoWrap]
    /\ errs = [msgs |-> <<>>, closed |-> FALSE]
    /\ dataOpen = TRUE
    /\ ticker = "off"
    /\ out = <<>>

\* What the client is sent: the n-th payload of a stream, or something else.
Sent(what) == [what |-> what, stream |-> 0, n |-> 0]
Last(what) == out # <<>> /\ out[Len(out)].what = what

Streaming == loop.kind = "stream"
CtxVars == <<held, owed, refused>>

-----------------------------------------------------------------------------
(* The context follows the client (GetContextWithCancel).                  *)

ClientLeaves ==
    /\ client = "here" /\ writer.phase # "ended"
    /\ client' = "gone"
    /\ UNCHANGED <<loopVars, writer, relay, wrap, errs, dataOpen, ticker, out>>

ContextEnds ==
    /\ client = "gone" /\ ~ctx
    /\ ctx' = TRUE
    /\ UNCHANGED <<loop, CtxVars, relayVars>>

\* The handler returns; its cancel function ends the context.
Finish(item) ==
    /\ out' = IF item = "nothing" THEN out ELSE Append(out, Sent(item))
    /\ writer' = [writer EXCEPT !.phase = "ended"]
    /\ ctx' = TRUE

-----------------------------------------------------------------------------
(* A response that is not streamed.                                        *)

Start ==
    /\ writer.phase = "start"
    /\ Begin
    /\ writer' = [writer EXCEPT !.phase = "blocked"]
    /\ ticker' = IF loop.kind = "execute" THEN "on" ELSE "off"
    /\ UNCHANGED <<held, ctx, owed, refused, client, relay, wrap, errs, dataOpen, out>>

\* StartNonStreamingKeepAlive's ticker; consecutive blank lines are one.
KeepAlive ==
    /\ ticker \in {"on", "stopping"}
    /\ out' = IF Last("blank") THEN out ELSE Append(out, Sent("blank"))
    /\ UNCHANGED <<loopVars, client, writer, relay, wrap, errs, dataOpen, ticker>>

TickerEnds ==
    /\ ticker = "stopping" \/ (ticker = "on" /\ ctx)
    /\ ticker' = "off"
    /\ UNCHANGED <<loopVars, client, writer, relay, wrap, errs, dataOpen, out>>

\* The loop has returned: stop the ticker and wait for it ...
StopTicker ==
    /\ ~Streaming /\ writer.phase = "blocked" /\ Returned
    /\ writer' = [writer EXCEPT !.phase = "respond"]
    /\ ticker' = IF ticker = "on" THEN "stopping" ELSE ticker
    /\ UNCHANGED <<loopVars, client, relay, wrap, errs, dataOpen, out>>

\* ... and write the body or the error.
Respond ==
    /\ writer.phase = "respond" /\ ticker = "off"
    /\ Finish(IF loop.pc = "done" THEN "body" ELSE "error")
    /\ UNCHANGED <<loop, CtxVars, client, relay, wrap, errs, dataOpen, ticker>>

-----------------------------------------------------------------------------
(* The wrapping goroutine.                                                 *)

\* ExecuteStream has returned a stream: what was buffered goes first.
Wrapped ==
    CASE loop.pc = "stream" ->
           [NoWrap EXCEPT !.st = "on", !.buffered = loop.buffered, !.open = TRUE, !.sent = 0]
      [] loop.pc = "closed" -> [NoWrap EXCEPT !.st = "on", !.buffered = loop.buffered]
      [] loop.pc = "errorStream" -> [NoWrap EXCEPT !.st = "error"]

\* What the goroutine of s can offer next: buffered empty chunks first, then
\* the payload that ended the bootstrap, then whatever the upstream sends.
Offers(s) ==
    LET w == wrap[s]
        ready == w.st = "on" /\ w.buffered = 0 /\ w.open
    IN  CASE w.st = "error" -> {loop.lastErr}
          [] w.st = "on" /\ w.buffered > 0 -> {"empty"}
          [] ready /\ w.sent = 0 -> {"payload"}
          [] ready /\ w.sent > 0 ->
                 {"429", "invalid"} \union (IF w.sent < MaxChunks THEN {"payload", "bad"} ELSE {})
          [] OTHER -> {}

IsError(c) == c \notin {"empty", "payload", "bad"}

AfterOffer(w, c) ==
    [w EXCEPT !.buffered = IF @ > 0 THEN @ - 1 ELSE @,
              !.sent = IF c \in {"payload", "bad"} THEN @ + 1 ELSE @,
              !.failed = @ \/ IsError(c),
              !.open = @ /\ ~IsError(c),
              !.st = IF @ = "error" THEN "ended" ELSE @]

\* Faulty variant: every error of a stream is marked, also one that was handed
\* on by the manager's loop, which had marked it.
MarksEveryOffer(s, c) ==
    IF IsError(c) THEN Mark(loop.auth, Key, c) /\ owed' = owed - 1 ELSE UNCHANGED <<held, owed>>

\* The first error of a stream is marked before it is passed on.
MarksOffer(s, c) ==
    IF wrap[s].st = "on" /\ IsError(c) /\ ~wrap[s].failed
    THEN Mark(loop.auth, Key, c) /\ owed' = owed - 1 ELSE UNCHANGED <<held, owed>>

\* The upstream has closed: a stream without an error is a success.
WrapEnds(s) ==
    /\ wrap[s].st = "on" /\ wrap[s].buffered = 0
    /\ wrap[s].open => wrap[s].sent > 0
    /\ wrap' = [wrap EXCEPT ![s].st = "ended"]
    /\ IF wrap[s].failed THEN UNCHANGED <<held, owed>>
       ELSE Mark(loop.auth, Key, "none") /\ owed' = owed - 1
    /\ UNCHANGED <<loop, ctx, refused, client, writer, relay, errs, dataOpen, ticker, out>>

\* Faulty variant: a chunk waits for its receiver whatever happens.
WrapDeaf(s) ==
    /\ wrap[s].st = "on" /\ ctx /\ Offers(s) = {}
    /\ \E c \in Offers(s) : MarksOffer(s, c)
    /\ wrap' = [wrap EXCEPT ![s].st = "ended"]
    /\ UNCHANGED <<loop, ctx, refused, client, writer, relay, errs, dataOpen, ticker, out>>

\* The context ends while a chunk waits for its receiver: the rest is
\* discarded, and no result is marked but for an error in hand.
WrapCancelled(s) ==
    /\ wrap[s].st = "on" /\ ctx
    /\ \E c \in Offers(s) : MarksOffer(s, c)
    /\ wrap' = [wrap EXCEPT ![s].st = "ended"]
    /\ UNCHANGED <<loop, ctx, refused, client, writer, relay, errs, dataOpen, ticker, out>>

-----------------------------------------------------------------------------
(* The relaying goroutine, and readInitialStreamChunks before it starts.   *)

RelayVars == <<client, writer, errs, dataOpen, ticker, out>>

\* Of a loop that has returned only the credential and the model stay known.
Taken == [Idle(loop.kind) EXCEPT !.auth = loop.auth, !.lastErr = loop.lastErr,
                                 !.models = IF loop.models = <<>> THEN <<>> ELSE <<Model>>]

\* ExecuteStream has returned a stream to its first caller, or to the relay.
TakeStream ==
    /\ Streaming /\ Returned /\ loop.pc # "error"
    /\ \/ writer.phase = "blocked" /\ relay.phase = "off"
          /\ wrap' = [wrap EXCEPT ![1] = Wrapped]
          /\ relay' = [relay EXCEPT !.phase = "initial"]
       \/ relay.phase = "retrying"
          /\ wrap' = [wrap EXCEPT ![relay.boots + 1] = Wrapped]
          /\ relay' = [relay EXCEPT !.phase = "loop", !.cur = relay.boots + 1,
                                    !.pending = <<>>, !.closed = FALSE]
    /\ loop' = Taken
    /\ UNCHANGED <<ctx, CtxVars, RelayVars>>

\* ExecuteStream has returned an error to the handler: no data channel at all.
FirstFails ==
    /\ Streaming /\ writer.phase = "blocked" /\ relay.phase = "off" /\ loop.pc = "error"
    /\ errs' = [msgs |-> <<loop.lastErr>>, closed |-> TRUE]
    /\ writer' = [writer EXCEPT !.phase = "peek"]
    /\ relay' = [relay EXCEPT !.phase = "absent"]
    /\ UNCHANGED <<loopVars, client, wrap, dataOpen, ticker, out>>

\* The chunk c of stream s reaches the relay.
Receive(s, c) ==
    /\ c \in Offers(s)
    /\ MarksOffer(s, c)
    /\ wrap' = [wrap EXCEPT ![s] = AfterOffer(@, c)]
    /\ refused' = IF IsError(c) /\ wrap[s].st = "on" THEN c = "invalid" ELSE refused
    /\ UNCHANGED <<loop, ctx>>

\* The first chunks are read before the goroutine starts, up to a payload or
\* an error.
Initial(c) ==
    /\ relay.phase = "initial"
    /\ Receive(relay.cur, c)
    /\ relay' = [relay EXCEPT !.pending = Append(@, c),
                              !.phase = IF c = "empty" THEN @ ELSE "loop"]
    /\ writer' = IF c = "empty" THEN writer ELSE [writer EXCEPT !.phase = "peek"]
    /\ UNCHANGED <<client, errs, dataOpen, ticker, out>>

InitialEnds ==
    /\ relay.phase = "initial"
    /\ \/ wrap[relay.cur].st = "ended" /\ relay' = [relay EXCEPT !.phase = "loop", !.closed = TRUE]
       \/ ctx /\ relay' = [relay EXCEPT !.phase = "closing"]
    /\ writer' = [writer EXCEPT !.phase = "peek"]
    /\ UNCHANGED <<loopVars, client, wrap, errs, dataOpen, ticker, out>>

\* bootstrapEligible: the statuses 401, 402, 403, 408, 429, 5xx and none.  (A
\* 500 that says UNKNOWN would be an invalid request that is eligible; the
\* manager returns it before there is a stream, and none is in one here.)
Eligible(err) == err # "invalid"

\* Faulty variant: an error after the first payload is retried as well.
HandleRetrying(c) ==
    IF IsError(c)
    THEN IF relay.boots < BootstrapRetries /\ Eligible(c)
         THEN [relay EXCEPT !.phase = "retry", !.boots = @ + 1]
         ELSE [relay EXCEPT !.phase = "report", !.err = c]
    ELSE CASE c = "bad" -> [relay EXCEPT !.phase = "report", !.err = "bad"]
           [] c = "payload" -> [relay EXCEPT !.phase = "send", !.sent = TRUE]
           [] OTHER -> relay

\* What the relay does with a chunk: it skips an empty one, sends a payload,
\* reports a payload that is no JSON, and retries an error before the first
\* payload, if any retry is left and the error allows for it.
Handle(c) ==
    IF IsError(c)
    THEN IF ~relay.sent /\ relay.boots < BootstrapRetries /\ Eligible(c)
         THEN [relay EXCEPT !.phase = "retry", !.boots = @ + 1]
         ELSE [relay EXCEPT !.phase = "report", !.err = c]
    ELSE CASE c = "bad" -> [relay EXCEPT !.phase = "report", !.err = "bad"]
           [] c = "payload" -> [relay EXCEPT !.phase = "send", !.sent = TRUE]
           [] OTHER -> relay

NextPending ==
    /\ relay.phase = "loop" /\ relay.pending # <<>>
    /\ LET c == Head(relay.pending) IN relay' = [Handle(c) EXCEPT !.pending = Tail(@)]
    /\ UNCHANGED <<loopVars, wrap, RelayVars>>

NextReceived(c) ==
    /\ relay.phase = "loop" /\ relay.pending = <<>> /\ ~relay.closed
    /\ Receive(relay.cur, c)
    /\ relay' = Handle(c)
    /\ UNCHANGED RelayVars

\* The stream is over, or the context is: the goroutine returns.
NoMoreChunks ==
    /\ relay.phase = "loop" /\ relay.pending = <<>>
    /\ relay.closed \/ ctx \/ wrap[relay.cur].st = "ended"
    /\ relay' = [relay EXCEPT !.phase = "closing"]
    /\ UNCHANGED <<loopVars, wrap, RelayVars>>

\* The bootstrap is retried with the whole of the manager's loop.
Retry ==
    /\ relay.phase = "retry" /\ loop.pc = "idle"
    /\ Begin
    /\ relay' = [relay EXCEPT !.phase = "retrying"]
    /\ UNCHANGED <<ctx, CtxVars, wrap, RelayVars>>

RetryFails ==
    /\ relay.phase = "retrying" /\ loop.pc = "error"
    /\ relay' = [relay EXCEPT !.phase = "report", !.err = loop.lastErr]
    /\ loop' = Taken
    /\ UNCHANGED <<ctx, CtxVars, wrap, RelayVars>>

\* sendErr: the message, unless the context ends first.
Report ==
    /\ relay.phase = "report"
    /\ \/ errs' = [errs EXCEPT !.msgs = <<relay.err>>]
       \/ ctx /\ UNCHANGED errs
    /\ relay' = [relay EXCEPT !.phase = "closing"]
    /\ UNCHANGED <<loopVars, client, writer, wrap, dataOpen, ticker, out>>

SendCancelled ==
    /\ relay.phase = "send" /\ ctx
    /\ relay' = [relay EXCEPT !.phase = "closing"]
    /\ UNCHANGED <<loopVars, wrap, RelayVars>>

\* The deferred calls: the error channel is closed before the data channel.
CloseErrs ==
    /\ relay.phase = "closing"
    /\ errs' = [errs EXCEPT !.closed = TRUE]
    /\ relay' = [relay EXCEPT !.phase = "closed"]
    /\ UNCHANGED <<loopVars, client, writer, wrap, dataOpen, ticker, out>>

CloseData ==
    /\ relay.phase = "closed" /\ dataOpen
    /\ dataOpen' = FALSE
    /\ relay' = [relay EXCEPT !.phase = "gone"]
    /\ UNCHANGED <<loopVars, client, writer, wrap, errs, ticker, out>>

-----------------------------------------------------------------------------
(* The writer: it peeks at the first chunk (handleStreamingResponse of the *)
(* dialects) and then forwards (ForwardStream).                            *)

Reads == writer.phase \in {"peek", "forward"}
WriterVars == <<loop, CtxVars, client, relay, wrap, dataOpen, ticker>>

WriteChunk ==
    /\ Reads /\ relay.phase = "send"
    /\ out' = Append(out, [what |-> "chunk", stream |-> relay.cur, n |-> wrap[relay.cur].sent])
    /\ writer' = [writer EXCEPT !.phase = "forward"]
    /\ relay' = [relay EXCEPT !.phase = "loop"]
    /\ UNCHANGED <<loopVars, client, wrap, errs, dataOpen, ticker>>

WriteError ==
    /\ Reads /\ errs.msgs # <<>>
    /\ errs' = [errs EXCEPT !.msgs = <<>>]
    /\ Finish("error")
    /\ UNCHANGED WriterVars

PendingError == errs.msgs # <<>> /\ (writer.phase = "forward" \/ writer.dialect = "claude")

\* The data channel is closed.  ForwardStream and Claude's peek look once more
\* for an error, OpenAI's peek does not.
WriteDone ==
    /\ Reads /\ ~dataOpen
    /\ IF PendingError
       THEN errs' = [errs EXCEPT !.msgs = <<>>] /\ Finish("error")
       ELSE UNCHANGED errs /\ Finish("done")
    /\ UNCHANGED WriterVars

WriterCancelled ==
    /\ Reads /\ client = "gone"
    /\ Finish("nothing")
    /\ UNCHANGED <<WriterVars, errs>>

-----------------------------------------------------------------------------
Manager == Loop /\ UNCHANGED relayVars

Upstreams == \E s \in Streams : WrapEnds(s) \/ WrapCancelled(s)

Chunks == {"empty", "payload", "bad", "401", "429", "invalid", "no_data"}

Relay ==
    \/ TakeStream \/ FirstFails \/ InitialEnds
    \/ \E c \in Chunks : Initial(c) \/ NextReceived(c)
    \/ NextPending \/ NoMoreChunks \/ Retry \/ RetryFails
    \/ Report \/ SendCancelled \/ CloseErrs \/ CloseData

Writer ==
    \/ Start \/ StopTicker \/ Respond
    \/ WriteChunk \/ WriteError \/ WriteDone \/ WriterCancelled

Next == Manager \/ Upstreams \/ Relay \/ Writer \/ KeepAlive \/ TickerEnds
        \/ ClientLeaves \/ ContextEnds

\* Every goroutine runs, and the upstream answers or closes.
Fairness ==
    /\ WF_vars(Manager) /\ WF_vars(Relay) /\ WF_vars(Writer)
    /\ \A s \in Streams : WF_vars(WrapEnds(s) \/ WrapCancelled(s))
    /\ WF_vars(TickerEnds) /\ WF_vars(ContextEnds)

Spec == Init /\ [][Next]_vars /\ Fairness

-----------------------------------------------------------------------------
(* Properties                                                              *)

\* The client is served one upstream stream from its first payload on, without
\* a gap or a repetition, whatever was retried before; an error, the end or a
\* body is the last it is sent; and an end it is told means that the stream
\* ended without an error and that nothing of it is missing.
AnswerIsWhole ==
    /\ \A i \in 1..Len(out) : out[i].what = "chunk" =>
          \A j \in 1..i : out[j] = [what |-> "chunk", stream |-> out[1].stream, n |-> j]
    /\ \A i \in 1..Len(out) : out[i].what \in {"error", "done", "body"} => i = Len(out)
    /\ Last("done") /\ (Len(out) > 1 \/ writer.dialect = "claude") =>
         /\ errs.msgs = <<>>
         /\ client = "here" => wrap[relay.cur].st = "ended" /\ ~wrap[relay.cur].failed
                               /\ wrap[relay.cur].sent = Len(out) - 1

OpenCalls ==
    (IF loop.pc \in {"bootstrap", "stream", "closed"} THEN 1 ELSE 0)
    + Cardinality({s \in Streams : wrap[s].st = "on" /\ ~wrap[s].failed})

\* While the client stays, every upstream call is answered for exactly once: by
\* a result, or by its repetition with a refreshed credential.  (A stream cut
\* short because its payload is no JSON is not, see the writer's cancel.)
ResultsAccountedFor ==
    client = "here" /\ relay.err # "bad" => owed = OpenCalls

\* After the upstream has called the request itself invalid, and while the
\* request is not cancelled, nobody tries again: neither another model or
\* credential, nor the retries after a cooldown, nor those of the bootstrap.
InvalidIsFinal == refused /\ ~ctx =>
    loop.pc \notin {"pick", "prepare", "call", "bootstrap", "wait"}

\* Whatever the upstream does and whether or not the client stays, the handler
\* returns and no goroutine of the request is left behind.
NothingLeftBehind ==
    <>[](/\ writer.phase = "ended" /\ ticker = "off"
        /\ relay.phase \in {"off", "absent", "gone"}
        /\ \A s \in Streams : wrap[s].st # "on")

\* handleStreamingResponse peeks "to determine success or failure before
\* setting headers": a stream that failed before its first payload is told as
\* an error, not as an empty stream.
ErrorsAreTold == Last("done") => errs.msgs = <<>>
=============================================================================
