------------------------------ MODULE WsResponses ------------------------------
(***************************************************************************)
(* The Responses API over a websocket (sdk/api/handlers/openai/            *)
(* openai_responses_websocket*.go) for an upstream without websockets: the *)
(* client sends what is new, and the server makes a whole transcript of    *)
(* it, from the last request, the last answer and the cached tool calls.   *)
(* An item is told apart by its number; those of the upstream have an item *)
(* id as well.  "log" is the conversation as the client knows it.          *)
(***************************************************************************)
EXTENDS Integers, Sequences, SequencesExt

CONSTANTS
    MaxPerSession,  \* websocketToolOutputCacheMaxPerSession
    MaxItems,       \* bound on the items of a conversation
    MaxFails        \* bound on failed turns, compactions and reconnections

VARIABLES
    conn,    \* lastRequest's input (or Unset) and lastResponseOutput
    calls,   \* defaultWebsocketToolCallCache of the session
    outs,    \* defaultWebsocketToolOutputCache of the session
    keyed,   \* the client names its session
    turn,    \* the turn in progress: the request sent and the items collected
    log,     \* the client's transcript of the turns that completed
    asked,   \* what it has asked since: the input of the turn, or of the next try
    given,   \* number of items so far
    made,    \* number of calls so far
    fails,   \* number of failures so far
    hard     \* a turn has failed and was not taken back

vars == <<conn, calls, outs, keyed, turn, log, asked, given, made, fails, hard>>

NoCall == 0
Item(n, kind, call, whole) == [n |-> n, kind |-> kind, call |-> call, whole |-> whole]
Unset == <<Item(0, "unset", NoCall, TRUE)>>
Idle == [on |-> FALSE, request |-> <<>>, before |-> <<>>, collected |-> <<>>]
NoConn == [last |-> Unset, output |-> <<>>]
NoCache == [order |-> <<>>, item |-> <<>>]

Init ==
    /\ conn = NoConn /\ calls = NoCache /\ outs = NoCache /\ keyed \in BOOLEAN
    /\ turn = Idle /\ log = <<>> /\ asked = <<>> /\ given = 0 /\ made = 0 /\ fails = 0 /\ hard = FALSE

-----------------------------------------------------------------------------
IsCall(item) == item.kind = "call"
IsOutput(item) == item.kind = "output"
HasId(item) == item.kind \in {"assistant", "call"}
OfKind(items, kind) == SelectSeq(items, LAMBDA item : item.kind = kind)
CallsIn(items, kind) == {item.call : item \in ToSet(OfKind(items, kind))}

\* record: the newest item under a call id; the ids leave in the order they came.
Record(cache, item) ==
    LET order == IF item.call \in DOMAIN cache.item THEN cache.order
                 ELSE Append(cache.order, item.call)
        kept == IF Len(order) > MaxPerSession THEN Tail(order) ELSE order
    IN [order |-> kept, item |-> [c \in ToSet(kept) |->
            IF c = item.call THEN item ELSE cache.item[c]]]

RecordAll(cache, items, kind) == FoldLeft(Record, cache, OfKind(items, kind))

DedupeCalls(items) ==
    SelectSeq([i \in DOMAIN items |->
        IF IsCall(items[i]) /\ \E j \in 1 .. i - 1 : IsCall(items[j]) /\ items[j].call = items[i].call
        THEN Unset[1] ELSE items[i]],
      LAMBDA item : item # Unset[1])

\* dedupeInputItemsByID: of the items with one id the last is kept, or the last
\* whose call has an output.
DedupeItems(items) ==
    LET referenced == {i \in DOMAIN items :
            IsCall(items[i]) /\ items[i].call \in CallsIn(items, "output")}
        Same(i) == {j \in DOMAIN items : HasId(items[j]) /\ items[j].n = items[i].n}
        Best(s) == IF s \cap referenced = {} THEN s ELSE s \cap referenced
    IN SelectSeq([i \in DOMAIN items |->
            IF HasId(items[i]) /\ \E j \in Best(Same(i)) : j > i \/ i \notin Best(Same(i))
            THEN Unset[1] ELSE items[i]],
          LAMBDA item : item # Unset[1])

\* The second pass of repairResponsesToolCallsArray.  A call without an output
\* gets the cached one or goes; an output without a call likewise.  (Only a request
\* that names a previous response may keep them: the first of a connection.)
RepairItem(s, item) ==
    CASE IsOutput(item) ->
            IF item.call \in s.callPresent THEN [s EXCEPT !.out = Append(@, item)]
            ELSE IF item.call \in DOMAIN s.calls.item
            THEN [s EXCEPT !.out = @ \o <<s.calls.item[item.call], item>>,
                           !.callPresent = @ \cup {item.call}]
            ELSE s
      [] IsCall(item) ->
            IF item.call \in s.outputPresent THEN [s EXCEPT !.out = Append(@, item)]
            ELSE IF item.call \in DOMAIN s.outs.item
            THEN [s EXCEPT !.out = @ \o <<item, s.outs.item[item.call]>>,
                           !.outputPresent = @ \cup {item.call}]
            ELSE s
      [] OTHER -> [s EXCEPT !.out = Append(@, item)]

RepairForgetting(items, callCache, outCache) ==  \* mutant: orphans go, cached or not
    SelectSeq(items, LAMBDA item :
        /\ IsOutput(item) => item.call \in CallsIn(items, "call")
        /\ IsCall(item) => item.call \in CallsIn(items, "output"))
Repair(items, callCache, outCache) ==
    FoldLeft(RepairItem,
        [out |-> <<>>, calls |-> callCache, outs |-> outCache,
         outputPresent |-> CallsIn(items, "output"), callPresent |-> CallsIn(items, "call")],
        items).out

\* shouldReplaceWebsocketTranscript: what only a whole transcript has in it.
Replaces(input) == \E i \in DOMAIN input : input[i].kind \in {"call", "assistant", "summary"}

\* normalizeResponseSubsequentRequest for such an upstream.  A client that names
\* the previous response sends what is new like any other, and the name is taken
\* out; not modelled are the first request of a connection with such a name, which
\* goes on as it is, requests without a model or an input, which are refused, and
\* compaction items on their way to an upstream that cannot replay them.
Normalized(input) ==
    IF conn.last = Unset \/ Replaces(input) THEN input
    ELSE DedupeItems(DedupeCalls(conn.last \o conn.output \o input))

\* The body of the loop of ResponsesWebsocket up to ExecuteStream.
Receive(input) ==
    LET items == Normalized(input)
        calls1 == IF keyed THEN RecordAll(calls, items, "call") ELSE calls
        outs1 == IF keyed THEN RecordAll(outs, items, "output") ELSE outs
        request == DedupeItems(IF keyed THEN Repair(items, calls1, outs1) ELSE items)
    IN /\ calls' = calls1 /\ outs' = outs1
       /\ conn' = [conn EXCEPT !.last = request]
       /\ turn' = [on |-> TRUE, request |-> request, before |-> <<conn>>, collected |-> <<>>]

\* A first request that generates nothing is answered here.
Prewarm(input) ==
    /\ conn.last = Unset
    /\ conn' = [last |-> input, output |-> <<>>]
    /\ UNCHANGED <<calls, outs, turn>>

-----------------------------------------------------------------------------
Known == log \o asked
Unanswered == CallsIn(Known, "call") \ CallsIn(Known, "output")

\* The client goes on with results for open calls, with words, or with both;
\* it sends the whole transcript on a new connection, and at other times only
\* when there is something in it that makes it known as one.
Outputs(cs, n) ==
    LET seq == SetToSortSeq(cs, <) IN
    [i \in DOMAIN seq |-> Item(n + i, "output", seq[i], TRUE)]
NewItems == UNION {
    LET os == Outputs(cs, given) IN
    {os, Append(os, Item(given + Len(os) + 1, "user", NoCall, TRUE))} : cs \in SUBSET Unanswered}

Ask(new, whole) ==
    /\ ~turn.on /\ given + Len(new) <= MaxItems
    /\ Len(asked) + Len(new) > 0
    /\ asked = <<>> \/ new = <<>>
    /\ whole => Replaces(log)
    /\ LET input == IF whole \/ conn.last = Unset THEN log \o asked \o new ELSE asked \o new
       IN input # <<>> /\ Receive(input)
    /\ asked' = asked \o new /\ given' = given + Len(new)
    /\ UNCHANGED <<keyed, log, made, fails, hard>>

AskPrewarm(new) ==
    /\ ~turn.on /\ log = <<>> /\ asked = <<>> /\ new # <<>> /\ Len(new) <= MaxItems
    /\ Prewarm(new)
    /\ log' = new /\ given' = Len(new)
    /\ UNCHANGED <<keyed, asked, made, fails, hard>>

\* The upstream's events: items that are done, and then an end.
ItemDone(kind) ==
    /\ turn.on /\ given < MaxItems
    /\ LET n == given + 1
           item == Item(n, kind, IF kind = "call" THEN n ELSE NoCall, TRUE)
       IN /\ turn' = [turn EXCEPT !.collected = Append(@, item)]
          /\ calls' = IF keyed /\ IsCall(item) THEN Record(calls, item) ELSE calls
          /\ given' = n /\ made' = IF IsCall(item) THEN made + 1 ELSE made
    /\ UNCHANGED <<conn, outs, keyed, log, asked, fails, hard>>

\* restoreResponsesWebsocketCompletionOutput: an empty list is filled with what
\* was collected, and a call is taken as it was collected.
Restored(listed, collected) ==
    IF listed = <<>> THEN collected
    ELSE [i \in DOMAIN listed |->
            IF ~IsCall(listed[i]) \/ ~\E j \in DOMAIN collected : collected[j].n = listed[i].n
            THEN listed[i] ELSE collected[CHOOSE j \in DOMAIN collected : collected[j].n = listed[i].n]]

Listings == {<<>>, turn.collected,
    [i \in DOMAIN turn.collected |-> [turn.collected[i] EXCEPT !.whole = ~IsCall(turn.collected[i])]]}

Completed(listed) ==
    /\ turn.on /\ turn' = Idle
    /\ LET output == Restored(listed, turn.collected) IN
       /\ conn' = [conn EXCEPT !.output = output]
       /\ calls' = IF keyed THEN RecordAll(calls, SelectSeq(output, LAMBDA i : i.whole), "call") ELSE calls
    /\ log' = log \o asked \o turn.collected /\ asked' = <<>>
    /\ UNCHANGED <<outs, keyed, given, made, fails, hard>>

\* A failure that another credential may repair takes the turn back; after any
\* other one the request stays the last, with no answer.
Fail(released) ==
    /\ turn.on /\ turn' = Idle /\ fails < MaxFails /\ fails' = fails + 1
    /\ conn' = IF released THEN turn.before[1] ELSE [conn EXCEPT !.output = <<>>]
    /\ hard' = (hard \/ ~released)
    /\ UNCHANGED <<calls, outs, keyed, log, asked, given, made>>

\* releaseResponsesWebsocketToolCaches: the caches go with the last connection.
Reconnect(lastOne) ==
    /\ fails < MaxFails /\ fails' = fails + 1
    /\ conn' = NoConn /\ turn' = Idle
    /\ IF lastOne THEN calls' = NoCache /\ outs' = NoCache ELSE UNCHANGED <<calls, outs>>
    /\ hard' = FALSE
    /\ UNCHANGED <<keyed, log, asked, given, made>>

\* The client's own compaction: a summary for everything, sent with the next turn.
Compact ==
    /\ ~turn.on /\ asked = <<>> /\ log # <<>> /\ fails < MaxFails /\ given < MaxItems
    /\ fails' = fails + 1
    /\ given' = given + 1
    /\ log' = <<>> /\ asked' = <<Item(given + 1, "summary", NoCall, TRUE)>>
    /\ hard' = FALSE
    /\ UNCHANGED <<conn, calls, outs, keyed, turn, made>>

Next ==
    \/ \E new \in NewItems, whole \in BOOLEAN : Ask(new, whole)
    \/ \E new \in NewItems : AskPrewarm(new)
    \/ \E kind \in {"assistant", "call"} : ItemDone(kind)
    \/ \E listed \in Listings : Completed(listed)
    \/ \E b \in BOOLEAN : Fail(b) \/ Reconnect(b)
    \/ Compact

Spec == Init /\ [][Next]_vars

-----------------------------------------------------------------------------
\* What is sent upstream is the conversation: everything that was said and not
\* given up, once and in order, a call before its output, no call without one.
\* Only in a session of more calls than the cache holds may a call that is
\* answered late be lost with its output; and a turn that failed for good is
\* still there when the client tries again.
Open(item) == IsCall(item) /\ item.call \notin CallsIn(Known, "output")
Said == {item \in ToSet(Known) : ~Open(item)}
Words(items) == SelectSeq(items, LAMBDA item : ~IsCall(item))
Paired(items) ==
    \A i \in DOMAIN items : IsOutput(items[i]) =>
        \E j \in 1 .. i - 1 : IsCall(items[j]) /\ items[j].call = items[i].call

RequestIsWhole ==
    turn.on /\ ~hard =>
        /\ IsInjective(turn.request)
        /\ keyed => ToSet(turn.request) \subseteq Said /\ Paired(turn.request)
        /\ ~keyed \/ made <= MaxPerSession =>
            Said \subseteq ToSet(turn.request) /\ Words(turn.request) = Words(Known)
=============================================================================
