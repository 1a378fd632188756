------------------------------ MODULE FromClaude ------------------------------
(***************************************************************************)
(* A Claude upstream's stream, told to clients of the chat completions and *)
(* of the Responses API (translator/claude/openai/chat-completions/        *)
(* claude_openai_response.go, .../responses/                               *)
(* claude_openai-responses_response.go).  Both converters read the same    *)
(* events.  Every piece of text is the number of its event.                *)
(***************************************************************************)
EXTENDS Integers, Sequences, FiniteSets, SequencesExt, TLC

CONSTANTS
    MaxEvents   \* bound on the events inside the message

VARIABLES
    events,  \* history: the upstream's events
    open,    \* kind of the upstream's open block, "" for none
    blocks,  \* number of blocks the upstream has started
    chat,    \* ConvertAnthropicResponseToOpenAIParams, with the chunks told
    resp     \* claudeToResponsesState, with the events told

vars == <<events, open, blocks, chat, resp>>

None == -1
NoUsage == [input |-> 0, output |-> 0, creation |-> 0, read |-> 0, seen |-> FALSE]

\* Merge: a field that is left out keeps what was said before.
Merge(u, said) == [f \in DOMAIN u |-> IF f = "seen" THEN TRUE
                                      ELSE IF f \in DOMAIN said THEN said[f] ELSE u[f]]
Prompt(u) == u.input + u.creation + u.read
Totals(u) == [prompt |-> Prompt(u), completion |-> u.output,
              total |-> Prompt(u) + u.output, cached |-> u.read]

\* A call without arguments is told with an empty object.
EmptyArgs == <<"{}">>
Arguments(said) == IF said = <<>> THEN EmptyArgs ELSE said

-----------------------------------------------------------------------------
\* Chat completions: a call is told whole when its block stops.

Chunk(type, index, text) == [type |-> type, index |-> index, text |-> text]
Say(s, type, index, text) == [s EXCEPT !.out = Append(@, Chunk(type, index, text))]

MapStopReason(r) ==
    CASE r = "tool_use" -> "tool_calls" [] r = "max_tokens" -> "length" [] OTHER -> "stop"

Chat(s, e, n) ==
    CASE e.type = "message_start" ->
            [Say(s, "role", None, <<>>) EXCEPT !.usage = Merge(@, e.usage)]
      [] e.type = "start" /\ e.kind = "tool_use" ->
            [s EXCEPT !.calls = (e.index :> <<>>) @@ @]
      [] e.type = "delta" /\ e.kind \in {"text", "thinking"} -> Say(s, e.kind, None, <<n>>)
      [] e.type = "delta" /\ e.kind = "tool_use" /\ e.index \in DOMAIN s.calls ->
            [s EXCEPT !.calls[e.index] = Append(@, n)]
      [] e.type = "stop" /\ e.index \in DOMAIN s.calls ->
            [Say(s, "tool_call", e.index, Arguments(s.calls[e.index])) EXCEPT
                !.calls = [i \in DOMAIN @ \ {e.index} |-> @[i]]]
      [] e.type = "message_delta" ->
            LET usage == Merge(s.usage, e.usage) IN
            [Say(s, "finish", None, <<MapStopReason(e.reason), Totals(usage)>>)
                EXCEPT !.usage = usage]
      [] e.type = "error" -> Say(s, "error", None, <<>>)
      [] OTHER -> s

\* The answer at once is made of all the events.
AtOnce(es, kind) == SelectSeq([i \in DOMAIN es |-> i],
    LAMBDA i : es[i].type = "delta" /\ es[i].kind = kind)
CallsOf(es) ==
    LET starts == SelectSeq(es, LAMBDA e : e.type = "start" /\ e.kind = "tool_use") IN
    [c \in DOMAIN starts |-> Arguments(SelectSeq(AtOnce(es, "tool_use"),
                                        LAMBDA i : es[i].index = starts[c].index))]
ReasonOf(es) ==
    LET ends == SelectSeq(es, LAMBDA e : e.type = "message_delta") IN
    IF ends = <<>> THEN "" ELSE Last(ends).reason
UsageOf(es) ==
    FoldLeft(LAMBDA u, e : IF "usage" \in DOMAIN e THEN Merge(u, e.usage) ELSE u, NoUsage, es)

WholeChat(es) ==
    [content |-> AtOnce(es, "text"), reasoning |-> AtOnce(es, "thinking"),
     calls |-> CallsOf(es), usage |-> Totals(UsageOf(es)),
     finish |-> IF CallsOf(es) # <<>> THEN "tool_calls" ELSE MapStopReason(ReasonOf(es))]

-----------------------------------------------------------------------------
\* Responses: items with an output index each, told as added, delta and done;
\* the sequence number of an event is its position.

Event(type, index, kind, text) == [type |-> type, index |-> index, kind |-> kind, text |-> text]
Tell(s, type, index, kind, text) == [s EXCEPT !.out = Append(@, Event(type, index, kind, text))]
TellDone(s, index, kind, text, types) ==
    [s EXCEPT !.out = @ \o [i \in DOMAIN types |-> Event(types[i], index, kind, text)],
              !.items = (index :> [kind |-> kind, text |-> text]) @@ @]

NoReasoning == [index |-> None, text |-> <<>>]
NoMessage == [index |-> None, open |-> FALSE, text |-> <<>>]

\* finalizeAssistantMessage
Finalize(s) ==
    IF ~s.message.open THEN s
    ELSE [TellDone(s, s.message.index, "message", s.message.text,
                   <<"text_done", "part_done", "done">>)
             EXCEPT !.message = NoMessage, !.inText = FALSE]

\* A text block goes on with the message that is still open.
StartText(s) ==
    LET fresh == s.message.index = None
        index == IF fresh THEN s.next ELSE s.message.index
        t == [s EXCEPT !.inText = TRUE, !.message.index = index,
                       !.next = IF fresh THEN @ + 1 ELSE @]
    IN IF t.message.open THEN t
       ELSE [Tell(Tell(t, "added", index, "message", <<>>), "part_added", index, "message", <<>>)
                EXCEPT !.message.open = TRUE]

StartTool(s0, block) ==
    LET s == Finalize(s0) IN
    [Tell(s, "added", s.next, "function_call", <<>>) EXCEPT
        !.inFunc = TRUE, !.next = @ + 1,
        !.args = (block :> <<>>) @@ @, !.index = (block :> s.next) @@ @]

\* A reasoning item takes the signature of its block along.
StartThinking(s0) ==
    LET s == Finalize(s0) IN
    [Tell(Tell(s, "added", s.next, "reasoning", <<>>), "part_added", s.next, "reasoning", <<>>)
        EXCEPT !.next = @ + 1,
               !.reasoning = [index |-> s.next, text |-> <<>>]]

\* A stop closes the text block, the call or the reasoning, whichever is open.
StopBlock(s, block) ==
    CASE s.inText -> [s EXCEPT !.inText = FALSE]
      [] ~s.inText /\ s.inFunc ->
            [TellDone(s, s.index[block], "function_call", Arguments(s.args[block]),
                      <<"args_done", "done">>) EXCEPT !.inFunc = FALSE]
      [] ~s.inText /\ ~s.inFunc /\ s.reasoning.index # None ->
            [TellDone(s, s.reasoning.index, "reasoning", s.reasoning.text,
                      <<"text_done", "part_done", "done">>) EXCEPT !.reasoning = NoReasoning]
      [] OTHER -> s

\* response.completed lists the items at their indexes.
Complete(s0) ==
    LET s == Finalize(s0)
        calls == [i \in {s.index[b] : b \in DOMAIN s.args} |->
                    LET b == CHOOSE c \in DOMAIN s.args : s.index[c] = i IN
                    [kind |-> "function_call", text |-> Arguments(s.args[b])]]
        others == [i \in {j \in DOMAIN s.items : s.items[j].kind # "function_call"} |-> s.items[i]]
    IN [Tell(s, "completed", None, "", <<Totals(s.usage)>>) EXCEPT !.output = others @@ calls]

Resp(s, e, n) ==
    CASE e.type = "message_start" ->
            [Tell(Tell(s, "created", None, "", <<>>), "in_progress", None, "", <<>>)
                EXCEPT !.usage = Merge(NoUsage, e.usage)]
      [] e.type = "start" /\ e.kind = "text" -> StartText(s)
      [] e.type = "start" /\ e.kind = "tool_use" -> StartTool(s, e.index)
      [] e.type = "start" /\ e.kind = "thinking" -> StartThinking(s)
      [] e.type = "delta" /\ e.kind = "text" ->
            [Tell(s, "delta", s.message.index, "message", <<n>>)
                EXCEPT !.message.text = Append(@, n)]
      [] e.type = "delta" /\ e.kind = "tool_use" /\ s.inFunc ->
            [Tell(s, "delta", s.index[e.index], "function_call", <<n>>)
                EXCEPT !.args[e.index] = Append(@, n)]
      [] e.type = "delta" /\ e.kind = "thinking" /\ s.reasoning.index # None ->
            [Tell(s, "delta", s.reasoning.index, "reasoning", <<n>>)
                EXCEPT !.reasoning.text = Append(@, n)]
      [] e.type = "stop" -> StopBlock(s, e.index)
      [] e.type = "message_delta" -> [s EXCEPT !.usage = Merge(@, e.usage)]
      [] e.type = "message_stop" -> Complete(s)
      [] OTHER -> s

\* At once: one reasoning item and one message with all their text, then calls.
\* A thinking block without a signature forgets the one of the block before.
WholeResponse(es) ==
    LET thinks == AtOnce(es, "thinking")
        texts == AtOnce(es, "text")
        has(kind) == \E i \in DOMAIN es : es[i].type = "start" /\ es[i].kind = kind
        signed == \E i \in DOMAIN es :
            /\ es[i].type = "signature"
            /\ ~\E j \in DOMAIN es : j > i /\ es[j].type = "start" /\ es[j].kind = "thinking"
        calls == CallsOf(es)
    IN (IF thinks # <<>> \/ signed THEN <<[kind |-> "reasoning", text |-> thinks]>> ELSE <<>>) \o
       (IF has("text") THEN <<[kind |-> "message", text |-> texts]>> ELSE <<>>) \o
       [c \in DOMAIN calls |-> [kind |-> "function_call", text |-> calls[c]]]

-----------------------------------------------------------------------------
Init ==
    /\ events = <<>> /\ open = "" /\ blocks = 0
    /\ chat = [calls |-> <<>>, usage |-> NoUsage, out |-> <<>>]
    /\ resp = [next |-> 0, message |-> NoMessage, inText |-> FALSE, inFunc |-> FALSE,
               args |-> <<>>, index |-> <<>>, reasoning |-> NoReasoning, items |-> <<>>,
               usage |-> NoUsage, output |-> <<>>, out |-> <<>>]

Read(e) ==
    LET n == Len(events) + 1 IN
    /\ events' = Append(events, e)
    /\ chat' = Chat(chat, e, n)
    /\ resp' = Resp(resp, e, n)

Going == events # <<>> /\ Last(events).type \notin {"message_stop", "error"}
Inside == Going /\ Len(events) <= MaxEvents /\ \A i \in DOMAIN events : events[i].type # "message_delta"

MessageStart ==
    /\ events = <<>>
    /\ Read([type |-> "message_start", usage |-> [input |-> 1, creation |-> 1, read |-> 2]])
    /\ UNCHANGED <<open, blocks>>

\* Blocks follow one another; "other" stands for kinds the converters skip.
BlockStart(kind) ==
    /\ Inside /\ open = ""
    /\ Read([type |-> "start", kind |-> kind, index |-> blocks])
    /\ open' = kind /\ blocks' = blocks + 1

BlockDelta ==
    /\ Inside /\ open # ""
    /\ Read([type |-> "delta", kind |-> open, index |-> blocks - 1])
    /\ UNCHANGED <<open, blocks>>

Signature ==
    /\ Inside /\ open = "thinking"
    /\ Read([type |-> "signature", index |-> blocks - 1])
    /\ UNCHANGED <<open, blocks>>

BlockStop ==
    /\ Inside /\ open # ""
    /\ Read([type |-> "stop", index |-> blocks - 1])
    /\ open' = "" /\ UNCHANGED blocks

\* The message's own delta repeats the input tokens or leaves them out.
MessageDelta(usage) ==
    /\ Inside /\ open = ""
    /\ \E r \in {"end_turn", "max_tokens", "tool_use"} :
        /\ r = "tool_use" => \E i \in DOMAIN events : events[i].type = "start" /\ events[i].kind = "tool_use"
        /\ Read([type |-> "message_delta", reason |-> r, usage |-> usage])
    /\ UNCHANGED <<open, blocks>>

MessageStop ==
    /\ Going /\ Last(events).type = "message_delta"
    /\ Read([type |-> "message_stop"])
    /\ UNCHANGED <<open, blocks>>

Error ==
    /\ Inside
    /\ Read([type |-> "error"])
    /\ UNCHANGED <<open, blocks>>

Next ==
    \/ MessageStart
    \/ \E kind \in {"text", "thinking", "tool_use", "other"} : BlockStart(kind)
    \/ BlockDelta \/ Signature \/ BlockStop
    \/ MessageDelta([output |-> 3]) \/ MessageDelta([output |-> 3, input |-> 2])
    \/ MessageStop \/ Error

Spec == Init /\ [][Next]_vars

-----------------------------------------------------------------------------
told == resp.out
At(type) == {i \in DOMAIN told : told[i].type = type}
Ended == events # <<>> /\ Last(events).type = "message_stop"

\* What a client of the Responses API relies on: output indexes count up from
\* 0, an item is told only between its addition and its end, its end repeats
\* what its deltas said, and the completed response lists the items that ended.
ItemsInOrder ==
    \A i \in DOMAIN told :
        /\ told[i].type = "added" => told[i].index = Cardinality({j \in At("added") : j < i})
        /\ told[i].index # None =>
            /\ \E j \in At("added") : j <= i /\ told[j].index = told[i].index
            /\ ~\E j \in At("done") : j < i /\ told[j].index = told[i].index
DeltasOf(index) == FlattenSeq([i \in DOMAIN told |->
    IF told[i].type = "delta" /\ told[i].index = index THEN told[i].text ELSE <<>>])
EndsRepeat ==
    \A i \in At("done") :
        LET said == DeltasOf(told[i].index) IN
        told[i].text = IF said = <<>> /\ told[i].kind = "function_call" THEN EmptyArgs ELSE said
CompletedLists ==
    Ended =>
        /\ DOMAIN resp.output = {told[i].index : i \in At("done")}
        /\ DOMAIN resp.output = 0 .. Cardinality(At("added")) - 1
        /\ \A i \in At("done") :
            resp.output[told[i].index] = [kind |-> told[i].kind, text |-> told[i].text]

\* A client of chat completions is told every call once, with all its
\* arguments, before the reason to finish.
CallsWhole ==
    LET calls == SelectSeq(chat.out, LAMBDA c : c.type = "tool_call") IN
    Ended => [i \in DOMAIN calls |-> calls[i].text] = CallsOf(events)

\* Whether a client asks for a stream or not, it is told the same.
Kind(seq, kind) == FlattenSeq([i \in DOMAIN seq |-> IF seq[i].kind = kind THEN seq[i].text ELSE <<>>])
SameAtOnce ==
    Ended =>
        LET whole == WholeChat(events)
            finish == Last(chat.out)
            response == WholeResponse(events)
            listed == [i \in 1 .. Cardinality(DOMAIN resp.output) |-> resp.output[i - 1]]
            Part(type) == FlattenSeq([i \in DOMAIN chat.out |->
                IF chat.out[i].type = type THEN chat.out[i].text ELSE <<>>])
        IN /\ Part("text") = whole.content /\ Part("thinking") = whole.reasoning
           /\ finish.text[2] = whole.usage
           /\ ReasonOf(events) = "tool_use" <=> finish.text[1] = "tool_calls"
           /\ \A kind \in {"message", "reasoning", "function_call"} :
                Kind(response, kind) = Kind(listed, kind)
           /\ Last(told).text = <<whole.usage>>

StreamIsSound == ItemsInOrder /\ EndsRepeat /\ CompletedLists /\ CallsWhole /\ SameAtOnce
=============================================================================
