------------------------------ MODULE Transcripts ------------------------------
(***************************************************************************)
(* Conversations on their way to an upstream of another protocol:          *)
(*   Chat(input)    Responses input -> chat messages                       *)
(*                  (openai/openai/responses/..._request.go)               *)
(*   Claude(input)  Responses input -> Claude messages                     *)
(*                  (claude/openai/responses/..._request.go)               *)
(*   ChatOfTurns    Claude messages -> chat messages                       *)
(*                  (openai/claude/openai_claude_request.go)               *)
(*   ClaudeOfChat   chat messages -> Claude messages                       *)
(*                  (claude/openai/chat-completions/..._request.go)        *)
(* An item of the input is told apart by its position; a message is what   *)
(* items its text, its reasoning, its tool calls and its results stand for.*)
(***************************************************************************)
EXTENDS Integers, Sequences, FiniteSets, SequencesExt

CONSTANTS
    CallIds,   \* call ids of the client
    Freeform,  \* those of calls of freeform tools
    MaxItems   \* bound on the length of a conversation

VARIABLE input  \* the items of the client's conversation

Item(kind, id, flag) == [kind |-> kind, id |-> id, flag |-> flag]
NoId == 0

\* flag: an assistant's message brings reasoning of its own; a reasoning's
\* signature is one of Claude's (else of GPT's).
Items ==
    {Item("user", NoId, FALSE)} \cup
    {Item(kind, NoId, flag) : kind \in {"assistant", "reasoning"}, flag \in BOOLEAN} \cup
    {Item(kind, id, id \in Freeform) : kind \in {"call", "output"}, id \in CallIds}

Has(kind, id) == \E i \in DOMAIN input : input[i].kind = kind /\ input[i].id = id

Init == input = <<>>

\* A client answers a call once, after it.
Say(item) ==
    /\ Len(input) < MaxItems
    /\ item.kind \in {"call", "output"} => ~Has(item.kind, item.id)
    /\ item.kind = "output" => Has("call", item.id)
    /\ input' = Append(input, item)

Next == \E item \in Items : Say(item)

Spec == Init /\ [][Next]_input

-----------------------------------------------------------------------------
Message(role) == [role |-> role, text |-> <<>>, thought |-> <<>>, calls |-> <<>>, results |-> <<>>]
IdsOf(ns) == {input[n].id : n \in ToSet(ns)}
Emit(s, m) == [s EXCEPT !.out = Append(@, m)]

\* Responses -> chat.  "awaiting" holds the ids that were called and have no
\* result yet; only those whose result is in the input hold messages back.
ChatStart == [out |-> <<>>, calls |-> <<>>, thought |-> <<>>, awaiting |-> {}, deferred |-> <<>>]

FlushCalls(s) ==
    IF s.calls = <<>> THEN s
    ELSE [Emit(s, [Message("assistant") EXCEPT !.calls = s.calls, !.thought = s.thought])
             EXCEPT !.calls = <<>>, !.thought = <<>>, !.awaiting = @ \cup IdsOf(s.calls)]

HasAwaitingToolOutput(s) == \E id \in s.awaiting : Has("output", id)

RegularNow(s, m) == Emit(s, m)  \* mutant of Regular: nothing is held back
Regular(s, m) ==
    IF HasAwaitingToolOutput(s) THEN [s EXCEPT !.deferred = Append(@, m)] ELSE Emit(s, m)

PendingReasoning(s) ==
    IF s.thought = <<>> THEN s
    ELSE [Regular(s, [Message("assistant") EXCEPT !.thought = s.thought]) EXCEPT !.thought = <<>>]

FlushDeferred(s) == [s EXCEPT !.out = @ \o s.deferred, !.deferred = <<>>]

Output(s0, n) ==
    LET s == [Emit(s0, [Message("tool") EXCEPT !.results = <<n>>])
                 EXCEPT !.awaiting = @ \ {input[n].id}]
    IN IF s.awaiting = {} THEN FlushDeferred(s) ELSE s

ChatItem(s0, n) ==
    LET item == input[n]
        s == IF item.kind = "call" THEN s0 ELSE FlushCalls(s0)
    IN CASE item.kind = "user" ->
                Regular(PendingReasoning(s), [Message("user") EXCEPT !.text = <<n>>])
         [] item.kind = "assistant" ->
                Regular([s EXCEPT !.thought = <<>>],
                        [Message("assistant") EXCEPT !.text = <<n>>,
                            !.thought = IF item.flag THEN <<>> ELSE s.thought])
         [] item.kind = "reasoning" -> [s EXCEPT !.thought = Append(@, n)]
         [] item.kind = "call" -> [s EXCEPT !.calls = Append(@, n)]
         [] OTHER -> Output(s, n)

Chat ==
    FlushDeferred(PendingReasoning(FlushCalls(
        FoldLeft(ChatItem, ChatStart, [n \in DOMAIN input |-> n])))).out

-----------------------------------------------------------------------------
\* Responses -> Claude.  A call waits for its result, so that the two are
\* neighbours; calls of freeform tools and foreign reasoning have no form.
ClaudeStart == [out |-> <<>>, thought |-> <<>>, uses |-> <<>>]

FlushReasoning(s) ==
    IF s.thought = <<>> THEN s
    ELSE [Emit(s, [Message("assistant") EXCEPT !.thought = s.thought]) EXCEPT !.thought = <<>>]

FlushToolUses(s) == [s EXCEPT !.out = @ \o s.uses, !.uses = <<>>]

FlushToolUseFor(s, id) ==
    LET mine == {i \in DOMAIN s.uses : id \in IdsOf(s.uses[i].calls)} IN
    IF mine = {} THEN FlushToolUses(s)
    ELSE LET i == CHOOSE i \in mine : TRUE
         IN [Emit(s, s.uses[i]) EXCEPT !.uses = RemoveAt(@, i)]

ClaudeItem(s, n) ==
    LET item == input[n] IN
    CASE item.kind = "user" ->
            Emit(FlushReasoning(FlushToolUses(s)), [Message("user") EXCEPT !.text = <<n>>])
      [] item.kind = "assistant" ->
            Emit([s EXCEPT !.thought = <<>>],
                 [Message("assistant") EXCEPT !.text = <<n>>, !.thought = s.thought])
      [] item.kind = "reasoning" ->
            IF item.flag THEN [s EXCEPT !.thought = Append(@, n)] ELSE s
      [] item.flag -> s
      [] item.kind = "call" ->
            [s EXCEPT !.thought = <<>>, !.uses = Append(@,
                [Message("assistant") EXCEPT !.calls = <<n>>, !.thought = s.thought])]
      [] OTHER ->
            Emit(FlushToolUseFor(FlushReasoning(s), item.id),
                 [Message("user") EXCEPT !.results = <<n>>])

Claude ==
    FlushToolUses(FlushReasoning(
        FoldLeft(ClaudeItem, ClaudeStart, [n \in DOMAIN input |-> n]))).out

-----------------------------------------------------------------------------
\* The same conversation as a client of the Messages API writes it: what one
\* side says in turn is one message (external).
Side(item) == IF item.kind \in {"user", "output"} THEN "user" ELSE "assistant"
Put(m, n) ==
    CASE input[n].kind = "reasoning" -> [m EXCEPT !.thought = Append(@, n)]
      [] input[n].kind = "call"      -> [m EXCEPT !.calls = Append(@, n)]
      [] input[n].kind = "output"    -> [m EXCEPT !.results = Append(@, n)]
      [] OTHER                       -> [m EXCEPT !.text = Append(@, n)]
Turns ==
    FoldLeft(LAMBDA ms, n :
        IF ms # <<>> /\ Last(ms).role = Side(input[n])
        THEN [ms EXCEPT ![Len(ms)] = Put(@, n)]
        ELSE Append(ms, Put(Message(Side(input[n])), n)),
      <<>>, [n \in DOMAIN input |-> n])

\* Claude -> chat: the results of a message come before the rest of it; of the
\* reasoning only that signed by GPT is passed on.
ChatOfTurn(m) ==
    LET rest == [m EXCEPT !.results = <<>>, !.thought = SelectSeq(@, LAMBDA n : ~input[n].flag)]
    IN [i \in DOMAIN m.results |-> [Message("tool") EXCEPT !.results = <<m.results[i]>>]] \o
       (IF rest = Message(m.role) THEN <<>> ELSE <<rest>>)

ChatOfTurns(turns) == FlattenSeq([i \in DOMAIN turns |-> ChatOfTurn(turns[i])])

\* Chat -> Claude: message by message; reasoning has no signature to send.
ClaudeOfMessage(m) ==
    IF m.role = "tool" THEN [m EXCEPT !.role = "user"] ELSE [m EXCEPT !.thought = <<>>]

ClaudeOfChat(messages) == [i \in DOMAIN messages |-> ClaudeOfMessage(messages[i])]

-----------------------------------------------------------------------------
Parts(m) == m.text \o m.thought \o m.calls \o m.results
Told(messages) == FlattenSeq([i \in DOMAIN messages |-> Parts(messages[i])])
PlaceOf(messages, n) == CHOOSE i \in DOMAIN messages : n \in ToSet(Parts(messages[i]))
CallOf(n) == CHOOSE i \in DOMAIN input : input[i].kind = "call" /\ input[i].id = input[n].id
Numbers(P(_)) == {n \in DOMAIN input : P(input[n])}
Answers == Numbers(LAMBDA item : item.kind = "output")

\* Everything that can be said in the other protocol is said once.
SaidOnce(messages, ns) == ToSet(Told(messages)) = ns /\ Len(Told(messages)) = Cardinality(ns)

\* Reasoning before an assistant's message that brings its own is given up.
GivenUp == {n \in DOMAIN input : input[n].kind = "reasoning" /\ \E m \in DOMAIN input :
    /\ m > n /\ input[m].kind = "assistant" /\ input[m].flag
    /\ \A k \in n + 1 .. m - 1 : input[k].kind \in {"reasoning", "output"}}

\* Chat upstreams refuse a conversation in which something else than results
\* and other calls stands between a call and its result.
ChatAnswers(messages, mayCall) ==
    \A n \in Answers :
        LET call == PlaceOf(messages, CallOf(n))
            answer == PlaceOf(messages, n)
        IN call < answer /\ \A i \in call + 1 .. answer - 1 :
            messages[i].role = "tool" \/ (mayCall /\ messages[i].calls # <<>>)

\* Messages keep their order, unless the client never answers a call.
Unanswered == \E i \in DOMAIN input : input[i].kind = "call" /\ ~Has("output", input[i].id)
InOrder(messages, kinds) ==
    LET ns == SelectSeq(Told(messages), LAMBDA n : input[n].kind \in kinds)
    IN \A i, j \in DOMAIN ns : i < j => ns[i] < ns[j]

ChatIsWhole ==
    /\ SaidOnce(Chat, DOMAIN input \ GivenUp)
    /\ ChatAnswers(Chat, TRUE)
    /\ Unanswered \/ InOrder(Chat, {"user", "assistant"})

\* Claude wants the result in the message after the call: so it is, unless the
\* user spoke in between, or such a late result comes in between.
Late(n) == \E k \in CallOf(n) .. n : input[k].kind = "user"
ClaudeIsWhole ==
    /\ SaidOnce(Claude, Numbers(LAMBDA item :
        item.kind = "assistant" \/ item.flag = (item.kind = "reasoning")))
    /\ \A n \in {k \in Answers : ~input[k].flag} :
        LET between == PlaceOf(Claude, n) - PlaceOf(Claude, CallOf(n)) IN
        \/ between = 1
        \/ between > 1 /\ \E k \in Answers : Late(k) /\ CallOf(n) < k /\ k <= n
    /\ InOrder(Claude, {"user", "assistant"})

\* A turn that answers the calls of the turn before it does so in the chat
\* form as well, and the chat form can be told to Claude.
TurnsAreWhole ==
    LET chat == ChatOfTurns(Turns)
        answered == \A n \in Answers : PlaceOf(Turns, n) = PlaceOf(Turns, CallOf(n)) + 1
    IN /\ SaidOnce(chat, Numbers(LAMBDA item : item.kind # "reasoning" \/ ~item.flag))
       /\ answered => ChatAnswers(chat, FALSE)
       /\ LET back == ClaudeOfChat(chat) IN
          /\ SaidOnce(back, Numbers(LAMBDA item : item.kind # "reasoning"))
          /\ answered => \A n \in Answers :
                \A i \in PlaceOf(back, CallOf(n)) + 1 .. PlaceOf(back, n) :
                    back[i].role = "user" /\ back[i].text = <<>>

TranscriptsAreWhole == ChatIsWhole /\ ClaudeIsWhole /\ TurnsAreWhole

\* Violated: "assistant(tool_calls) -> tool(tool_call_id) with no message in
\* between" (openai_openai-responses_request.go:125).
StrictAdjacency == ChatAnswers(Chat, FALSE)
=============================================================================
