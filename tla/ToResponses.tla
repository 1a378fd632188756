------------------------------ MODULE ToResponses ------------------------------
(***************************************************************************)
(* Answers of an OpenAI-compatible upstream, told to a client of the       *)
(* Responses API (translator/openai/openai/responses/                      *)
(* openai_openai-responses_response.go) for one choice.  Every piece of    *)
(* text is the number of its chunk; the sequence number of an event is its *)
(* position.                                                               *)
(***************************************************************************)
EXTENDS Integers, Sequences, FiniteSets, SequencesExt, TLC

CONSTANTS
    ToolIndexes,  \* indexes of the upstream's tool calls
    Custom,       \* those that call a freeform tool of the request
    OnlyCustom,   \* the request has no tool but one freeform tool
    MaxChunks     \* bound on the deltas of an answer

VARIABLES
    st,     \* oaiToResponsesState, with the events told
    said,   \* history: the upstream's deltas
    phase   \* of the upstream: "deltas", "finished", "done"

vars == <<st, said, phase>>

None == -1
NoItem == [index |-> None, text |-> <<>>, done |-> FALSE]
NoCall == [id |-> FALSE, name |-> FALSE, args |-> <<>>, sent |-> 0,
           added |-> FALSE, custom |-> FALSE, done |-> FALSE]

Init ==
    /\ st = [started |-> FALSE, next |-> 0, message |-> NoItem, reasoning |-> NoItem,
             reasonings |-> {}, calls |-> <<>>, order |-> <<>>,
             pending |-> FALSE, completed |-> FALSE, output |-> {}, out |-> <<>>]
    /\ said = <<>>
    /\ phase = "deltas"

-----------------------------------------------------------------------------
Event(type, index, kind, text) == [type |-> type, index |-> index, kind |-> kind, text |-> text]
Tell(s, type, index, kind, text) == [s EXCEPT !.out = Append(@, Event(type, index, kind, text))]
TellAll(s, types, index, kind, text) ==
    [s EXCEPT !.out = @ \o [i \in DOMAIN types |-> Event(types[i], index, kind, text)]]
EndOfText == <<"text_done", "part_done", "done">>

Started(s) ==
    IF s.started THEN s
    ELSE [TellAll(s, <<"created", "in_progress">>, None, "", <<>>) EXCEPT !.started = TRUE]

StopReasoning(s) ==
    IF s.reasoning.index = None THEN s
    ELSE [TellAll(s, EndOfText, s.reasoning.index, "reasoning", s.reasoning.text)
             EXCEPT !.reasonings = @ \cup {[index |-> s.reasoning.index, text |-> s.reasoning.text]},
                    !.reasoning = NoItem]

StopMessage(s) ==
    IF s.message.index = None \/ s.message.done THEN s
    ELSE [TellAll(s, EndOfText, s.message.index, "message", s.message.text)
             EXCEPT !.message.done = TRUE]

\* There is one message: text after a tool call goes on with the closed one.
Content(s0, n) ==
    LET s1 == StopReasoning(s0)
        s2 == IF s1.message.index # None THEN s1
              ELSE [TellAll(s1, <<"added", "part_added">>, s1.next, "message", <<>>)
                       EXCEPT !.message.index = s1.next, !.next = @ + 1]
    IN [Tell(s2, "delta", s2.message.index, "message", <<n>>)
           EXCEPT !.message.text = Append(@, n)]

Reasoning(s0, n) ==
    LET s == IF s0.reasoning.index # None THEN s0
             ELSE [TellAll(s0, <<"added", "part_added">>, s0.next, "reasoning", <<>>)
                      EXCEPT !.reasoning.index = s0.next, !.next = @ + 1]
    IN [Tell(s, "delta", s.reasoning.index, "reasoning", <<n>>)
           EXCEPT !.reasoning.text = Append(@, n)]

CallKind(custom) == IF custom THEN "custom_tool_call" ELSE "function_call"
IndexOf(s, t) == s.order[t]

\* emitToolItem: a call is announced when its id and its name are known, or,
\* forced, with a made-up id and the name of the only freeform tool if any.
EmitItem(s, t, force) ==
    LET c == s.calls[t]
        custom == IF c.name THEN t \in Custom ELSE OnlyCustom
    IN IF c.added \/ ~(force \/ (c.id /\ c.name)) THEN s
       ELSE [Tell(s, "added", IndexOf(s, t), CallKind(custom), <<>>) EXCEPT
                !.calls[t].id = TRUE, !.calls[t].name = c.name \/ OnlyCustom,
                !.calls[t].added = TRUE, !.calls[t].custom = custom]

\* emitPendingFunctionArgs: what has not been sent yet.
EmitArgs(s, t) ==
    LET c == s.calls[t] IN
    IF ~c.added \/ c.custom \/ Len(c.args) <= c.sent THEN s
    ELSE [Tell(s, "delta", IndexOf(s, t), "function_call", SubSeq(c.args, c.sent + 1, Len(c.args)))
             EXCEPT !.calls[t].sent = Len(c.args)]

ToolDelta(s0, d, n) ==
    LET t == d.tool
        s1 == StopMessage(StopReasoning(s0))
        s2 == IF t \in DOMAIN s1.calls THEN s1
              ELSE [s1 EXCEPT !.calls = (t :> NoCall) @@ @, !.order = (t :> s1.next) @@ @,
                              !.next = @ + 1]
        s3 == [s2 EXCEPT !.calls[t].id = @ \/ d.id,
                         !.calls[t].name = @ \/ (d.name /\ ~s2.calls[t].added),
                         !.calls[t].args = IF d.args THEN Append(@, n) ELSE @]
    IN EmitArgs(EmitItem(s3, t, FALSE), t)

EmptyArgs == <<0>>  \* "{}"
Args(c) == IF c.args = <<>> THEN EmptyArgs ELSE c.args

FinishCall(s0, t) ==
    LET s == EmitArgs(EmitItem(s0, t, TRUE), t)
        c == s.calls[t]
        input == IF c.custom THEN "input_done" ELSE "args_done"
    IN IF c.done THEN s
       ELSE [TellAll(s, <<input, "done">>, IndexOf(s, t), CallKind(c.custom), Args(c))
                EXCEPT !.calls[t].done = TRUE]

\* A reason to finish ends every item, the calls in the order of their items.
Finish(s0) ==
    LET s == StopReasoning(StopMessage(s0))
        calls == SetToSortSeq(DOMAIN s.calls, LAMBDA a, b : IndexOf(s, a) < IndexOf(s, b))
    IN [FoldLeft(LAMBDA a, t : FinishCall(a, t), s, calls) EXCEPT !.pending = TRUE]

\* buildResponsesCompletedEvent, on [DONE]: arguments as they were gathered.
Complete(s) ==
    IF ~s.pending \/ s.completed THEN s
    ELSE [Tell(s, "completed", None, "", <<>>) EXCEPT !.completed = TRUE, !.output =
        {[index |-> r.index, kind |-> "reasoning", text |-> r.text] : r \in s.reasonings} \cup
        {[index |-> m.index, kind |-> "message", text |-> m.text]
            : m \in {s.message} \ {NoItem}} \cup
        {[index |-> IndexOf(s, t), kind |-> CallKind(s.calls[t].custom), text |-> s.calls[t].args]
            : t \in DOMAIN s.calls}]

-----------------------------------------------------------------------------
Deltas ==
    {[kind |-> k] : k \in {"text", "thinking"}} \cup
    [kind : {"tool_use"}, tool : ToolIndexes, id : BOOLEAN, name : BOOLEAN, args : BOOLEAN]

Chunk(d) ==
    /\ phase = "deltas" /\ Len(said) < MaxChunks
    /\ LET n == Len(said) + 1
           s == Started(st)
       IN st' = CASE d.kind = "text" -> Content(s, n)
                  [] d.kind = "thinking" -> Reasoning(s, n)
                  [] OTHER -> ToolDelta(s, d, n)
    /\ said' = Append(said, d)
    /\ UNCHANGED phase

FinishChunk ==
    /\ phase # "done" /\ phase' = "finished"
    /\ st' = Finish(Started(st))
    /\ UNCHANGED said

DoneChunk ==
    /\ phase # "done" /\ phase' = "done"
    /\ st' = Complete(st)
    /\ UNCHANGED said

Next == (\E d \in Deltas : Chunk(d)) \/ FinishChunk \/ DoneChunk

Spec == Init /\ [][Next]_vars

-----------------------------------------------------------------------------
told == st.out
At(type) == {i \in DOMAIN told : told[i].type = type}
Indexes == {told[i].index : i \in At("added")}

\* The model's text goes on after a call: the converter tells it under the
\* message that it has already ended.
TextAfterCall == \E i, j \in DOMAIN said : i < j /\ said[i].kind = "tool_use" /\ said[j].kind = "text"

\* What a client of the Responses API relies on: an item is told only between
\* its addition and its end, no two have one index, its end repeats what its
\* deltas said, and once the answer has completed every item has ended.
DeltasOf(index) == FlattenSeq([i \in DOMAIN told |->
    IF told[i].type = "delta" /\ told[i].index = index THEN told[i].text ELSE <<>>])
ItemsInOrder ==
    \A i \in DOMAIN told : told[i].index # None =>
        /\ Cardinality({j \in At("added") : told[j].index = told[i].index}) = 1
        /\ \E j \in At("added") : j <= i /\ told[j].index = told[i].index
                                  /\ told[j].kind = told[i].kind
        /\ \A j \in At("done") :
            j < i /\ told[j].index = told[i].index => told[i].kind = "message" /\ TextAfterCall
EndsRepeat ==
    \A i \in At("done") :
        LET index == told[i].index
            say == DeltasOf(index) IN
        CASE told[i].kind = "function_call" -> told[i].text = IF say = <<>> THEN EmptyArgs ELSE say
          [] told[i].kind = "custom_tool_call" -> say = <<>>
          [] told[i].kind = "message" -> told[i].text = say \/ TextAfterCall
          [] OTHER -> told[i].text = say

\* Everything the upstream said is in the completed response, and the items it
\* lists are those that were told; only empty arguments differ.
CompletedLists ==
    st.completed =>
        /\ {told[i].index : i \in At("done")} = Indexes
        /\ {o.index : o \in st.output} = Indexes /\ Cardinality(st.output) = Cardinality(Indexes)
        /\ \A o \in st.output : \E i \in At("done") :
            /\ told[i].index = o.index /\ told[i].kind = o.kind
            /\ \/ told[i].text = o.text
               \/ told[i].text = EmptyArgs /\ o.text = <<>>
               \/ o.kind = "message" /\ TextAfterCall
        /\ \A n \in DOMAIN said :
            said[n].kind # "tool_use" \/ said[n].args =>
                \E o \in st.output : n \in ToSet(o.text)

StreamIsSound == ItemsInOrder /\ EndsRepeat /\ CompletedLists
=============================================================================
