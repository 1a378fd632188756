------------------------------- MODULE ToClaude -------------------------------
(***************************************************************************)
(* Answers of an OpenAI-compatible upstream, told to a client that speaks  *)
(* the Claude API (translator/openai/claude/openai_claude_response.go).    *)
(* A chunk with several parts acts as a chunk for each part, in the order  *)
(* reasoning, content, tool calls, finish reason, usage in which the       *)
(* handler reads them.  Every piece of text is the number of its chunk.    *)
(***************************************************************************)
EXTENDS Integers, Sequences, FiniteSets, SequencesExt, TLC

CONSTANTS
    ToolIndexes,  \* indexes of the upstream's tool calls
    Ids, Names,   \* whether a tool delta may leave out its id, its name
    MaxChunks     \* bound on the deltas of an answer

VARIABLES
    conv,   \* ConvertOpenAIResponseToAnthropicParams, with the events told
    said,   \* history: the upstream's deltas
    reason, \* history: the upstream's reason to finish, "" for none yet
    phase   \* of the upstream: "deltas", "finished", "done"

vars == <<conv, said, reason, phase>>

None == -1
NoTool == [id |-> FALSE, name |-> FALSE, args |-> <<>>, started |-> FALSE]

\* A text or thinking block is started iff it has an index.
Init ==
    /\ conv = [started |-> FALSE, text |-> None, thinking |-> None,
               tools |-> <<>>, block |-> <<>>, next |-> 0, sawTool |-> FALSE,
               finish |-> "", stopped |-> FALSE, deltaSent |-> FALSE,
               stopSent |-> FALSE, out |-> <<>>]
    /\ said = <<>>
    /\ reason = ""
    /\ phase = "deltas"

-----------------------------------------------------------------------------
Event(type, block, kind, text) == [type |-> type, block |-> block, kind |-> kind, text |-> text]
Tell(s, type, block, kind, text) ==
    [s EXCEPT !.out = Append(@, Event(type, block, kind, text))]

StopText(s) ==
    IF s.text = None THEN s
    ELSE [Tell(s, "stop", s.text, "text", <<>>) EXCEPT !.text = None]
StopThinking(s) ==
    IF s.thinking = None THEN s
    ELSE [Tell(s, "stop", s.thinking, "thinking", <<>>) EXCEPT !.thinking = None]

\* The message starts with the first chunk that has a delta.
MessageStart(s) ==
    IF s.started THEN s ELSE [Tell(s, "message_start", None, "", <<>>) EXCEPT !.started = TRUE]

Reasoning(s0, n) ==
    LET s1 == StopText(s0)
        s2 == IF s1.thinking # None THEN s1
              ELSE [Tell(s1, "start", s1.next, "thinking", <<>>)
                        EXCEPT !.thinking = s1.next, !.next = @ + 1]
    IN Tell(s2, "delta", s2.thinking, "thinking", <<n>>)

Content(s0, n) ==
    LET s1 == StopThinking(s0)
        s2 == IF s0.text # None THEN s0
              ELSE [Tell(s1, "start", s1.next, "text", <<>>)
                        EXCEPT !.text = s1.next, !.next = @ + 1]
    IN Tell(s2, "delta", s2.text, "text", <<n>>)

\* emitToolUseStart, for tool t; without an id it gets a synthetic one.
ToolStart(s0, t) ==
    LET s == StopText(StopThinking(s0)) IN
    [Tell(s, "start", s.next, "tool_use", <<t>>) EXCEPT
        !.block = (t :> s.next) @@ @, !.next = @ + 1,
        !.tools[t].started = TRUE, !.sawTool = TRUE]

\* A tool is announced as soon as its id and its name are known.
ToolDelta(s0, d, n) ==
    LET tools == IF d.tool \in DOMAIN s0.tools THEN s0.tools ELSE (d.tool :> NoTool) @@ s0.tools
        old == tools[d.tool]
        new == [old EXCEPT !.id = @ \/ d.id,
                           !.name = IF old.started THEN @ ELSE @ \/ d.name,
                           !.args = IF d.args THEN Append(@, n) ELSE @]
        s == [s0 EXCEPT !.tools = (d.tool :> new) @@ tools]
    IN IF ~new.started /\ new.name /\ new.id /\ ~s.stopped THEN ToolStart(s, d.tool) ELSE s

\* A tool without an id is announced at the end; one without a name never is.
\* Its arguments are told at once.
CloseTool(s0, t) ==
    LET s1 == IF s0.tools[t].started THEN s0 ELSE ToolStart(s0, t)
        b == s1.block[t]
        args == s1.tools[t].args
        s2 == IF args = <<>> THEN s1 ELSE Tell(s1, "delta", b, "tool_use", args)
    IN [Tell(s2, "stop", b, "tool_use", <<>>) EXCEPT
           !.block = [u \in DOMAIN @ \ {t} |-> @[u]]]

CloseTools(s) ==
    IF s.stopped THEN s
    ELSE LET named == {t \in DOMAIN s.tools : s.tools[t].started \/ s.tools[t].name} IN
         [FoldLeft(CloseTool, s, SetToSortSeq(named, LAMBDA a, b : a < b))
             EXCEPT !.stopped = TRUE]

CloseBlocks(s) == CloseTools(StopText(StopThinking(s)))

\* The reason is noted before the tools that are announced late.
Finish(s, r) ==
    CloseBlocks([s EXCEPT !.finish =
        CASE s.sawTool -> "tool_calls"
          [] ~s.sawTool /\ r = "tool_calls" -> "stop"
          [] OTHER -> r])

\* mapOpenAIFinishReasonToAnthropic
Mapped(r) ==
    CASE r \in {"tool_calls", "function_call"} -> "tool_use"
      [] r = "length" -> "max_tokens"
      [] OTHER -> "end_turn"

StopReason(s) == Mapped(IF s.sawTool THEN "tool_calls" ELSE s.finish)

MessageDelta(s) ==
    [Tell(s, "message_delta", None, StopReason(s), <<>>) EXCEPT !.deltaSent = TRUE]
MessageStop(s) ==
    IF s.stopSent THEN s ELSE [Tell(s, "message_stop", None, "", <<>>) EXCEPT !.stopSent = TRUE]

Usage(s) == IF s.finish = "" THEN s ELSE MessageStop(MessageDelta(s))

\* [DONE], which the executor adds when the upstream leaves it out.
Done(s) ==
    LET closed == CloseBlocks(s) IN
    MessageStop(IF closed.finish # "" /\ ~closed.deltaSent THEN MessageDelta(closed) ELSE closed)

-----------------------------------------------------------------------------
\* The same answer as convertOpenAINonStreamingToAnthropic tells it: reasoning,
\* text and tool calls in this order, and the upstream's reason as it is.  m has
\* the text of each kind, its calls by index, and the reason.  (The converter for
\* a request without a stream, ConvertOpenAIResponseToClaudeNonStream, tells the
\* text before the reasoning; the property below compares kind by kind.)
WholeBlocks(m) ==
    (IF m.thinking = <<>> THEN <<>> ELSE <<[kind |-> "thinking", text |-> m.thinking]>>) \o
    (IF m.text = <<>> THEN <<>> ELSE <<[kind |-> "text", text |-> m.text]>>) \o
    [i \in DOMAIN m.calls |-> [kind |-> "tool_use", text |-> m.calls[i]]]
WholeReason(m) ==
    IF m.reason # "" THEN Mapped(m.reason)
    ELSE IF m.calls # <<>> THEN "tool_use" ELSE "end_turn"

-----------------------------------------------------------------------------
Deltas ==
    {[kind |-> k] : k \in {"text", "thinking"}} \cup
    [kind : {"tool_use"}, tool : ToolIndexes, id : Ids, name : Names, args : BOOLEAN]

Chunk(d) ==
    /\ phase = "deltas" /\ Len(said) < MaxChunks
    /\ LET n == Len(said) + 1
           s == MessageStart(conv)
       IN conv' = CASE d.kind = "text" -> Content(s, n)
                    [] d.kind = "thinking" -> Reasoning(s, n)
                    [] OTHER -> ToolDelta(s, d, n)
    /\ said' = Append(said, d)
    /\ UNCHANGED <<reason, phase>>

FinishChunk(r) ==
    /\ phase = "deltas" /\ phase' = "finished" /\ reason' = r
    /\ conv' = Finish(MessageStart(conv), r)
    /\ UNCHANGED said

\* With the reason, in a chunk of its own, or not at all.
UsageChunk ==
    /\ phase = "finished" /\ ~conv.deltaSent
    /\ conv' = Usage(conv)
    /\ UNCHANGED <<said, reason, phase>>

\* The upstream may end without a reason.
DoneChunk ==
    /\ phase # "done" /\ phase' = "done"
    /\ conv' = Done(conv)
    /\ UNCHANGED <<said, reason>>

Next ==
    \/ \E d \in Deltas : Chunk(d)
    \/ \E r \in {"stop", "tool_calls", "length"} : FinishChunk(r)
    \/ UsageChunk
    \/ DoneChunk

Spec == Init /\ [][Next]_vars

-----------------------------------------------------------------------------
told == conv.out
At(type) == {i \in DOMAIN told : told[i].type = type}
OpenAt(i) == {told[j].block : j \in {k \in At("start") : k < i}} \
             {told[j].block : j \in {k \in At("stop") : k < i}}

\* What a client of the Claude API relies on: the message starts first and
\* stops last, once; block indexes count up from 0, a block is told only while
\* it is open, and its stop comes before the message's own delta.
WellFormed ==
    /\ \A i \in DOMAIN told :
        /\ told[i].type = "message_start" <=> (i = 1 /\ conv.started)
        /\ told[i].type = "start" =>
               told[i].block = Cardinality({j \in At("start") : j < i})
        /\ told[i].type \in {"delta", "stop"} => told[i].block \in OpenAt(i)
        /\ told[i].type \in {"message_delta", "message_stop"} =>
               OpenAt(i) = {} /\ \A j \in DOMAIN told : j > i => told[j].type = "message_stop"
    /\ phase = "done" => Cardinality(At("message_stop")) = 1 /\ Last(told).type = "message_stop"

\* The reason to stop says tool use exactly if a tool was announced.
ReasonIsTrue ==
    \A i \in At("message_delta") :
        told[i].kind = "tool_use" <=> \E j \in At("start") : told[j].kind = "tool_use"

\* Everything the upstream said of a tool it named, and every text, is told
\* once and in order.
Told(kind) == FlattenSeq([i \in DOMAIN told |->
    IF told[i].type = "delta" /\ told[i].kind = kind THEN told[i].text ELSE <<>>])
Said(kind) == SelectSeq([i \in DOMAIN said |-> i], LAMBDA i : said[i].kind = kind)
SaidOf(t) == SelectSeq([i \in DOMAIN said |-> i],
    LAMBDA i : said[i].kind = "tool_use" /\ said[i].tool = t /\ said[i].args)
ToldOf(t) ==
    LET starts == {i \in At("start") : told[i].kind = "tool_use" /\ told[i].text = <<t>>} IN
    {told[i].text : i \in {j \in At("delta") : \E k \in starts : told[j].block = told[k].block}}
NothingLost ==
    /\ \A kind \in {"text", "thinking"} : Told(kind) = Said(kind)
    /\ phase = "done" => \A t \in DOMAIN conv.tools :
        ToldOf(t) = IF SaidOf(t) # <<>> /\ conv.tools[t].name THEN {SaidOf(t)} ELSE {}

\* A client that asks for the answer at once is told the same texts and the
\* same calls, and the same reason if the upstream's reason is true.
Whole ==
    LET called == SetToSortSeq({t \in DOMAIN conv.tools : conv.tools[t].name}, LAMBDA a, b : a < b)
    IN [thinking |-> Said("thinking"), text |-> Said("text"), reason |-> reason,
        calls |-> [i \in DOMAIN called |-> SaidOf(called[i])]]
SameAtOnce ==
    phase = "done" =>
        LET whole == WholeBlocks(Whole)
            Ofkind(kind) == SelectSeq(whole, LAMBDA b : b.kind = kind)
            truth == (reason = "tool_calls") = (Whole.calls # <<>>)
        IN /\ \A kind \in {"text", "thinking"} :
                Told(kind) = FlattenSeq([i \in DOMAIN Ofkind(kind) |-> Ofkind(kind)[i].text])
           /\ Len(Ofkind("tool_use")) = Cardinality({i \in At("start") : told[i].kind = "tool_use"})
           /\ reason # "" /\ truth =>
                \A i \in At("message_delta") : told[i].kind = WholeReason(Whole)

StreamIsSound == WellFormed /\ ReasonIsTrue /\ NothingLost /\ SameAtOnce
=============================================================================
