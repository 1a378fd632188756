----------------------------- MODULE ClaudePayload -----------------------------
(***************************************************************************)
(* What the Claude executor makes of a request's body before it is sent    *)
(* (internal/runtime/executor/claude_executor.go): system messages in the  *)
(* middle moved to the top, cloaking, images taken out of tool results,    *)
(* and the cache breakpoints added, limited and ordered.  A text is a      *)
(* number, a part of a text the numbers joined in it, and the mark of a    *)
(* part the time to live of its cache_control.                             *)
(***************************************************************************)
EXTENDS Integers, Sequences, FiniteSets, SequencesExt, TLC

CONSTANTS
    MaxMarks,  \* most breakpoints the upstream takes (4 in the code)
    MaxBlocks  \* bound on the blocks of a request

VARIABLE body  \* the translated request

Marks == {"none", "5m", "1h"}
Billing == 0   \* the text that tells an injected system prompt
Agent   == -1  \* "You are Claude Code ..."
Static  == -2  \* the static prompt
Roles == {"user", "assistant", "system"}

Part(kind, text, mark, images) == [kind |-> kind, text |-> text, mark |-> mark, images |-> images]
Text(text, mark) == Part("text", text, mark, <<>>)
Message(role, plain, parts) == [role |-> role, plain |-> plain, parts |-> parts]

Init == body = [tools |-> <<>>, system |-> [plain |-> FALSE, parts |-> <<>>],
                messages |-> <<>>]

-----------------------------------------------------------------------------
(* Blocks in the order the upstream evaluates them. *)
Places(p) ==
    [t \in DOMAIN p.tools |-> <<"tools", t>>]
    \o [s \in DOMAIN p.system.parts |-> <<"system", s>>]
    \o FlattenSeq([m \in DOMAIN p.messages |->
           [i \in DOMAIN p.messages[m].parts |-> <<"messages", m, i>>]])

Mark(p, b) ==
    CASE b[1] = "tools"    -> p.tools[b[2]]
      [] b[1] = "system"   -> p.system.parts[b[2]].mark
      [] b[1] = "messages" -> p.messages[b[2]].parts[b[3]].mark

\* The marks of the places in set, changed.
SetMarks(p, set, mark) ==
    [tools |-> [t \in DOMAIN p.tools |->
                   IF <<"tools", t>> \in set THEN mark ELSE p.tools[t]],
     system |-> [p.system EXCEPT !.parts = [s \in DOMAIN @ |->
                   IF <<"system", s>> \in set THEN [@[s] EXCEPT !.mark = mark] ELSE @[s]]],
     messages |-> [m \in DOMAIN p.messages |->
         [p.messages[m] EXCEPT !.parts = [i \in DOMAIN @ |->
                   IF <<"messages", m, i>> \in set THEN [@[i] EXCEPT !.mark = mark] ELSE @[i]]]]]

Marked(p) == SelectSeq(Places(p), LAMBDA b : Mark(p, b) # "none")
MarkedIn(p, section) == SelectSeq(Marked(p), LAMBDA b : b[1] = section)

-----------------------------------------------------------------------------
(* rebuildMidSystemMessagesToTopLevel, when it is enabled. *)
TextParts(parts) == SelectSeq(parts, LAMBDA x : x.kind = "text")

RebuildMidSystem(p) ==
    LET moved == FlattenSeq([m \in DOMAIN p.messages |->
                     IF p.messages[m].role = "system" THEN TextParts(p.messages[m].parts)
                     ELSE <<>>])
    IN IF moved = <<>> THEN p
       ELSE [p EXCEPT
              !.system = [plain |-> FALSE, parts |-> TextParts(p.system.parts) \o moved],
              !.messages = SelectSeq(@, LAMBDA m : m.role # "system")]

(* applyCloaking: the system prompt of Claude Code takes the place of the   *)
(* client's, which goes into the first user message, unless it is strict.   *)
TextsOf(parts) == FlattenSeq([i \in DOMAIN parts |-> parts[i].text])

PrependToFirstUser(p, text) ==
    LET users == {m \in DOMAIN p.messages : p.messages[m].role = "user"}
        first == CHOOSE m \in users : \A n \in users : m <= n
    IN IF users = {} THEN p
       ELSE [p EXCEPT !.messages[first].parts =
                IF p.messages[first].plain THEN <<[@[1] EXCEPT !.text = text \o @]>>
                ELSE <<Text(text, "none")>> \o @]

AlreadyInjected(p) ==
    /\ ~p.system.plain /\ p.system.parts # <<>>
    /\ p.system.parts[1].text = <<Billing>>

CheckSystemInstructions(p, strict) ==
    LET texts == TextsOf(TextParts(p.system.parts))
        injected == [p EXCEPT !.system =
                        [plain |-> FALSE,
                         parts |-> [i \in 1..3 |-> Text(<<(<<Billing, Agent, Static>>)[i]>>, "none")]]]
    IN IF AlreadyInjected(p) THEN p
       ELSE IF strict \/ texts = <<>> THEN injected
       ELSE PrependToFirstUser(injected, texts)

(* extractToolResultImages, for the models that are configured so. *)
HasImages(x) == x.kind = "result" /\ x.images # <<>>

ExtractImages(p) ==
    [p EXCEPT !.messages = FlattenSeq([m \in DOMAIN p.messages |->
        LET message == p.messages[m]
            images == FlattenSeq([i \in DOMAIN message.parts |-> message.parts[i].images])
        IN IF message.plain \/ images = <<>> THEN <<message>>
           ELSE <<[message EXCEPT !.parts = [i \in DOMAIN @ |->
                       IF HasImages(@[i]) THEN Part("result", @[i].text, "none", <<>>) ELSE @[i]]],
                  Message("user", FALSE,
                       [i \in DOMAIN images |-> Part("image", <<>>, images[i], <<>>)])>>])]

-----------------------------------------------------------------------------
(* ensureCacheControl: the last tool, the last part of the system prompt    *)
(* and the last part of the user turn before the last.                      *)
MarkLast(p, section) ==
    LET last == SelectSeq(Places(p), LAMBDA b : b[1] = section)
    IN IF last = <<>> \/ MarkedIn(p, section) # <<>> THEN p
       ELSE SetMarks(p, {Last(last)}, "5m")

InjectTools(p) == MarkLast(p, "tools")

InjectSystem(p) ==
    LET q == MarkLast(p, "system")
    IN IF q.system.plain THEN [q EXCEPT !.system.plain = FALSE] ELSE q

InjectMessages(p) ==
    LET users == SetToSortSeq({m \in DOMAIN p.messages : p.messages[m].role = "user"},
                              LAMBDA x, y : x < y)
        turn == users[Len(users) - 1]
    IN IF MarkedIn(p, "messages") # <<>> \/ Len(users) < 2 THEN p
       ELSE IF p.messages[turn].parts = <<>> THEN p
       ELSE [SetMarks(p, {<<"messages", turn, Len(p.messages[turn].parts)>>}, "5m")
                EXCEPT !.messages[turn].plain = FALSE]

EnsureCacheControl(p) == InjectMessages(InjectSystem(InjectTools(p)))

\* enforceCacheControlLimit: the first marks go, those of the system, of the
\* tools and of the messages, the last of the system and of the tools last.
EnforceLimit(p, max) ==
    LET system == MarkedIn(p, "system")
        tools == MarkedIn(p, "tools")
        Sparing(marks) == IF marks = <<>> THEN <<>> ELSE Front(marks)
        Spared(marks) == IF marks = <<>> THEN <<>> ELSE <<Last(marks)>>
        order == Sparing(system) \o Sparing(tools) \o MarkedIn(p, "messages")
                 \o Spared(system) \o Spared(tools)
        excess == Len(order) - max
    IN IF excess <= 0 THEN p
       ELSE SetMarks(p, {order[i] : i \in 1..excess}, "none")

NormalizeBySection(p) ==  \* mutant: the tools and the system are forgotten
    LET marks == Marked(p) IN
    SetMarks(p, {marks[i] : i \in {j \in DOMAIN marks :
                   \E k \in 1..(j - 1) : Mark(p, marks[k]) = "5m" /\ marks[k][1] = marks[j][1]}}, "5m")

\* normalizeCacheControlTTL: after a mark of five minutes none is of an hour.
NormalizeTTL(p) ==
    LET marks == Marked(p) IN
    SetMarks(p, {marks[i] : i \in {j \in DOMAIN marks :
                   \E k \in 1..(j - 1) : Mark(p, marks[k]) = "5m"}}, "5m")

-----------------------------------------------------------------------------
(* The body that Execute and ExecuteStream send, and that of CountTokens. *)
Cloaks == {"never", "cloaked", "strict"}

Prepare(p, max, rebuild, cloak, images) ==
    LET rebuilt == IF rebuild THEN RebuildMidSystem(p) ELSE p
        cloaked == IF cloak = "never" THEN rebuilt
                   ELSE CheckSystemInstructions(rebuilt, cloak = "strict")
        extracted == IF images THEN ExtractImages(cloaked) ELSE cloaked
        ensured == IF Marked(extracted) = <<>> THEN EnsureCacheControl(extracted) ELSE extracted
    IN NormalizeTTL(EnforceLimit(ensured, max))

PrepareCount(p, max, rebuild) ==
    LET rebuilt == IF rebuild THEN RebuildMidSystem(p) ELSE p
    IN NormalizeTTL(EnforceLimit(CheckSystemInstructions(rebuilt, FALSE), max))

-----------------------------------------------------------------------------
(* The requests: tools first, then the system prompt, then the messages. *)
Blocks(p) == Len(p.tools) + Len(p.system.parts) + Len(p.messages)
             + Len(FlattenSeq([m \in DOMAIN p.messages |-> p.messages[m].parts]))
Fresh(p) == Blocks(p) + 1

AddTool(mark) ==
    /\ body.system.parts = <<>> /\ body.messages = <<>>
    /\ body' = [body EXCEPT !.tools = Append(@, mark)]

AddSystem(plain, text, mark) ==
    /\ body.messages = <<>> /\ ~body.system.plain
    /\ plain => body.system.parts = <<>> /\ mark = "none" /\ text # Billing
    /\ text = Billing => body.system.parts = <<>>
    /\ body' = [body EXCEPT !.system = [plain |-> plain, parts |-> Append(@.parts, Text(<<text>>, mark))]]

AddMessage(role, plain) ==
    /\ body.messages # <<>> => Last(body.messages).parts # <<>>
    /\ body' = [body EXCEPT !.messages =
                   Append(@, Message(role, plain, IF plain THEN <<Text(<<Fresh(body)>>, "none")>>
                                                  ELSE <<>>))]

AddPart(kind, mark, images) ==
    /\ body.messages # <<>> /\ ~Last(body.messages).plain
    /\ kind = "result" => Last(body.messages).role = "user"
    /\ kind = "text" => images = <<>>
    /\ body' = [body EXCEPT !.messages[Len(body.messages)].parts =
                   Append(@, Part(kind, <<Fresh(body)>>, mark, images))]

Next ==
    /\ Blocks(body) < MaxBlocks
    /\ \/ \E mark \in Marks : AddTool(mark)
       \/ \E plain \in BOOLEAN, text \in {Billing, Fresh(body)}, mark \in Marks :
              AddSystem(plain, text, mark)
       \/ \E role \in Roles, plain \in BOOLEAN : AddMessage(role, plain)
       \/ \E kind \in {"text", "result"}, mark \in Marks, images \in {<<>>, <<"1h">>} :
              AddPart(kind, mark, images)

Spec == Init /\ [][Next]_body

-----------------------------------------------------------------------------
(* Every body that is sent has no more breakpoints than the upstream takes, *)
(* and none of an hour after one of five minutes, whatever the client sent  *)
(* and whatever the steps before moved.  (Breakpoints are those of tools,   *)
(* system parts and message parts; the code looks for none within the       *)
(* content of a tool_result, and neither does this.)                        *)
MarksAccepted(p, max) ==
    LET marks == Marked(p) IN
    /\ Len(marks) <= max
    /\ \A i, j \in DOMAIN marks :
          i < j /\ Mark(p, marks[i]) = "5m" => Mark(p, marks[j]) = "5m"

(* And every text of the client is told once: those of the messages in      *)
(* their order, those of the system prompt unless it is strictly cloaked.   *)
Texts(p) == TextsOf(p.system.parts) \o FlattenSeq([m \in DOMAIN p.messages |-> TextsOf(p.messages[m].parts)])
Injected(n) == n <= 0
Own(texts) == SelectSeq(texts, LAMBDA n : ~Injected(n))
Among(texts, set) == SelectSeq(texts, LAMBDA n : n \in set)
SystemTexts(p) == Range(TextsOf(p.system.parts))
HasUser(p) == \E m \in DOMAIN p.messages : p.messages[m].role = "user"

TextsAreTold(sent, rebuild, strict) ==
    LET moved == {body.messages[m].parts[i].text[1] :
                     <<m, i>> \in {<<b[2], b[3]>> : b \in {c \in Range(Places(body)) :
                         c[1] = "messages" /\ body.messages[c[2]].role = "system"}}}
        system == SystemTexts(body) \cup (IF rebuild THEN moved ELSE {})
        own == Own(Texts(sent))
    IN /\ IsInjective(own)
       /\ strict \/ ~HasUser(body) \/ Range(own) = Range(Own(Texts(body)))
       /\ Among(own, Range(own) \ system) = Among(Own(Texts(body)), Range(own) \ system)

\* Images leave the results, and none is lost.
ImagesOf(p) == FlattenSeq([m \in DOMAIN p.messages |->
    FlattenSeq([i \in DOMAIN p.messages[m].parts |->
        LET x == p.messages[m].parts[i] IN IF x.kind = "image" THEN <<m>> ELSE x.images])])

PayloadIsAccepted ==
    \A max \in 1..MaxMarks, rebuild \in BOOLEAN :
        LET counted == PrepareCount(body, max, rebuild) IN
        /\ MarksAccepted(counted, max)
        /\ TextsAreTold(counted, rebuild, FALSE)
        /\ \A images \in BOOLEAN, cloak \in Cloaks :
              LET sent == Prepare(body, max, rebuild, cloak, images) IN
              /\ MarksAccepted(sent, max)
              /\ TextsAreTold(sent, rebuild, cloak = "strict")
              /\ Len(ImagesOf(sent)) = Len(ImagesOf(body))
=============================================================================
