------------------------------ MODULE MCProtocols ------------------------------
(* Small instances of the conversions of requests and answers, each checked *)
(* on its own: "part" says which of them takes steps.                       *)
EXTENDS Integers, Sequences, FiniteSets, TLC

CONSTANT Subjects

VARIABLES part,
    toConv, toSaid, toReason, toPhase,
    fromEvents, fromOpen, fromBlocks, fromChat, fromResp,
    rState, rSaid, rPhase,
    items,
    fStream, fByLine, fRest, fPending, fItems, fLoose, fWritten, fTorn, fPhase,
    conn, calls, outs, keyed, turn, log, asked, given, made, fails, hard,
    payload,
    main, twin, stage,
    pRules, pClient, pSource, pGiven, pOut, pPhase, pIndex, pLeft, pApplied, pMatched,
    aCredential, aModels, aTable, aListed, aOffsets, aStates, aRequest, aMade, aBlame, aTurns, aSpanned,
    iRequest, iListed, iGone, iHandler, iRelay, iError, iStream, iByLine, iRest, iPending, iHead, iOut,
    iTicks, iTorn

ToClaude == INSTANCE ToClaude WITH
    ToolIndexes <- {0, 1}, Ids <- BOOLEAN, Names <- BOOLEAN, MaxChunks <- 3,
    conv <- toConv, said <- toSaid, reason <- toReason, phase <- toPhase

FromClaude == INSTANCE FromClaude WITH
    MaxEvents <- 8,
    events <- fromEvents, open <- fromOpen, blocks <- fromBlocks, chat <- fromChat, resp <- fromResp

ToResponses == INSTANCE ToResponses WITH
    ToolIndexes <- {0, 1}, Custom <- {1}, OnlyCustom <- FALSE, MaxChunks <- 3,
    st <- rState, said <- rSaid, phase <- rPhase

\* The second call is of a freeform tool.
Told == INSTANCE Transcripts WITH
    CallIds <- {1, 2}, Freeform <- {2}, MaxItems <- 5, input <- items

Item(index) == [type |-> "item", index |-> index, own |-> FALSE]
Other       == [type |-> "other", index |-> -1, own |-> FALSE]
Completed(own) == [type |-> "completed", index |-> -1, own |-> own]
Framer == INSTANCE ResponsesFramer WITH
    Streams <- {<<Other, Item(1), Item(0), Completed(FALSE)>>, <<Item(1), Item(0), Item(1), Completed(FALSE)>>,
                <<Item(-1), Item(0), Completed(FALSE)>>, <<Item(0), Completed(TRUE)>>,
                <<Other, Completed(FALSE)>>},
    MaxChunk <- 8,
    stream <- fStream, byLine <- fByLine, rest <- fRest, pending <- fPending, items <- fItems,
    loose <- fLoose, written <- fWritten, torn <- fTorn, phase <- fPhase

Socket == INSTANCE WsResponses WITH MaxPerSession <- 2, MaxItems <- 6, MaxFails <- 1

Claude == INSTANCE ClaudePayload WITH MaxMarks <- 2, MaxBlocks <- 4, body <- payload

\* The Claude models of the catalogue, models of the configuration, and others.
Model(to, min, zero, dynamic, levels, limit) ==
    [to |-> to, user |-> FALSE, supports |-> TRUE, min |-> min,
     max |-> IF min = 0 THEN 0 ELSE 128000, zero |-> zero, dynamic |-> dynamic, levels |-> levels,
     type |-> IF to = "claude" THEN to ELSE "openai-compatibility", limit |-> limit]
Plain(to, user) == [Model(to, 0, FALSE, FALSE, <<>>, 8192) EXCEPT !.user = user, !.supports = FALSE]
Upper == <<"low", "medium", "high", "xhigh", "max">>

Thinks == INSTANCE Thinking WITH
    Models <- {Model("claude", 1024, FALSE, FALSE, <<>>, 8192),
               Model("claude", 1024, TRUE, FALSE, <<>>, 64000),
               Model("claude", 1024, TRUE, FALSE, <<"low", "medium", "high", "max">>, 64000),
               Model("claude", 1024, TRUE, FALSE, Upper, 128000),
               Model("claude", 0, TRUE, TRUE, Upper, 128000),
               Model("openai", 0, FALSE, FALSE, <<"low", "medium", "high">>, 0),
               Model("openai", 0, FALSE, FALSE, <<"low", "high">>, 0),
               Model("openai", 0, TRUE, FALSE, <<"none", "high", "max">>, 0),
               Model("openai", 0, FALSE, TRUE, <<"low">>, 0),
               Model("openai", 100, FALSE, FALSE, <<>>, 0),
               Plain("claude", FALSE), Plain("claude", TRUE), Plain("openai", TRUE)},
    Budgets <- {-2, 0, 1, 600, 1024, 9000, 40000, 200000},
    Efforts <- {"none", "auto", "minimal", "medium", "xhigh", "max", "turbo"},
    Limits <- {512, 9000, 200000}

\* Rules about a field, an object and its fields, and tools of types that come twice.
RuleEntry(exist, notExist) ==
    [name |-> {<<"u">>, <<"m">>}, from |-> "", to |-> "", headers |-> {}, match |-> {}, notMatch |-> {},
     exist |-> exist, notExist |-> notExist]
Anywhere == RuleEntry({}, {})
Rule(kind, entries, params) == [phase |-> kind, rule |-> [models |-> entries, params |-> params]]
A(value) == [place |-> [path |-> <<"a">>, query |-> {}, all |-> FALSE], value |-> value]
O(value) == [place |-> [path |-> <<"o">>, query |-> {}, all |-> FALSE], value |-> value]
X(value) == [place |-> [path |-> <<"o", "x">>, query |-> {}, all |-> FALSE], value |-> value]
Tool(query, all, value) == [place |-> [path |-> <<"tools">>, query |-> query, all |-> all], value |-> value]
Body(fields) ==
    [fields |-> fields, chosen |-> TRUE,
     tools |-> <<[n |-> 1, type |-> "image", mark |-> "absent"], [n |-> 2, type |-> "web", mark |-> "absent"],
                 [n |-> 3, type |-> "web", mark |-> "0"], [n |-> 4, type |-> "other", mark |-> "absent"]>>]
Client(mode, images) ==
    [mode |-> mode, images |-> images, model |-> "u", base |-> "m", suffix |-> TRUE, from |-> "openai",
     to |-> "claude", headers |-> {"h"}]

Ruled == INSTANCE PayloadRules WITH
    Rules <- {Rule("default", {Anywhere}, <<A("1"), X("1")>>),
              Rule("default", {Anywhere}, <<O("2"), Tool({"web"}, FALSE, "2")>>),
              Rule("default", {[Anywhere EXCEPT !.from = "claude"],
                               [Anywhere EXCEPT !.name = {<<"m", "suffix">>}, !.notMatch = {A("1")}]},
                   <<X("3")>>),
              Rule("override", {RuleEntry({X("").place}, {})}, <<A("4"), X("4")>>),
              Rule("override", {[RuleEntry({}, {A("").place}) EXCEPT !.from = "openai"],
                                [Anywhere EXCEPT !.match = {Tool({"web"}, TRUE, "2")}, !.headers = {{"h"}}]},
                   <<Tool({"web", "other"}, TRUE, "5")>>),
              Rule("filter", {[Anywhere EXCEPT !.to = "claude"]}, <<A(""), Tool({"web"}, TRUE, "")>>),
              Rule("filter", {[Anywhere EXCEPT !.match = {A("4")}]}, <<O(""), Tool({"web"}, FALSE, "")>>)},
    Prepared <- {<<>>, <<"a">> :> "7"},
    Bodies <- {Body(<<>>), Body(<<"a">> :> "0"), Body(<<"o">> :> "0"),
               Body(<<"o">> :> "object" @@ <<"o", "x">> :> "0")},
    Clients <- {Client("off", FALSE), Client("chat", FALSE), Client("chat", TRUE), Client("all", TRUE)},
    MaxRules <- 3,
    rules <- pRules, client <- pClient, source <- pSource, given <- pGiven, out <- pOut, phase <- pPhase,
    index <- pIndex, left <- pLeft, applied <- pApplied, matched <- pMatched

\* A pool with a suffix and a shared member, and aliases that are names as well.
Entry(name, suffix, alias) ==
    [name |-> [prefixed |-> FALSE, base |-> name, suffix |-> suffix], alias |-> alias]
Aliased == INSTANCE Aliases WITH
    Credentials <- {[provider |-> "claude", prefix |-> FALSE], [provider |-> "compat", prefix |-> TRUE]},
    Entries <- {<<Entry("x", "", "a")>>,
                <<Entry("x", "high", "a"), Entry("y", "", "a"), Entry("y", "", "b")>>,
                <<Entry("x", "", ""), Entry("y", "", "x")>>},
    Thought <- {"", "low"}, MaxCalls <- 3, MaxReloads <- 1,
    credential <- aCredential, models <- aModels, table <- aTable, listed <- aListed,
    offsets <- aOffsets, states <- aStates, request <- aRequest, made <- aMade,
    blame <- aBlame, turns <- aTurns, spanned <- aSpanned

\* Every path; a partial image and a completion with images, without, and before others.
Ask(kind, streamed, form) ==
    [kind |-> kind, stream |-> streamed, form |-> form, off |-> FALSE, prompt |-> TRUE, image |-> form # "json"]
Partial      == [type |-> "partial", images |-> 1]
Finished(n)  == [type |-> "completed", images |-> n]
Pictured == INSTANCE Images WITH
    Requests <- {Ask("codex", TRUE, "generate"), Ask("codex", FALSE, "json"), Ask("xai", TRUE, "generate"),
                 Ask("xai", FALSE, "multipart"), Ask("xai", TRUE, "json"), Ask("compat", TRUE, "generate"),
                 Ask("compat", FALSE, "generate"), Ask("compat", TRUE, "json"), Ask("other", TRUE, "generate"),
                 [Ask("codex", TRUE, "generate") EXCEPT !.off = TRUE]},
    Streams <- {<<[type |-> "other", images |-> 0], Partial, Finished(2)>>, <<Partial, Finished(0)>>,
                <<Finished(1), Partial>>},
    MaxChunk <- 8, MaxTicks <- 1,
    request <- iRequest, listed <- iListed, gone <- iGone, handler <- iHandler, relay <- iRelay,
    error <- iError, stream <- iStream, byLine <- iByLine, rest <- iRest, pending <- iPending,
    head <- iHead, out <- iOut, ticks <- iTicks, torn <- iTorn

toVars     == <<toConv, toSaid, toReason, toPhase>>
fromVars   == <<fromEvents, fromOpen, fromBlocks, fromChat, fromResp>>
rVars      == <<rState, rSaid, rPhase>>
framerVars == <<fStream, fByLine, fRest, fPending, fItems, fLoose, fWritten, fTorn, fPhase>>
socketVars == <<conn, calls, outs, keyed, turn, log, asked, given, made, fails, hard>>
thinkVars  == <<main, twin, stage>>
ruleVars   == <<pRules, pClient, pSource, pGiven, pOut, pPhase, pIndex, pLeft, pApplied, pMatched>>
aliasVars  == <<aCredential, aModels, aTable, aListed, aOffsets, aStates, aRequest, aMade,
                aBlame, aTurns, aSpanned>>
imageVars  == <<iRequest, iListed, iGone, iHandler, iRelay, iError, iStream, iByLine, iRest, iPending,
                iHead, iOut, iTicks, iTorn>>

vars == <<part, toVars, fromVars, rVars, items, framerVars, socketVars, payload, thinkVars, ruleVars, aliasVars,
          imageVars>>

\* Only the part that takes steps starts in more than one way.
Init ==
    /\ part \in Subjects
    /\ ToClaude!Init /\ FromClaude!Init /\ ToResponses!Init /\ Told!Init
    /\ Socket!Init   /\ (part # "socket" => keyed)
    /\ Framer!Init   /\ (part # "framer" => fStream = <<Other, Completed(FALSE)>> /\ fByLine)
    /\ Ruled!Init    /\ (part # "rules" => pClient.mode = "off" /\ pGiven.fields = <<>>)
    /\ Pictured!Init /\ (part # "images" => iRequest.kind = "other" /\ Len(iStream) = 3 /\ iByLine)
    /\ Aliased!Init  /\ (part # "alias" => aCredential.prefix /\ Len(aModels) = 1)
    /\ Claude!Init /\ Thinks!Init

Next ==
    \/ part = "toClaude" /\ ToClaude!Next
       /\ UNCHANGED <<part, fromVars, rVars, items, socketVars, payload, framerVars, thinkVars, ruleVars, aliasVars, imageVars>>
    \/ part = "fromClaude" /\ FromClaude!Next
       /\ UNCHANGED <<part, toVars, rVars, items, socketVars, payload, framerVars, thinkVars, ruleVars, aliasVars, imageVars>>
    \/ part = "toResponses" /\ ToResponses!Next
       /\ UNCHANGED <<part, toVars, fromVars, items, socketVars, payload, framerVars, thinkVars, ruleVars, aliasVars, imageVars>>
    \/ part = "told" /\ Told!Next
       /\ UNCHANGED <<part, toVars, fromVars, rVars, socketVars, payload, framerVars, thinkVars, ruleVars, aliasVars, imageVars>>
    \/ part = "socket" /\ Socket!Next
       /\ UNCHANGED <<part, toVars, fromVars, rVars, items, payload, framerVars, thinkVars, ruleVars, aliasVars, imageVars>>
    \/ part = "payload" /\ Claude!Next
       /\ UNCHANGED <<part, toVars, fromVars, rVars, items, socketVars, framerVars, thinkVars, ruleVars, aliasVars, imageVars>>
    \/ part = "thinking" /\ Thinks!Next
       /\ UNCHANGED <<part, toVars, fromVars, rVars, items, socketVars, payload, framerVars, ruleVars, aliasVars, imageVars>>
    \/ part = "alias" /\ Aliased!Next
       /\ UNCHANGED <<part, toVars, fromVars, rVars, items, socketVars, payload, framerVars, thinkVars, ruleVars, imageVars>>
    \/ part = "rules" /\ Ruled!Next
       /\ UNCHANGED <<part, toVars, fromVars, rVars, items, socketVars, payload, framerVars, thinkVars, aliasVars, imageVars>>
    \/ part = "framer" /\ Framer!Next
       /\ UNCHANGED <<part, toVars, fromVars, rVars, items, socketVars, payload, thinkVars, ruleVars, aliasVars, imageVars>>
    \/ part = "images" /\ Pictured!Next
       /\ UNCHANGED <<part, toVars, fromVars, rVars, items, framerVars, socketVars, payload, thinkVars, ruleVars, aliasVars>>

Spec == Init /\ [][Next]_vars

-----------------------------------------------------------------------------
\* See the properties of the same names.
TranscriptsAreWhole == part = "told" => Told!TranscriptsAreWhole
RequestIsWhole      == part = "socket" => Socket!RequestIsWhole
ThinkingIsAccepted  == part = "thinking" => Thinks!ThinkingIsAccepted
AliasesAreSound     == part = "alias" => Aliased!AliasesAreSound
\* What is sent upstream: the client's body as the rules change it, and, to Claude, one
\* that the service accepts (see the properties of the two modules).
PayloadIsAccepted ==
    /\ part = "payload" => Claude!PayloadIsAccepted
    /\ part = "rules" => Ruled!RulesAreFollowed
\* Violated: parallel calls and their results alternate in a chat transcript.
StrictAdjacency     == Told!StrictAdjacency
=============================================================================
