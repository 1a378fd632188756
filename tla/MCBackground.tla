----------------------------- MODULE MCBackground -----------------------------
(* The components around the requests, each checked on its own: "part" says *)
(* which of them takes steps.  The refresh loop is the module extended.     *)
EXTENDS RefreshLoop, Background, TLC

CONSTANT Parts

MCPriority == <<1, 1>>
MCOpening  == [c |-> "hi", d |-> "hi"]
MCWindows  ==
    <<[length |-> 0, models |-> {"m"}, measure |-> "input", limit |-> 2],
      [length |-> 1, models |-> {}, measure |-> "price", limit |-> 2]>>
MCDetails  == {[input |-> 2, output |-> 0, cached |-> 1]}

\* A credential whose provider refreshes ahead of time, and one with an
\* interval of its own.
MCKinds == {[interval |-> 0, lead |-> 1, life |-> 2], [interval |-> 1, lead |-> 0, life |-> 2]}

\* A request with its chunks and attempts; two that fail with the log off.
MCAlone    == logReq'["d"].phase = "none"
MCFailures == /\ toggles' <= 1
              /\ \A c \in LogClients : logReq'[c].said = 0 /\ logReq'[c].attempts = 0

MCVars == <<part, vars, configVars, sessionsVars, limitsVars, callVars, logVars>>

\* At most one call at a time, or record of one, past windows it did not check.
MCPast(r)   == r.passed < Len(MCWindows)
MCUnchecked ==
    Quantify(LimitCallers, LAMBDA c : call'[c].pc \in {"open", "run"}
                                        /\ call'[c].i <= Len(MCWindows))
      + Len(SelectSeq(queue', MCPast)) + Len(SelectSeq(store', MCPast)) <= 1

\* Only the part that takes steps starts in more than one way.
MCInit ==
    /\ part \in Parts
    /\ Config!Init /\ Sessions!Init /\ Limits!Init /\ Init /\ Calls!Init
    /\ Log!Init
    /\ part # "sessions" => strategy = "fill-first"
    /\ part # "refresh" => \A a \in DOMAIN kind : kind[a].lead = 1
    /\ part # "call" => how = [executor |-> "claude", mode |-> "unary", translated |-> TRUE]
    /\ part \notin {"request", "failures"} => enabled

MCNext ==
    \/ part = "config" /\ Config!Next
       /\ UNCHANGED <<part, sessionsVars, limitsVars, vars, callVars, logVars>>
    \/ part = "sessions" /\ Sessions!Next
       /\ UNCHANGED <<part, configVars, limitsVars, vars, callVars, logVars>>
    \/ part = "limits" /\ Limits!Next /\ MCUnchecked
       /\ UNCHANGED <<part, configVars, sessionsVars, vars, callVars, logVars>>
    \/ part = "refresh" /\ Next
       /\ UNCHANGED <<part, configVars, sessionsVars, limitsVars, callVars, logVars>>
    \/ part = "call" /\ Calls!Next
       /\ UNCHANGED <<part, configVars, sessionsVars, limitsVars, vars, logVars>>
    \/ part = "request" /\ Log!Next /\ MCAlone
       /\ UNCHANGED <<part, configVars, sessionsVars, limitsVars, vars, callVars>>
    \/ part = "failures" /\ Log!Next /\ MCFailures
       /\ UNCHANGED <<part, configVars, sessionsVars, limitsVars, vars, callVars>>

MCSpec == MCInit /\ [][MCNext]_MCVars /\ Config!Fairness

-----------------------------------------------------------------------------
\* The properties are those of Background, and RefreshIsSound is the loop's own.

\* Violated: usage limits are lost with a queued removal, credentials are
\* forgotten by the refresh loop, an answer without usage leaves no record,
\* and what a stream told before it failed is not in its log.
LimitsInForce         == Config!LimitsInForce
EveryAnswerIsRecorded == Calls!EveryAnswerIsRecorded
StreamIsLogged        == Log!StreamIsLogged
=============================================================================
