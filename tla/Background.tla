------------------------------ MODULE Background ------------------------------
(***************************************************************************)
(* The components around the requests that have nothing in common but the  *)
(* time they run: the configuration's way to the credentials, the session  *)
(* affinity, the usage limits and a call of an executor, with what each of *)
(* them promises.  "part" says which of them takes steps.                  *)
(***************************************************************************)
EXTENDS Integers, Sequences, FiniteSets

CONSTANTS
    Ids, Reloaders, MaxVersion, MaxEdits, QueueSize,      \* of ConfigFlow
    Auths, Priority, Websockets, Conversations, Sockets, Named, Opening,
    TTL, WrapAt, MaxTurns, MaxClock, MaxChanges,          \* of Affinity
    LimitCallers, Models, Windows, Details, Prices,
    QueueBound, MaxCalls, MaxHour,                        \* of Limiter
    MaxLines,                                             \* of ExecutorCall
    LogClients, Capacity, MaxFiles,
    MaxChunks, MaxAttempts, MaxToggles                    \* of RequestLog

\* A configuration lists finitely many credentials.
ASSUME ConfigSound == IsFiniteSet(Ids) /\ MaxVersion \in Nat /\ MaxEdits \in Nat

\* Credentials are numbered from one, and a binding lives for some time.
ASSUME AffinitySound == 0 \notin Auths /\ TTL \in Nat

\* A limit of nothing is none (limiter.go:168-195); what a request reports and
\* what it costs are counts.
ASSUME LimitsSound ==
    /\ IsFiniteSet(LimitCallers) /\ QueueBound \in Nat
    /\ Windows \in Seq([length : Nat, models : SUBSET Models, limit : Nat \ {0},
                        measure : {"input", "output", "cached", "price"}])
    /\ IsFiniteSet(Details) /\ Details # {}
    /\ Details \subseteq [input : Nat, output : Nat, cached : Nat]
    /\ IsFiniteSet(Prices) /\ Prices # {} /\ Prices \subseteq Nat

\* A limit of no error logs is none (request_logger.go:751).
ASSUME LogSound == MaxFiles \in Nat \ {0}

VARIABLES part,
    disk, mgmt, wait, reload, watch, service, flow, creds, limits, overlap,
    cache, cursor, strategy, clock, held, changes, turn, req, served,
    hour, call, queue, store, prices, started,
    how, phase, body, buffer, records, chunks, offer, gone, lines, result,
    enabled, capture, toggles, logs, logReq

Config   == INSTANCE ConfigFlow
Sessions == INSTANCE Affinity
Limits   == INSTANCE Limiter WITH Callers <- LimitCallers
Calls    == INSTANCE ExecutorCall
Log      == INSTANCE RequestLog WITH Clients <- LogClients, req <- logReq

configVars   == <<disk, mgmt, wait, reload, watch, service, flow, creds, limits, overlap>>
sessionsVars == <<cache, cursor, strategy, clock, held, changes, turn, req, served>>
limitsVars   == <<hour, call, queue, store, prices, started>>
callVars     == <<how, phase, body, buffer, records, chunks, offer, gone, lines, result>>
logVars      == <<enabled, capture, toggles, logs, logReq>>

-----------------------------------------------------------------------------
\* The changes underway lead to the credentials the watcher knows; ConfigFlow.
LastWordCounts    == part = "config" => Config!LastWordCounts
CredentialsFollow == Config!CredentialsFollow
\* A conversation stays with its credential; Affinity.
SessionSticks     == Sessions!SessionSticks
\* A limit is exceeded by no more than what is underway; Limiter.
OvershootBounded  == part = "limits" => Limits!OvershootBounded
\* A call leaves the usage record it should; ExecutorCall.
CallIsRecorded    == part = "call" => Calls!CallIsRecorded
\* A request leaves the log it should, and nothing else; RequestLog.
LogsAreKept       == part \in {"request", "failures"} => Log!LogsAreKept
=============================================================================
