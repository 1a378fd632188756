------------------------------ MODULE Requests ------------------------------
(***************************************************************************)
(* The request loops of the auth manager (sdk/cliproxy/auth/conductor.go): *)
(* Execute, ExecuteCount and ExecuteStream of one request.  A loop picks   *)
(* one credential after the other, tries the upstream models of each,      *)
(* refreshes a credential once after a 401, marks every outcome, and       *)
(* starts over after a cooldown when that is short enough to wait for.     *)
(*                                                                         *)
(* Time is abstracted to what the loops ask about a hold: whether it ends  *)
(* within the longest wait they accept ("short") or not ("long").          *)
(***************************************************************************)
EXTENDS Integers, Sequences, FiniteSets

CONSTANTS
    Auths,                \* credentials that serve the requested model
    Pool,                 \* Pool[a]: how many upstream models the alias has
    Refreshable,          \* credentials with a refresh token
    RequestRetry,         \* RequestRetry[a]: extra attempts (request-retry or a's own)
    MaxRetryCredentials,  \* max-retry-credentials; 0 means all of them
    MaxBuffered           \* bound: chunks without a payload before the first

ASSUME RequestsAssumption ==
    /\ Pool \in [Auths -> Nat \ {0}]
    /\ Refreshable \subseteq Auths
    /\ RequestRetry \in [Auths -> Nat] /\ MaxRetryCredentials \in Nat /\ MaxBuffered \in Nat

VARIABLES
    loop,    \* the manager's loop of the request
    held,    \* held[a][k]: the hold of a's state k, 0 being the route model
    ctx,     \* TRUE once the request's context is cancelled
    owed,    \* history: upstream calls (and failed preparations) without a result
    refused  \* history: the last upstream call was answered with an invalid request

loopVars == <<loop, held, ctx, owed, refused>>

Kinds   == {"execute", "count", "stream"}
Holds   == {"no", "short", "long"}
Failures == {"401", "429", "invalid", "no_route"}

\* The keys under which results of a are recorded: one per model of a pool,
\* the route model otherwise (stateModelForExecution).
StateKey(a, m) == IF Pool[a] > 1 THEN m ELSE 0

Idle(kind) ==
    [pc |-> "idle", kind |-> kind, attempt |-> 0, tried |-> {}, attempted |-> {},
     auth |-> CHOOSE a \in Auths : TRUE, models |-> <<>>, refreshed |-> FALSE,
     again |-> "no", lastErr |-> "none", boots |-> FALSE, buffered |-> 0]

LoopInit(kind) ==
    /\ loop = Idle(kind)
    /\ held = [a \in Auths |-> [k \in 0..Pool[a] |-> "no"]]
    /\ ctx = FALSE
    /\ owed = 0
    /\ refused = FALSE

\* Execute, ExecuteCount, ExecuteStream: enter the loop.
Begin == loop' = [Idle(loop.kind) EXCEPT !.pc = "pick"]

Ended(result, err) == loop' = [loop EXCEPT !.pc = result, !.lastErr = err, !.boots = FALSE]

-----------------------------------------------------------------------------
(* One round over the credentials: executeMixedOnce and its siblings.      *)

LimitReached == MaxRetryCredentials > 0 /\ Cardinality(loop.attempted) >= MaxRetryCredentials

Pickable == {a \in Auths \ loop.tried : held[a][0] = "no"}

\* No further credential may be tried: the round ends with the last error.
PickNothing ==
    /\ loop.pc = "pick"
    /\ LimitReached \/ Pickable = {}
    /\ loop' = [loop EXCEPT !.pc = "failed",
                            !.lastErr = IF @ = "none" THEN "not_found" ELSE @]
    /\ UNCHANGED <<held, ctx, owed, refused>>

\* The pool begins at an offset that all requests share, so it may be any.
Rotations(a) == {[i \in 1..Pool[a] |-> 1 + ((i + k) % Pool[a])] : k \in 1..Pool[a]}

Open(a, ms) == SelectSeq(ms, LAMBDA m : held[a][StateKey(a, m)] = "no")

\* A credential all of whose models are held counts as tried, not as attempted.
Pick(a) ==
    /\ loop.pc = "pick" /\ ~LimitReached
    /\ a \in Pickable
    /\ \E ms \in Rotations(a) :
         LET models == Open(a, ms) IN
         loop' = [loop EXCEPT !.tried = @ \union {a},
                              !.auth = a,
                              !.models = models,
                              !.refreshed = FALSE,
                              !.again = "no",
                              !.attempted = IF models = <<>> THEN @ ELSE @ \union {a},
                              !.pc = IF models = <<>> THEN "pick" ELSE "prepare"]
    /\ UNCHANGED <<held, ctx, owed, refused>>

\* MarkResult: what the availability record of a state is after a result.
\* A failure opens a window or none (AuthState says which; none when cooling
\* is disabled); a failure of the request itself, an error without a status
\* and a missing count_tokens route leave it alone.
HoldsAfter(a, k, err) ==
    CASE err \in {"invalid", "no_route", "ctx", "no_data"} -> {held[a][k]}
      [] err = "none" -> {"no"}
      [] err = "401" -> {"no", "long"}
      [] OTHER -> Holds

Mark(a, k, err) == \E h \in HoldsAfter(a, k, err) : held' = [held EXCEPT ![a][k] = h]

\* prepareRequestAuth succeeds or has nothing to do ...
Prepared ==
    /\ loop.pc = "prepare"
    /\ loop' = [loop EXCEPT !.pc = "call"]
    /\ UNCHANGED <<held, ctx, owed, refused>>

\* ... or fails, which is a result of the route model.
PrepareFails ==
    /\ loop.pc = "prepare"
    /\ Mark(loop.auth, 0, "prepare")
    /\ loop' = [loop EXCEPT !.pc = "pick", !.lastErr = "prepare", !.boots = FALSE]
    /\ UNCHANGED <<ctx, owed, refused>>

Model    == Head(loop.models)
Key      == StateKey(loop.auth, Model)
LastOne  == Len(loop.models) = 1

\* Turns to the next model of the pool, or to the next credential.
NextModel(err, boots) ==
    [loop EXCEPT !.models = Tail(@),
                 !.pc = IF LastOne THEN "pick" ELSE "call",
                 !.again = "no",
                 !.buffered = 0,
                 !.lastErr = err,
                 !.boots = boots]

\* Faulty variant: a request-scoped failure is like any other.
FailGoingOn(err, boots) ==
    /\ Mark(loop.auth, Key, err)
    /\ IF ctx /\ LastOne THEN Ended("failed", "ctx") ELSE loop' = NextModel(err, boots)

\* A failure is marked; a request-scoped one ends the request at once, and so
\* does a cancelled context when a stream has no further model.
Fail(err, boots) ==
    /\ Mark(loop.auth, Key, err)
    /\ CASE err = "invalid" -> Ended("failed", err)
         [] err # "invalid" /\ ctx /\ LastOne -> Ended("failed", "ctx")
         [] OTHER -> loop' = NextModel(err, boots)

MayRefresh(err) == err = "401" /\ ~loop.refreshed /\ loop.auth \in Refreshable

-----------------------------------------------------------------------------
(* The upstream call (executor.Execute, CountTokens, ExecuteStream).        *)

CallSucceeds ==
    /\ loop.pc = "call" /\ loop.kind # "stream"
    /\ refused' = FALSE
    /\ Mark(loop.auth, Key, "none")
    /\ Ended("done", "none")
    /\ UNCHANGED <<ctx, owed>>

StreamOpens ==
    /\ loop.pc = "call" /\ loop.kind = "stream"
    /\ owed' = owed + 1 /\ refused' = FALSE
    /\ loop' = [loop EXCEPT !.pc = "bootstrap", !.buffered = 0]
    /\ UNCHANGED <<held, ctx>>

\* tryRefreshAfterUnauthorized succeeds: the call is repeated.
Renew ==
    /\ loop' = [loop EXCEPT !.pc = "call", !.refreshed = TRUE, !.again = loop.pc, !.buffered = 0]
    /\ UNCHANGED held

\* The call fails.  A cancelled request is not the credential's fault: its
\* error is returned and nothing is marked.
CallFails(err) ==
    /\ loop.pc = "call"
    /\ err = "no_route" => loop.kind = "count"
    /\ refused' = (err = "invalid")
    /\ \/ ctx /\ Ended("failed", "ctx") /\ owed' = owed + 1 /\ UNCHANGED held
       \/ ~ctx /\ MayRefresh(err) /\ Renew /\ UNCHANGED owed
       \/ ~ctx /\ Fail(err, loop.again = "bootstrap" /\ LastOne) /\ UNCHANGED owed
    /\ UNCHANGED ctx

-----------------------------------------------------------------------------
(* readStreamBootstrap: nothing is handed on before the first payload.     *)

BootstrapEmpty ==
    /\ loop.pc = "bootstrap" /\ loop.buffered < MaxBuffered
    /\ loop' = [loop EXCEPT !.buffered = @ + 1]
    /\ UNCHANGED <<held, ctx, owed, refused>>

\* The first payload, or the end of a stream that sent chunks without one.
BootstrapDone(closed) ==
    /\ loop.pc = "bootstrap"
    /\ closed => loop.buffered > 0
    /\ Ended(IF closed THEN "closed" ELSE "stream", "none")
    /\ UNCHANGED <<held, ctx, owed, refused>>

\* An error before the first payload: as for a failed call, but when it was
\* the last model the error keeps the headers of the stream.
BootstrapFails(err) ==
    /\ loop.pc = "bootstrap" /\ ~ctx
    /\ err # "no_route"
    /\ refused' = (err = "invalid")
    /\ owed' = owed - 1
    /\ \/ MayRefresh(err) /\ Renew
       \/ Fail(err, LastOne)
    /\ UNCHANGED ctx

\* The context ends while the bootstrap is read.  The first time this returns
\* the context's error; after a refresh it counts as a failure of the stream.
BootstrapCancelled ==
    /\ loop.pc = "bootstrap" /\ ctx
    /\ IF loop.again = "bootstrap"
       THEN Fail("ctx", LastOne) /\ owed' = owed - 1
       ELSE Ended("failed", "ctx") /\ UNCHANGED <<held, owed>>
    /\ UNCHANGED <<ctx, refused>>

\* The stream ends before it has sent anything.
BootstrapEmptyStream ==
    /\ loop.pc = "bootstrap" /\ loop.buffered = 0
    /\ refused' = FALSE
    /\ Fail("no_data", LastOne)
    /\ owed' = owed - 1
    /\ UNCHANGED ctx

-----------------------------------------------------------------------------
(* shouldRetryAfterError, closestCooldownWait, waitForCooldown             *)

Retrying == {a \in Auths : loop.attempt < RequestRetry[a]}

Waits == {held[a][0] : a \in Retrying} \ {"no"}

\* After a 429 without a hold the upstream's Retry-After is waited for.
MayWait ==
    /\ Retrying # {}
    /\ loop.lastErr # "invalid"
    /\ IF Waits # {} THEN "short" \in Waits ELSE loop.lastErr = "429"

MustWait == MayWait /\ Waits # {}

RetryLater ==
    /\ loop.pc = "failed" /\ MayWait
    /\ loop' = [loop EXCEPT !.pc = "wait"]
    /\ UNCHANGED <<held, ctx, owed, refused>>

\* The loop returns: an error, or for a stream that failed in its bootstrap
\* a stream that consists of the error (streamErrorResult).
GiveUp ==
    /\ loop.pc = "failed" /\ ~MustWait
    /\ loop' = [loop EXCEPT !.pc = IF loop.boots THEN "errorStream" ELSE "error"]
    /\ UNCHANGED <<held, ctx, owed, refused>>

\* The wait ends with the shortest hold; longer ones of those may go on.
WaitEnds ==
    /\ loop.pc = "wait"
    /\ \E over \in SUBSET Auths :
         /\ Waits = {} \/ \E a \in over : held[a][0] = "short"
         /\ held' = [a \in Auths |->
               [k \in DOMAIN held[a] |->
                   IF a \in over /\ held[a][k] = "short" THEN "no" ELSE held[a][k]]]
    /\ loop' = [Idle(loop.kind) EXCEPT !.pc = "pick", !.attempt = loop.attempt + 1]
    /\ UNCHANGED <<ctx, owed, refused>>

WaitCancelled ==
    /\ loop.pc = "wait" /\ ctx
    /\ Ended("error", "ctx")
    /\ UNCHANGED <<held, ctx, owed, refused>>

-----------------------------------------------------------------------------
Bootstrap ==
    \/ BootstrapEmpty \/ BootstrapCancelled \/ BootstrapEmptyStream
    \/ \E closed \in BOOLEAN : BootstrapDone(closed)
    \/ \E err \in Failures : BootstrapFails(err)

Loop ==
    \/ PickNothing \/ Prepared \/ PrepareFails
    \/ \E a \in Auths : Pick(a)
    \/ CallSucceeds \/ StreamOpens
    \/ \E err \in Failures : CallFails(err)
    \/ Bootstrap
    \/ RetryLater \/ GiveUp \/ WaitEnds \/ WaitCancelled

\* The loop has returned and its caller has not taken the result yet.
Returned == loop.pc \in {"done", "error", "errorStream", "stream", "closed"}
=============================================================================
