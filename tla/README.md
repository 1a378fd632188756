# CLIProxyAPI in TLA+

CLIProxyAPI is a proxy: clients speak one of several API dialects to it, it picks one of the configured upstream
credentials, translates the request, calls the upstream, translates the answer back, and books what happened. What can go
wrong in it and is hard to test are two things. One is the bookkeeping: which credential may be used for which model and
until when, kept in four places at once by request goroutines, a configuration watcher, refreshes and a management API;
who is picked next; which models are announced; what becomes of usage records and logs when requests fail, clients leave
or the process stops. The other are the conversions, which keep state over a stream and must tell the same answer
whatever the order and the cut of the pieces. These modules model both from the source, check them with TLC on small
instances and prove part of them with TLAPS.

Paths are relative to the repository, which the maps in `PROJECT.json` name as `src/`; `co`, `sc`, `se`, `mr`, `um` and
`sv` stand for `sdk/cliproxy/auth/conductor.go`, `.../scheduler.go`, `.../selector.go`,
`internal/registry/model_registry.go`, `sdk/cliproxy/usage/manager.go` and `sdk/cliproxy/service.go`.

## 1. The system

| Component | State | Operations | Talks to |
|---|---|---|---|
| Usage queue (`um`) | queue, closed, dispatcher, plugin list and names, under a mutex with a condition variable and an RW mutex | Start, Publish, Stop, Register, RegisterNamed, run/dispatch/safeInvoke | called by every executor's reporter; calls the plugins |
| Usage persistence (`internal/usage/persist_plugin.go`) | database handle, statement, prices | HandleUsage, Close, queries | a plugin of the queue; read by the rate limiter and the management API |
| Credential state (`sdk/cliproxy/auth/types.go`, functions of `co`) | per credential and model: unavailable, next retry, quota (exceeded, recovery, backoff level), last error; the aggregate of the models | results, reset, reconcile, update, refresh, restore | read by selectors and scheduler |
| Cooldown files (`cooldown_state.go`) | one `.cds` file per credential | Load, Save | written by the conductor, read at start-up and on reloads |
| Conductor (`co`) | map of credentials under `Manager.mu`, executors, aliases, refresh locks | Register, Update, Remove, MarkResult, ResetQuota, SetConfig, Reconcile, Restore, refreshAuthForRequest; the request loops Execute, ExecuteCount, ExecuteStream | scheduler, registry, cooldown store, refresh loop, executors |
| Model aliases (`co`, `model_alias.go`) | alias table, pool offsets | prepare a route, candidates, state keys | conductor, registry |
| Scheduler (`sc`) | per provider: snapshots, per model: entries, ready lists with cursors, blocked; mixed cursors | upsertAuth, removeAuth, rebuild, setSelector, pickSingle, pickMixed | fed by the conductor, asked by its request loops |
| Selectors (`se`), session cache (`session_cache.go`) | cursors; session to credential with a time to live | Pick; Get, Set, Invalidate, clean-up | used by the conductor when no scheduler may be |
| Model registry (`mr`) | per model: reference counts, quotas, suspensions; per client: models and provider; cached list | RegisterClient, UnregisterClient, Set/ClearModelQuotaExceeded, Suspend/ResumeClientModel, GetAvailableModels | conductor, service, model endpoints |
| Refresh loop (`auto_refresh_loop.go`) | heap of due times, dirty set, wake channel, timer, jobs | rebuild, select, applyDirty, handleDue, workers | conductor's refresh |
| Rate limiter (`internal/runtime/limiter`) | limits per credential | CheckRateLimit, UpdateLimits | usage store |
| Service (`sv`) | configuration, update queue, shutdown once | Run, Shutdown, handleAuthUpdates, applyConfigUpdate | assembles everything |
| Configuration watcher (`internal/watcher`), management saves | last configuration, hash, current credentials, pending updates | file events, debounce, reload, refreshAuthState, dispatchLoop | service |
| Handlers and stream forwarding (`sdk/api/handlers`) | per request: peek, relay goroutine, error channel, keep-alives | streaming and other answers of three dialects, bootstrap retries | the request loops |
| Responses framing and websocket (`sdk/api/handlers/openai`) | pending text, items; per session: transcript, tool call caches | frames, repaired transcripts | handlers |
| Image endpoints (`openai_images_handlers.go`) | per request: path, call goroutine, pending text | generations and edits by seven paths, streamed or collected | the request loops, registry |
| Executors (`internal/runtime/executor`) | per call: body, reporter, usage buffer | unary, stream, images, count; the Claude body; payload rules | upstream, usage queue, request log |
| Translators (`internal/translator`) | per stream: open blocks, tool calls, usage | chat, Claude and Responses in both directions | handlers, executors |
| Thinking (`internal/thinking`) | per request | translate, read, override by suffix, validate, apply | executors |
| Request log (`internal/api/middleware`, `internal/logging`) | per request: sources, channels, temp files; enabled flags | capture, streaming writer, finalize, prune | middleware, executors |
| Management API, access control, credential files, catalogue, configuration parser | single values, files, static tables | setters, lookups, loads | |

The hard behaviours: `Publish` signals outside the mutex; `MarkResult`, `Update`, `Remove`, the refresh and the
application of a configuration carry copies of a credential from one lock to the next, and so overwrite or resurrect
what others did meanwhile; the cooldown file is written only when the code believes it changed, and read back at any
restart; failures of many requests in flight arrive inside a window already open; the scheduler skips index rebuilds
and promotes expired holds lazily; the registry's list is cached and built with a clock read before the lock; a stream
passes through four goroutines with unbuffered channels while the client may leave and the bootstrap may be retried; a
reload reads its file three times; a timer must be rebuilt whenever what it waits for changes; usage limits are checked
against what is recorded later; converters see an answer in pieces that may come in any order; the shutdown closes things
other goroutines still use. `PROJECT.json` lists each of them under "hazards", at its line.

What makes each part correct: records are dispatched once, in order, and none is forgotten (queue); a dispatched record is stored
while the store is open, and the shutdown ends (service); an aggregate never hides a usable model, a hold is found again after a
crash, and the quota ladder is climbed only as fast as its windows allow (credential state); the four places agree when nothing is
in flight and no counter is lost (conductor); indexes agree with snapshots, a pick is the best free one and turns are fair
(scheduler); reference counts are exact and the cached list is the current one (registry); the client gets one whole answer or one
error, every upstream call has one result, an invalid request is not retried and no goroutine stays behind (requests); the last
configuration counts (watcher); a session keeps its credential (affinity); no credential is forgotten and no token used twice
(refresh loop); limits are overshot by what is under way only, as far as calls are checked (limiter); a call leaves one usage
record and a request one log (executors, request log); a stream tells what the answer in one piece would, and nothing of a
conversation is lost (translators, framer, websocket); a body that is sent is one the upstream accepts and the client's but for
the rules (executors, thinking).

## 2. Modules

    UsageDelivery      abstract: what is accepted is delivered once, in order, until closed
      ^ implemented by
    UsageQueue         the queue, its mutex and its condition variable       UsageProofs
      ^ extended by
    UsageService       requests, store, server, shutdown                    UsageProofs

    AuthState          the record of one credential and the functions on it
      ^ extended by
    Cooldown           its life: results, resets, reloads, updates,
                       refreshes, restarts                                  CooldownProofs

    Conductor          the calls that move such records between map, scheduler,
                       files and registry                                   ConductorProofs
    Scheduler          indexes, cursors, picks                              SchedulerProofs
    ModelRegistry      reference counts, suspensions, the cached list
      ^ extended by
    Selection          the registry beside two schedulers, with their
                       properties                                           SelectionProofs
    RefreshLoop        due times, wake-ups, workers, tokens                 RefreshLoopProofs

    Requests           the manager's loops over credentials, models and cooldowns
      ^ extended by
    StreamRelay        handler, relay, wrapping goroutines and client
                       around it                                            StreamRelayProofs

    ConfigFlow, Affinity, Limiter, ExecutorCall, RequestLog
                       one component each
      ^ composed by
    Background         the five side by side, with their properties         BackgroundProofs
    Aliases            prefixes, suffixes and aliases of model names
    ToClaude, FromClaude, ToResponses, ResponsesFramer, Transcripts, WsResponses
                       conversions of answers and conversations
    Images             the image endpoints; its framing is ResponsesFramer's
    ClaudePayload, PayloadRules, Thinking
                       what is sent upstream

`MC*.tla` instantiate them for TLC. Three of them hold several components that share nothing: `MCSelection` (registry,
picks, turns), `MCBackground` and `MCProtocols`. A variable "part" is chosen at the start and only the named component
takes steps, so that the states are the sum and not the product of the parts. `MCSelection` extends Selection, which extends
ModelRegistry, and `MCBackground` extends Background and RefreshLoop: Selection and Background declare the constants with their
assumptions, instantiate the components and state the properties that the proofs are about. A definition
beginning with "Faulty variant" in its comment is never used by a specification: it is the form a plausible bug would give
to the definition after it, and serves to show that the properties notice.

**UsageQueue** splits every function of `um` at the mutex: `Publish` is append (`PublishAppend`, or `PublishDropped` on
a closed queue) and then signal (`PublishSignal`), `Stop` is close and broadcast, `run` is waiting, waking, popping and
exiting, `dispatch` is copying the plugin list and one call per plugin. The condition variable is a set of waiters that
a signal or broadcast moves to "woken". `accepted`, `dispatched` and `handled` are histories. A plugin that panics is one
that returns: `safeInvoke` recovers.

**UsageService** adds the service's progress through Run and Shutdown, the store (unset, open, closed), the plugin's
check of the handle and its insert as two steps, requests that publish at most one record (the reporter's `sync.Once`),
and a clock for the 30 second context that Run makes when it starts. `Unnamed` are the records that `HandleUsage` leaves out because
they name no credential or no model, `Refused` those whose insert SQLite refuses, which is only logged; both end the plugin's
turn without a row. `UsesQueue`, which is proved, says that all of this takes only the queue's own steps on the queue's state.

**AuthState** has no variables: it defines a credential's availability record (times are naturals, 0 is Go's zero time)
and every function the code applies to it: `FailOn` and `SucceedOn` (the locked part of MarkResult), `Aggregate`
(updateAggregatedAvailability), the ladder, `IsHeld` (isAuthBlockedForModel), `ClearCooldown`, `ResetAll`, `Reconcile`,
`Refreshed`, `Updated` (the locked part of Update), `CooldownRecords` and `Restore`. Status texts, counters and the
fields that only feed management pages are left out. **Cooldown** makes a state machine of it, in which an action is
a whole call including the save that follows; `startup` orders the first watcher snapshot after a restart, `direct`
remembers that the credential's own fields were last set without looking at its models.

**Conductor** is about interleaving. A call is a record in `call[t]`: the credential, the locked sections still to come,
the copy it carries, and whether that copy is the very object in the manager's map (then changes made to the map show
in it, operators `Touch` and `Detach`; in Go this is an unsynchronised read, and the model lets it see any state of the
object). Each action is one locked section; `MarkResult(t, a, hold)` starts a call whose remaining sections are the
scheduler upsert, the save of all records and the registry's suspend or resume, as at `co:3260-3278`. One model per
credential and three kinds of hold are enough to see who overwrites whom. `results`, `last` and `overlapped` are
history variables. `offered` are the credentials whose snapshot in the scheduler names models: whoever upserts a snapshot reads them
in the registry at that moment (`sc:603`), so that a credential without a binding is in the scheduler but can be picked for no
model. The branch of a disabled credential and SetConfig are covered in Cooldown only.

**ModelRegistry** models every mutating method of `mr` as one action, with the pure-addition and the reconciling path of
RegisterClient told apart; `GetAvailableModels` is `ReadCache` and `Build`, because it reads the clock and the cache
before it takes the lock again. **Scheduler** keeps the entries, buckets and cursors of one model's shard per provider;
picks promote expired holds, take the highest ready priority and rotate, or walk the weighted wheel of a mixed request.
Left out there: credentials disabled by status (they are not in a snapshot set), custom selectors (which bypass it) and
the empty model name. A request pinned to a credential is a pick whose `allowed` is a singleton.

**Requests** is one request in `Execute`, `ExecuteCount` or `ExecuteStream`: it picks among the credentials not tried,
tries the upstream models of each, refreshes once after a 401, marks each outcome, waits for a cooldown that is short enough,
and starts over as often as configured. Time is abstracted to what the loops ask of a hold, whether it ends within the
longest wait. `owed` counts upstream calls without a result, `refused` remembers an invalid request. **StreamRelay** puts
the client's side around it, with one action per channel operation: the writer (peek, first chunk, forwarding, keep-alives),
the relay goroutine with its bootstrap retries, the wrapping goroutine of each upstream stream, the error channel with room for
one message, and a client that may leave in every state.

**ConfigFlow**: a configuration is the version of each credential it lists. Editors and management saves truncate and write the
file; `reload[r]` is a goroutine in `reloadConfigIfChanged` with its three reads; the watcher's difference becomes updates that
are pending, batched, queued, coalesced and applied. `reloadClients` reads the watcher's configuration again under the lock
(`Clients`), which need not be the one its goroutine loaded. Two ways into the queue are left out because nothing takes them:
`dispatchRuntimeAuthUpdate` is reached only through `emitAuthUpdate` (`sv:331`), which has no caller, and
`dispatchPersistedAuthUpdate` only through a hook that the builder hands to the management handler (`builder.go:287`), which
stores it and never calls it (`handler.go:251`). **Affinity**: keys are what `extractSessionIDs` makes of a conversation (an id,
or hashes of its first messages, shared by conversations that open alike); every operation of the cache is split where it releases
its lock. **RefreshLoop**: the loop's goroutine as a program counter over `select`, the dirty set, the due set, marking and
sending; workers and requests go through `refreshAuthForRequest` with its lock; `born` tells a credential from one registered
later under the same id. **Limiter**: check per window against the store, then the way of the record through queue and plugin.
Calls for images are not checked (`openai_compat_executor.go:88`), and a query that fails lets the call through, past the windows
that are left (`limiter.go:165`); both leave their records like the others. How many windows a call had behind it when it was let
through is kept with its record (`passed`), for the property alone. **ExecutorCall**: a call of either executor, line by line,
with reporter, usage buffer, the hand-over of chunks to a reader that may leave, and the closing of the body. **RequestLog**: the
body and attempt sources, the chunk channel with its writer, the decisions at the end of a request, and the pruning of error logs,
while the log is switched on and off. A log that is pruned stays in `logs`, marked as no longer there, so that a log keeps its
number. **Aliases**: prefix, suffix and alias of a requested name, the compiled table, pool offsets and the names under which
holds are kept, while configurations are exchanged.

The **converters** take one upstream delta or event per action and keep the converter's own state; texts are the numbers of the
deltas they come from, so that loss, repetition and order show. `Whole...` operators are the conversions of answers in one piece,
with which the streams are compared. **Transcripts** defines four translations of conversations as operators over the position of
items and enumerates conversations; **WsResponses** is a websocket session whose client sends what is new, through failures,
reconnections, compactions and repairs from the tool call caches. Left out there: a request with a previous_response_id, its
orphan outputs included, a request without input or model, which is refused, the stripping of compaction items when transcripts
are merged, and the pass-through to an upstream that speaks websocket. **ResponsesFramer** is fed tokens cut anywhere: before a
field's name, before its colon, between a line and its break; `torn` says that it took the middle of an event for a new line.
**Images** sends a request along one of the seven paths of the image handlers: bytes passed on as they come
(`forwardRawImageStream`, `ForwardStream`), a translated stream made into image events, a collection, or an answer in one piece.
The call runs beside the handler, which writes keep-alives meanwhile; the end of the data and an error can be ready together. The
path that goes through Responses is taken only by a configured model that leaves the registry between the two look-ups of one
request. **ClaudePayload** composes every rewriting of `prepareClaudeRequest` in the order of the code; **PayloadRules** applies
the rules one parameter at a time; **Thinking** takes a request, and a twin that differs in one respect, through all stages.

## 3. Runs

| Run | Question | Bounds |
|---|---|---|
| MCUsageQueue | Is a record ever lost, repeated, overtaken, or left waiting? Does a stop end the dispatcher? Is `UsageDelivery` implemented? | 2 publishers, 2 plugins, 1 name, 3 records, 2 registrations: two records queued while a third is dispatched, a plugin replaced in between |
| MCUsageService | Is every dispatched record stored once while the store is open, whatever the shutdown does, and does it end? | 3 requests, 4 records, of which one has no name and one is refused, grace 1, clock to 2 |
| MCCooldown | Does the file miss a hold, is the ladder climbed too fast? | 2 models, success/429/401, clock to 3: two windows of the ladder, failures inside an open window, and holds that outlast it |
| MCCooldownKinds | Does the aggregate hide a usable model, is the credential's own hold on file, for every kind of failure? | 2 models: success, a transient failure, a 401 and a failure without a deadline for each, so that one may be held while the other is free, or both to different times; success and all kinds of failures for the credential; clock to 2, the ladder capped at its second window |
| MCConductor | Are results counted exactly, does the registry follow the map, is a removed credential offered for no model, do the four places agree when calls did not overlap? | 1 credential, 2 request goroutines, 1 update goroutine, 1 result |
| MCSelection | Are the registry's counts exact and its cached list current? Do the scheduler's indexes say what the snapshots say, is a pick the best free credential, are turns fair? | registry: 2 clients, 2 providers, 1 model listed up to twice, 2 readers, quota window 2, clock to 4: a window opens, closes and opens again around a delayed build; picks: 2 credentials, 2 providers, 6 snapshots (two priorities, websockets, holds with and without a quota window, model not served), clock to 2; turns: 3 credentials, ready or held, round robin, clock to 1 |
| MCStreamRelay | Does the client get a whole answer or one error, is every upstream call accounted for, is an invalid request final, is nothing left behind? | 2 credentials, one with a pool of 2 models and a refresh token, one with an extra attempt; 1 bootstrap retry, 2 chunks and 1 before the first payload, Claude's peek; all kinds of calls |
| MCStreamRelayPeek | (violated) Is a stream that fails before its first payload told as an error? | the same, the chat handler's peek, no bootstrap retry |
| MCBackground | config: does the last configuration count? sessions: does a session keep its credential? limits: by how much do the calls that a limit let through overshoot it? refresh: is a credential forgotten or a token used twice? call: does a call leave one right usage record? request, failures: does a request leave one whole log, and are error logs bounded? | config: 1 credential, 1 version, 1 reloader, 2 edits, queue of 1; sessions: 2 conversations that open alike, 2 credentials, life of a binding 1; limits: 2 callers, 2 windows, 1 model, 4 calls of which one at a time goes unchecked, clock to 1; refresh: 1 credential of either kind, 1 worker, 1 request, 2 tokens, clock to 2; call: 2 lines; request: 2 chunks, 2 attempts, 2 toggles; failures: 2 requests, 1 file kept |
| MCProtocols | Do streams tell what the answer in one piece would, are conversations and transcripts whole, is the body that is sent accepted and as the rules say, are thinking settings valid and monotonous, do aliases serve what they list? | 3 deltas of 2 tool calls; 8 Claude events; 5 items with 2 calls, one freeform; 5 streams of up to 4 events cut anywhere; images: every path, 3 streams of up to 3 events cut anywhere, 1 keep-alive; websocket with 6 items, cache of 2 calls, 1 failure; Claude bodies of 4 blocks, 1-2 marks allowed; 13 kinds of models; 3 rules out of 7, a body the executor has changed or not; 3 alias lists, 3 requests, 1 reload |
| MCProtocolsAdjacency | (violated) Does a tool result follow its call with nothing in between? | conversations of 5 items |

Why the bounds are enough: each is the least at which every branch of the modelled code is taken and the hazard it is
meant for occurs; each property is violated, within these bounds, by a faulty variant of the code ("mutants" in
`PROJECT.json`). Names are interchangeable and the code compares them only for equality, except credential IDs in the
scheduler, which are numbers because lists are sorted by ID. The limit of Claude's breakpoints is 4 in the code and at most
2 here, as bodies of 4 blocks would never exceed it. Symmetry is used only in runs without temporal
properties. Deadlock is not checked where an instance ends: a queue that has been stopped, a process that has exited, a request
that has been answered, and a part of MCBackground or MCProtocols that has used up its bounds do stop.

In `MCSelection` a state constraint leaves the part "turns" to round robin, with the third credential at the first provider: fill
first takes no turns, and the other distributions differ in names only.

### Fairness

`UsageQueue!Fairness` is weak fairness of each goroutine that has something to do: the dispatcher (which the Go runtime schedules),
a publisher that has appended and still has to signal, a stopper that has closed and still has to broadcast. Nothing obliges anyone
to publish or to stop. `UsageService!ShutdownFairness` is weak fairness of the clock and of the main goroutine once it has been told
to stop; requests and the dispatcher are given none, as an upstream may hang. `ConfigFlow!Fairness` is that of a save that has
begun, of the debounce timer, of every reloading goroutine, of the dispatcher and of the service's consumer; nobody has to edit.
`StreamRelay!Fairness` is that of the manager's loop (an upstream answers or fails in the end, as the transport's timeouts and the
request's context see to), of the relay, the writer, the wrapping goroutines' ends, the ticker, and the end of a context that was
cancelled; a client need not leave, and an upstream need not send another chunk.

### What the violated runs show

* `MCStreamRelayPeek`: when the upstream fails before its first payload, the error and the closed data channel are ready together,
  and Go's `select` may take the closed channel first: the chat client gets status 200 and an empty stream.
* `MCProtocolsAdjacency`: with another item between two parallel calls, a Responses request becomes two assistant messages
  before either result, although the code's comment wants calls and results adjacent.

### Seen while modelling

Not the subject of a run, but reachable in the models, or met while reading. Some are stated as definitions that no run repeats
(`GraceIsGranted`, `StartupKeepsHolds`, `HoldsSurviveUpdate`, `NothingForgotten`, `FileComesIntoForce`, `LimitsInForce`,
`EveryFreeMemberServes`, `EveryAnswerIsRecorded`, `StreamIsLogged`, `RemovedStaysOut`): TLC finds each violated in the instance of
its module.

*Credentials.* The 30 second context for the shutdown is made at start (`sv:988`), so a service that has run longer stops its
server with an expired one. Whoever upserts a credential after its removal, a late `MarkResult` or a rebuild that listed the
credentials before, leaves its snapshot in the scheduler until the next rebuild (`co:3262`); as it has no models by then, only a
request that names no model could pick it. After a restart the watcher's first snapshot resets the states just restored from the
files. A refresh writes back the copy it made before calling upstream. Two results may reach the scheduler in the other order. An
unsupported model is held for 12 hours even when cooling is disabled (`co:3156`). A credential whose quota window outlasts its
hold stays blocked in the scheduler, although a selector would use it. The registry subtracts a client twice when it is out of
quota and suspended (`mr:874`), and subtracts clients suspended for a model they are not bound to (`mr:729`). A success that was
under way when the credential was found unauthorized wipes that out without telling the refresh loop (`co:3128`), which then
forgets it. `Stop` of the queue does not wait for the dispatcher, so records still queued when the store closes are lost
(`sv:1143`).

*Configuration.* The third read of a reload remembers the hash of a file that was not the one loaded, so an edit between the reads
is never loaded (`config_reload.go`). A queued removal applied after the limits of a new configuration were set deletes them
(`sv:530`). `emitAuthUpdate` (`sv:331`), which would apply an update on the caller's goroutine when the queue is full, has no
caller. A management save may be lost when an older reload replaces the handler's configuration after it.

*Requests.* After a bootstrap refresh the second read has no check of the context, so a client's leaving is marked as the
credential's failure. Credentials of a pool whose models are all held are picked and skipped, and the shortest wait does not see
their holds. The converter goroutine of the completions endpoint lets an error overtake the last converted chunk. The session
cache's `Get` may delete a binding set after it looked (`session_cache.go:52`).

*Aliases.* When a pool's alias is also a member's name, that member's hold blocks the credential although other members are free,
against the comment at `co:1102`; and for a prefixed route the selector is given no model (`co:1232`), so that it takes the
credential for unavailable while each member tried so far is held, and a member never tried does not serve. A model that is one
entry's alias and an earlier entry's name resolves differently in the table and in the list. Registering models drops holds kept
under upstream names. A hold under `x(high)` is not seen by `x`, and a clean state of `x(high)` hides one. Between storing a
configuration and registering its models a listed alias goes upstream verbatim.

*Executors.* Claude publishes the first usage line of a stream and none without one, although `EnsurePublished` is there to ensure
a record. A failure after usage keeps the success record (Claude) or loses the usage (compatible). Image calls skip the limiter,
and so do calls whose query fails. `extractToolResultImages` drops a result's cache_control, against its comment. Within one rule
Go's map order decides among overlapping parameters; a default above a nested default overwrites it. When max_tokens is below a
model's minimum, `normalizeClaudeBudget` leaves budget ≥ max_tokens. A compatible model that supports only budgets ignores the
suffix of the model's name. An unknown suffix counts as one without settings, so that the body's pass unvalidated.

*Conversions.* Chat to Responses tells text after a tool call under the message item it already ended, and lists empty arguments as
"" where the done event says "{}". Usage repeated after message_stop emits a second message_delta; a bare `[DONE]` emits
message_stop alone. Unary conversions trust the upstream's finish reason, streams the calls. Responses to Claude drops freeform
calls, and a late result flushes all pending calls. In a websocket session a turn that failed with a status outside the release list
stays in the transcript, so that a retry repeats its input; of more than 256 calls a late-answered one may be lost; without a
session key nothing is repaired. The framer inserts a line break before a chunk that begins, in the middle of an event, with "data:",
"event:", "id:", "retry:" or just ":", such as the colon after a key of the JSON, and the event is lost. Only an upstream that is
cut by bytes could do that; the executors of this repository hand over whole events.

*Images.* The compatible executor reads an image stream in pieces of 32 KB (`openai_compat_executor.go:565`), and the handlers write
keep-alives between pieces: one that falls into an event breaks its JSON, and an error told there cannot be read either. After the
first chunk `forwardRawImageStream` and `forwardImagesStream` end silently when they find the closed data channel before a pending
error, and a stream through Responses that ends without its completion ends with no error, where a collection says "stream
disconnected before completion". The peeks do as the chat handler's. A JSON edit without an image is refused on two of four paths.

*Logs.* A Claude stream that fails gets its streaming writer only then, and the part of the response before it is lost from the log.
Switching the log off while a stream's writer is open leaks its goroutine and temporary file. `Finalize` is not deferred, so a panic
leaks the sources.

## 4. Proofs

TLAPS checks the theorems of eight modules, for every value of the constants. Assumptions are those the modules declare:
`MaxRecords`, `MaxPlugins`, `MaxResults` and `BootstrapRetries` are naturals, the persistence plugin is a plugin, a credential has
finitely many models, the durations of its holds are positive, the clock can tick, and the marks `Absent` and `Idle` are neither a
credential nor a call. Background assumes that a configuration lists finitely many credentials (`ConfigSound`), that credentials
are numbered from one and a binding lives for a natural number of ticks (`AffinitySound`), and that callers are finitely many and
windows, details and prices are counts, with no limit of nothing, which the code takes for none (`LimitsSound`), and that some
error logs may be kept, as the code prunes nothing when told to keep none (`LogSound`). Some theorems have a hypothesis, which
their statements name:

* `Configured` (RefreshLoopProofs): intervals, leads, lives and backoffs are naturals.
* `LadderOnly` (CooldownProofs): no result sets a window of its own; see below.
* `OneUpdater` (ConductorProofs): one goroutine applies configurations. That is how the service works: the watcher's updates
  go through a queue to `consumeAuthUpdates` (`sv:307`), the configured credentials are registered before the watcher starts
  (`sv:1003`), and a hook that applies directly does so only without a watcher (`builder.go:290`).
* `SchedulerSound` (Scheduler): credentials are finitely many and numbered, times are naturals and priorities integers, and a mixed
  request names each provider at least once. Selection assumes it of its scheduler (`PicksSound`).
* `TurnsSound` (Scheduler): besides, a mixed request names each provider once, as `normalizeProviderKeys` sees to
  (`scheduler.go:517`), and the mark of no provider and the kind of a mixed rotation are not providers. Selection assumes it
  (`RotationSound`).
* `NoneIsNothing` (SchedulerProofs): the mark of no shard is neither a shard nor a function. It quantifies over everything, so TLC
  cannot evaluate it.
* `Sound` (SelectionProofs): there are finitely many clients, each lists a model a finite number of times, the quota window is a
  natural, and the mark of an absent registration is neither a registration nor a provider.

Otherwise sets of goroutines, plugins, credentials, models and clients may be empty and of any size, and may share elements.

**UsageProofs.** Of the queue, `TypeOK` is inductive as it stands, because it says of the worker what its control state means: it
holds plugins still to call exactly while it dispatches, and a record has been popped by then. On top of it:

* `RecordsConserved`: `Conservation` speaks only of accepted, queued and dispatched records; only `PublishAppend` and
  `WorkerPop` touch them, and each moves one record across.
* `NoWakeupLost`: a waiting worker with work has a signal or broadcast coming. The worker falls asleep only on an empty, open
  queue; who changes that sets its own pending wake-up in the same step; and a wake-up leaves nobody asleep.
* `ExitIsDrained`, `ClosedForGood`: a closed queue accepts nothing, so the queue that was empty at the exit stays so.
* `PluginsInOrder`: the record in hand is the last one popped, whose number `Conservation` gives, and no plugin is ahead of it.
* `RefinesDelivery`: append, pop and the first close are `Accept`, `Deliver` and `Close`; all other steps stutter.
  `Conservation` shows that the record popped is the next one due and has been accepted.

Of the service, `ServiceUsesQueue` (which states `UsesQueue`) shows that every step of the service is one of the queue or leaves
it alone. It needs `PhaseInv`: the only plugin registered is the persistence plugin, plugin lists are empty or hold just it, and
nothing is accepted before the service runs. So all that is proved of the queue holds of the service. `RowsInOrder` follows from
`RowsInv` (every row is older than the record in hand, and rows increase), and `RecordsAreDurable` from it and from the order in
which the shutdown closes the store; it exempts the records without a name and those SQLite refused, whichever they are.

**CooldownProofs.** The provers know neither a minimum, nor a maximum, nor a power of two: the first lemmas give them
(a finite set is bounded; 2^n is the number of subsets of n things, a fact of the library). Then each function of AuthState gets a
lemma that says what it makes of a record (`Aggregated`, `Restored`), and each action one on top of it. The properties are not
inductive, for these reasons:

* `AggregateSound` looks at a credential that is unavailable, but a refused refresh makes one unavailable without a look at its
  deadline. `DeadlineInv` says the same of every deadline ahead, whether it counts or not.
* `HoldsAreOnFile` compares what is held with a record that is restored. `FileInv` says where that comes from: no two records speak
  of one model, the record of a model that is held is its state, and without cooling only models that are unsupported are held.
* `OwnHoldIsOnFile` needs the same of the credential's own deadline: `OwnInv`, again whether it counts or not, and
  only while no model is unsupported, since what is held without cooling is not on file.
* `LadderTakesTime` needs the ladder of the records on file as well (`LadderInv`), because a reload takes them over. It is
  proved where no result sets a window of its own (`LadderOnly`): a Retry-After may replace an open window by a shorter
  one, and a Cloudflare challenge climbs a level even inside an open window. MCCooldown has only failures of that kind.

**ConductorProofs.** `TypeOK` and `CountsKept` are proved as one invariant, since neither is inductive alone: the bound on
the ghost count of results follows from the bound on the counter in the map, which equals it by `CountsKept`. `TypeOK` has to
describe calls well enough for their sections to make sense: a call in progress has a section to pass (`Calls`), and a token
refresh carries a credential when the provider answers, which holds because it is a call of its own form,
the single section "refresh". Lemmas say of `Continue`, `Advance`, `NewCall`, `Touch`, `Detach` and `Marked` that they
stay within that form; one lemma per action that writes the map follows, and `ResultsCounted` is the conclusion that
however copies travel, no result is lost from the counters.

`RegistryAndMapAgree` compares map and registry while requests, resets and refreshes go on. Only the sections "put", "register"
and "delete" and the beginning of a removal change which credentials either has. `CallInv` says that a call of a request goroutine
has none of these ahead (it is `Calm`), and that an updater's call is calm too or has one of four forms, what may be left of a
removal and of an addition. `RegistryInv` adds that a credential no uncalm call is about is in both or in neither, and for each
form what is true meanwhile: before "register" the map may have what the registry has not yet, and "delete" is ahead of a removal
that has left the registry. "put" is delicate: an `Update` does nothing when the credential has gone, and only because nobody else
removes it does the registration that follows find it.

`RemovedCredentialIsNotOffered` lets requests, refreshes and rebuilds come between any two sections of a removal. Its `OfferInv` says
that what the map does not have is offered only while the updater still has the delete or the removal from the scheduler ahead of it
(`Leaving`): the registry has lost the models before the map loses the credential, which `RegistryInv` knows, so an upsert
or a rebuild after that finds none. It needs `OneUpdater` as `RegistryAndMapAgree` does.

`CallsInTurnAgree` is about all four places, with any number of goroutines, as long as no two calls overlapped. Between calls
everything is `Settled`. During the one call in progress, `SerialInv` says of its sections ahead that they are in the order of the
code and none comes twice (`Ordered`, `Once`), that whatever is not settled is in the hands of one of them (`Repairs`: a scheduler
behind the map needs an "upsert", a hold not on file a "save", ...), and that what the call carries to them is what the map has
(`Carries`: the copy, the records collected, the whole map for a rebuild). A step takes the first section off and shows that what it
was to repair is repaired. The history that matters is one fact, `HoldsCounted`: a held credential has had a result, without which
`Merge` would drop its hold.

**RefreshLoopProofs.** The arithmetic is in `NextCheckType`: `nextRefreshCheckAt` gives a time exactly for what `Schedulable`
describes, and one that is due now is one that `shouldRefresh` agrees with. `TimerRight` rests on `TimerInv`, that the timer was set
to the earliest entry and the heap only changes while the loop is awake. `TokensFollow` rests on `LockInv`: who is refreshing holds
the credential's lock alone, and `born` is at most the count of events, so that a refresh begun for a removed credential is never
taken for one of its successor. `NoneForgotten` rests on `HandInv`: whatever is schedulable is queued, dirty with a wake-up to come,
or on its way through the loop, the jobs and the workers, unless a success wiped out a refusal. `RefreshSound` is the three
together.

**StreamRelayProofs.** Three inductive invariants over the loop of Requests, the relay, the wrapping goroutines, the writer and the
client:

* `RefusalIsFinal` needs to know where a refusal is between the upstream and whoever decides about another try: `FinalInv` follows
  it through the loop, the stream that the manager returns for an error, the relay's pending chunks and the report that follows,
  and says that whoever holds it is in a state from which no attempt follows. `PhaseInv` says that the loop runs only while
  somebody waits for it.
* `ResultsAreAccounted` counts attempts against results. `OpenInv` says that at most one call is without one and whose it is: the
  loop's, or that of the one stream the relay reads. Most of the proof shows that the relay never puts a stream down without its
  result; the context (`ContextInv`) may be cancelled only when the client left or the relay has nothing more to read.
* `AnswersAreWhole` follows what has been sent: the chunks written are those taken from the channel, in order, of one stream
  (`StreamOut`), or blanks and one answer or error (`PlainOut`); the numbers of chunks read, waiting and written agree along the
  way, and once the relay is closing there is an error to tell or the stream is complete (`CountInv`); so a terminator is written
  only after all of it (`DoneInv`).

**SchedulerProofs.** `IndexesFollowSnapshots` states the scheduler's `IndexesConsistent`. `IndexInv` relates three things: the
snapshots, the entries made of them, and the ready lists, cursors and blocked list made of the entries. `upsertEntryLocked` does not
rebuild the indexes when the new entry has the old one's state, retry time, priority and websocket flag; the lemma about it shows
that these are all that the indexes read. A credential that changes provider has to leave one shard before it enters the other, and
a pick may move a cursor but no list.

`PicksAreBest` states `PickIsBest`. A pick trusts the indexes, so its invariant `PicksInv` adds to `IndexInv` what they say about
time: an entry was made at a time not ahead of the clock, its hold was over then if it is ready and not if it is blocked, and a
blocked one is looked at again at the end of its hold or of its quota window (`ShardInv`); and cursors are naturals, whatever the
list has become since. `FreeIsReady` concludes that in a shard brought up to date a ready credential is free and one that is
surely free is ready. The rest is that the search finds what is there: a sorted list has the members of its set, each at its rank
(`SortedHas`), a circle that starts anywhere reaches every place (`CircleCovers`), the wheel of a mixed request gives every slot
to somebody (`SegmentFacts`, `StartFinds`), and from there on some provider that may serve is found (`NextFinds`). So that these
are facts about finite sets, the model sorts by rank and takes the start of a provider's segment for the number of slots before
it.

`TurnsAreFair` states `FairTurns`. Its invariant `TurnInv` says what the history of picks is: the last places of a circle, next to
one another, that ends where the cursor is (`Walks`), so no place comes twice. Within a provider the circle is the list of the
best priority (`SingleTurn`). Over several it is the wheel of a mixed request, `Wheel`: every slot of a provider's segment has the
credential that the provider's own cursor will be at when the wheel gets there (`Seat`). A pick advances both cursors and leaves
the wheel as it is (`WheelMoves`), a full round ends where it started (`WheelRound`), no credential has two seats (`WheelIs`: a
credential has one provider, a list no repetitions, and the places of a segment are less than a round apart), and a shard that is
rebuilt with the same lists keeps each cursor up to whole rounds (`RebuiltKept`, `WheelSame`). It is here that the segments have
to be as long as the lists: with any other weights the two rotations would drift apart.

**SelectionProofs.** `IndexesAreCurrent`, `PickedIsBest` and `TurnsAreTaken` take the theorems above to the scheduler that
MCSelection checks. A model's references are the pairs of a client and a position in its list (`Bindings`), so that sums are
cardinalities of finite sets and need no induction. `ExactInv` says that each registration counts exactly these, in all and
through each provider. `RegisterClient` has three ways: a new client adds, a known one adds what it lists more, or removes and
adds what differs and moves the overlap to the other provider; `TakenOver` says of a registration that its counts follow when the
client's pairs are replaced, and lemmas show it of each of the three, model by model. `CacheInv` says of a cached list that it was
built from the registrations as they still are, at a time not ahead of the clock: every action that changes a registration drops
the cache. `ListIsCurrent` follows because the list's expiry is the earliest end of a window it took into account, so until then
every window is on the side it was on.

**BackgroundProofs.** Five components, five inductive invariants:

* `OvershootIsBounded`: a check looks only at what is recorded. `LimitsInv` counts for every window and every time it may end at
  what is recorded, the calls under way that may still add to it (`InFlight`: those admitted, and those that have passed its check
  or still would) and the records on their way (`Coming`), each as the largest usage there is. Only calls that had the window
  behind them count (`LimitCalls`, `UsagePast`): an unchecked call or one whose query failed is not among them, and what it uses
  can only make the check stricter. The sum stays below `Ceiling`, because a call joins only while the window is below its limit
  and at most `LimitCallers` and `QueueBound` of them are under way; a call that ends hands its place to its record, and a record
  to its row. As time goes on the window that ends now takes over from the one before. A usage is the cardinality of a set of
  units (`Units`), so that adding a row is a union of disjoint sets.
* `CallsAreRecorded`: `CallInv` says where a failure is announced before it is told (`Announced`), that the buffer has the last
  tokens and a tier if one was told (`BufferTells`), and that a stream under way has no successful record (`StreamHolds`). The
  first to publish wins; the lemmas follow each place that publishes.
* `LastWordsCount`: `Follows` says that pending changes, batch, queue and what the consumer holds lead, one after the other, from the
  credentials in use to those the watcher knows, or do so with the differences that one refresh still has to enqueue. `Word` is the
  last change of a credential in a sequence; the lemmas say what merging, replacing and coalescing do to it. Merging is a fold;
  its proof goes through the function of its intermediate results, each of which follows from the one before.
* `SessionsStick`: `SessionSticks` is about a request that is picked and the history of its conversation. `Settled` says of a
  conversation that the history is sure of: some key leads to its credential for long enough, and a request that is in the selector
  is on its way there, under each of the four ways the keys may be bound. `InSelector` says what a request has seen that nothing has
  stirred since, and `Fresh` that keys of a second turn are not bound before it.
* `LogsAreComplete`: `LogInv` follows what a response says through the two channels into the file: each queue is increasing and
  what is ahead is smaller than what comes after (`InLine`), however much a full channel dropped. `Staged` ties writer, channel
  and temporary files together, and `Steadily` says, of a request during which nothing was switched, where its attempts and its
  body are. `Written` carries that over to the log, and says that a request that failed left one even if it has been pruned since.
  For the bound, `Few` says that the error logs are few enough or that somebody who is about to prune them has listed all there
  are; `Failures` says that no listed log is newer than all that are there, so pruning, which spares the newest of its list,
  cannot empty the directory even when another pruner has a list of its own.

Only model-checked: everything that needs fairness (`StopTerminates`, `ShutdownTerminates`, `NothingLeftBehind`,
`CredentialsFollow` and the liveness half of `ImplementsDelivery`); the properties of conversions and bodies in MCProtocols, which
compare what recursive definitions make of sequences of any length and so need induction over data.

## 5. Plan

Done: what a failure does to a credential and how the four copies of it stay together, how one is picked, what is announced and
booked, the request loops and the relay to the client, configuration changes, refreshes, sessions, limits, executor calls,
conversions, bodies, and the request log. What is left, in this order:

1. An abstract credential service (a credential is usable or held until a time; picks return usable ones) that Cooldown
   implements for one credential and Scheduler for many.
2. The building of image requests, and the application's log rotation.

## 6. Not modelled

Configuration parsing and normalisation, client access control, the reading and writing of credential files, the model catalogue
and utilities have status "not_modelled": static tables, lookups and pure input and output, whose outcome is an input of the
models (a new configuration, a credential, a list of models). Partly modelled, with what is left out: executor registration and
the home mode of the conductor, which is never switched on; look-ups of the registry that only read; formats of model lists and
the building of image requests and answers; headers, signing, proxies and token counting of executors; images, files and tool
schemas in conversations; signatures, which are parsed as opaque strings; the setters, queries and log views of the management
API; the protocol switch of the listener; the application log; the request log's commercial mode, which captures nothing, and the
32 MiB at which it cuts what it captures. SQL queries and prices are data. Of the two unary conversions from chat to Claude, the
one compared with the stream is `convertOpenAINonStreamingToAnthropic`; `ConvertOpenAIResponseToClaudeNonStream` tells the text
before the reasoning. Leads of refreshes are positive, as those of `ProviderRefreshLead` are, and no credential evaluates its own
refresh: outside the tests no type of this repository implements `RefreshEvaluator`. A 500 whose body has the status UNKNOWN
counts as an invalid request for the manager and not for the handler's bootstrap; StreamRelay has it invalid for both
(`Eligible`); its properties hold either way.
