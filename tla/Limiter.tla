-------------------------------- MODULE Limiter --------------------------------
(***************************************************************************)
(* Usage limits of one credential (runtime/limiter): an executor checks    *)
(* the recorded usage before it calls the provider; what a request used is *)
(* known when it ends, travels through the usage queue, and is recorded    *)
(* with the time of the request (usage/persist_plugin.go).  Calls for      *)
(* images are not checked, and a query that fails lets a call pass the     *)
(* windows that are left; what such calls use is recorded all the same.    *)
(***************************************************************************)
EXTENDS Integers, Sequences, FiniteSets, FiniteSetsExt

CONSTANTS
    Callers,     \* executor calls that may be under way at once
    Models,
    Windows,     \* the configuration: a sequence of records with the length of
                 \* the window, its models ({} for all), a measure and its limit
    Details,     \* token counts a request may report
    Prices,      \* prices a model may have
    QueueBound,  \* bound: records in the usage queue
    MaxCalls, MaxHour  \* bounds

VARIABLES
    hour,    \* the time
    call,    \* call[c]: an executor call, and the window it looks at next
    queue,   \* usage records on their way
    store,   \* the usage table (a record and a row also say how many windows
             \* the call had behind it when it was let through)
    prices,  \* price of a model in force
    started  \* calls that passed the check, for the bound

vars == <<hour, call, queue, store, prices, started>>

Idle == [pc |-> "idle", model |-> "none", now |-> 0, i |-> 1]

Init ==
    /\ hour = 0
    /\ call = [c \in Callers |-> Idle]
    /\ queue = <<>> /\ store = <<>>
    /\ prices \in [Models -> Prices]
    /\ started = 0

-----------------------------------------------------------------------------
\* HandleUsage prices a record: cached input is part of the input, and failed
\* requests cost nothing.
Cost(r) ==
    LET plain == Max({0, r.input - r.cached}) IN
    IF r.failed THEN 0 ELSE (plain + r.cached + r.output) * prices[r.model]

Measure(r, m) ==
    CASE m = "input" -> r.input [] m = "output" -> r.output
      [] m = "cached" -> r.cached [] m = "price" -> r.cost

Covers(w, m) == w.models = {} \/ m \in w.models
InWindow(r, w, from, to) == from <= r.at /\ r.at <= to /\ Covers(w, r.model)

\* The sum of a measure over those records of a window whose calls had n
\* windows behind them, as the number of its units.
Units(s, w, from, to, n) ==
    UNION {{i} \X (1..Measure(s[i], w.measure)) :
             i \in {j \in DOMAIN s : InWindow(s[j], w, from, to) /\ n <= s[j].passed}}
UsagePast(s, w, from, to, n) == Cardinality(Units(s, w, from, to, n))

\* QueryUsageMulti: the sum over all of them.  (In nanoseconds no record has
\* the time of the query.)
Usage(s, w, from, to) == UsagePast(s, w, from, to, 0)

-----------------------------------------------------------------------------
\* Execute and ExecuteStream begin with CheckRateLimit, unless the call is one
\* for images (executeImages, executeImagesStream).
Begin(c) ==
    /\ call[c].pc = "idle" /\ started < MaxCalls
    /\ \E m \in Models, pc \in {"check", "open"} :
         call' = [call EXCEPT ![c] = [pc |-> pc, model |-> m, now |-> hour, i |-> 1]]
    /\ UNCHANGED <<hour, queue, store, prices, started>>

\* A window that covers the request's model refuses it when its limit is reached.
Refuses(c) ==
    LET w == Windows[call[c].i] IN
    /\ Covers(w, call[c].model)
    /\ Usage(store, w, call[c].now - w.length, call[c].now) >= w.limit

\* Faulty variant: the first window decides.
CheckFirstWindow(c) ==
    /\ call[c].pc = "check" /\ call[c].i <= Len(Windows)
    /\ IF Refuses(c) THEN call' = [call EXCEPT ![c] = Idle]
       ELSE call' = [call EXCEPT ![c].i = Len(Windows) + 1]
    /\ UNCHANGED <<hour, queue, store, prices, started>>

\* One window of Check.
CheckWindow(c) ==
    /\ call[c].pc = "check" /\ call[c].i <= Len(Windows)
    /\ IF Refuses(c) THEN call' = [call EXCEPT ![c] = Idle]
       ELSE call' = [call EXCEPT ![c].i = @ + 1]
    /\ UNCHANGED <<hour, queue, store, prices, started>>

\* The query fails: the call is let through, past the windows that are left.
QueryFails(c) ==
    /\ call[c].pc = "check" /\ call[c].i <= Len(Windows)
    /\ Covers(Windows[call[c].i], call[c].model)
    /\ call' = [call EXCEPT ![c].pc = "open"]
    /\ UNCHANGED <<hour, queue, store, prices, started>>

\* Within all limits, or not checked: the reporter notes the time, the provider
\* is called.
Proceed(c) ==
    /\ call[c].pc = "open" \/ (call[c].pc = "check" /\ call[c].i > Len(Windows))
    /\ started < MaxCalls
    /\ call' = [call EXCEPT ![c].pc = "run", ![c].now = hour]
    /\ started' = started + 1
    /\ UNCHANGED <<hour, queue, store, prices>>

\* The usage reporter publishes what the request used.
Finish(c) ==
    /\ call[c].pc = "run" /\ Len(queue) < QueueBound
    /\ \E d \in Details, f \in BOOLEAN :
         queue' = Append(queue, [model |-> call[c].model, at |-> call[c].now, failed |-> f,
                                 input |-> d.input, output |-> d.output, cached |-> d.cached,
                                 passed |-> call[c].i - 1])
    /\ call' = [call EXCEPT ![c] = Idle]
    /\ UNCHANGED <<hour, store, prices, started>>

\* HandleUsage, called by the usage queue; an insert that fails is only logged.
Row(r) == [model |-> r.model, at |-> r.at, input |-> r.input, output |-> r.output,
           cached |-> r.cached, cost |-> Cost(r), passed |-> r.passed]
HandleUsage ==
    /\ queue # <<>>
    /\ store' = Append(store, Row(Head(queue))) \/ UNCHANGED store
    /\ queue' = Tail(queue)
    /\ UNCHANGED <<hour, call, prices, started>>

\* wireModelPrices, when the configuration is reloaded.
WirePrices ==
    /\ \E m \in Models, p \in Prices : prices' = [prices EXCEPT ![m] = p]
    /\ UNCHANGED <<hour, call, queue, store, started>>

Tick ==
    /\ hour < MaxHour
    /\ hour' = hour + 1
    /\ UNCHANGED <<call, queue, store, prices, started>>

Next ==
    \/ \E c \in Callers : \/ Begin(c) \/ CheckWindow(c) \/ QueryFails(c)
                         \/ Proceed(c) \/ Finish(c)
    \/ HandleUsage \/ WirePrices \/ Tick

Spec == Init /\ [][Next]_vars

-----------------------------------------------------------------------------
\* The most a request can add to a measure.
Largest(m) ==
    Max({IF m = "price" THEN (Max({0, d.input - d.cached}) + d.cached + d.output) * p
         ELSE Measure([input |-> d.input, output |-> d.output, cached |-> d.cached, cost |-> 0], m)
         : d \in Details, p \in Prices})

\* A limit is checked against what is recorded, so that it can be exceeded, but
\* in no window have the calls that it let through used more than its limit and
\* what those under way, those that the queue holds, and the one that came last
\* could add.  (What the others use is not bounded; it counts against these.)
OvershootBounded ==
    \A i \in DOMAIN Windows : LET w == Windows[i] IN
      \A to \in 0..hour :
        UsagePast(store, w, to - w.length, to, i)
          <= w.limit - 1 + (Cardinality(Callers) + QueueBound) * Largest(w.measure)
=============================================================================
