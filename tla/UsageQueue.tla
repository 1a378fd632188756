----------------------------- MODULE UsageQueue -----------------------------
(***************************************************************************)
(* The usage dispatcher of sdk/cliproxy/usage/manager.go: request          *)
(* goroutines publish usage records into a queue guarded by a mutex and a  *)
(* condition variable; one worker goroutine, started on first use, pops    *)
(* records and hands each to the plugins registered at that moment.        *)
(*                                                                         *)
(* A record is named by its rank among the accepted ones, so the order of  *)
(* a queue of records is visible in the numbers it holds.                  *)
(***************************************************************************)
EXTENDS Naturals, Sequences

CONSTANTS
    Publishers,   \* goroutines that call Publish
    Plugins,      \* plugin instances that may be registered
    Names,        \* names used with RegisterNamed
    MaxRecords,   \* bound: records accepted in a behaviour
    MaxPlugins    \* bound: length of the plugin list

ASSUME MaxRecordsAssumption == MaxRecords \in Nat
ASSUME MaxPluginsAssumption == MaxPlugins \in Nat

VARIABLES
    started,      \* Manager.once has fired
    closed,       \* Manager.closed
    queue,        \* Manager.queue
    plugins,      \* Manager.plugins
    named,        \* Manager.named: name -> index into plugins
    worker,       \* control state of the run goroutine
    todo,         \* plugins of the current dispatch not yet invoked
    publisher,    \* control state of each publisher
    stopper,      \* control state of the one effective Stop call
    accepted,     \* number of records Publish has queued
    dispatched,   \* the records popped, in the order they were popped
    handled       \* plugin -> records its HandleUsage was called with

vars == <<started, closed, queue, plugins, named, worker, todo, publisher,
          stopper, accepted, dispatched, handled>>

WorkerStates == {"none", "check", "wait", "popped", "dispatch", "exited"}
PublisherStates == {"idle", "signal"}
StopperStates == {"idle", "broadcast", "done"}

\* The record the worker holds while it dispatches.
Current == dispatched[Len(dispatched)]

Init ==
    /\ started = FALSE
    /\ closed = FALSE
    /\ queue = <<>>
    /\ plugins = <<>>
    /\ named = [n \in {} |-> 0]
    /\ worker = "none"
    /\ todo = <<>>
    /\ publisher = [p \in Publishers |-> "idle"]
    /\ stopper = "idle"
    /\ accepted = 0
    /\ dispatched = <<>>
    /\ handled = [pl \in Plugins |-> <<>>]

-----------------------------------------------------------------------------
\* Start launches the worker the first time it is called, and only then.
Start ==
    /\ ~started
    /\ started' = TRUE
    /\ worker' = "check"
    /\ UNCHANGED <<closed, queue, plugins, named, todo, publisher, stopper,
                   accepted, dispatched, handled>>

\* once.Do as it is called from inside another operation.
EnsureStarted ==
    /\ started' = TRUE
    /\ worker' = IF started THEN worker ELSE "check"

\* The mutex-protected part of Publish: a closed manager drops the record.
PublishDropped(p) ==
    /\ publisher[p] = "idle"
    /\ closed
    /\ EnsureStarted
    /\ UNCHANGED <<closed, queue, plugins, named, todo, publisher, stopper,
                   accepted, dispatched, handled>>

\* Faulty variant: the closed flag is not consulted before queueing.
PublishAppendUnchecked(p) ==
    /\ publisher[p] = "idle"
    /\ accepted < MaxRecords
    /\ EnsureStarted
    /\ accepted' = accepted + 1
    /\ queue' = Append(queue, accepted + 1)
    /\ publisher' = [publisher EXCEPT ![p] = "signal"]
    /\ UNCHANGED <<closed, plugins, named, todo, stopper, dispatched, handled>>

\* Faulty variant: the queue is used as a stack.
PublishAppendFront(p) ==
    /\ ~closed
    /\ publisher[p] = "idle"
    /\ accepted < MaxRecords
    /\ EnsureStarted
    /\ accepted' = accepted + 1
    /\ queue' = <<accepted + 1>> \o queue
    /\ publisher' = [publisher EXCEPT ![p] = "signal"]
    /\ UNCHANGED <<closed, plugins, named, todo, stopper, dispatched, handled>>

\* Faulty variant: Publish forgets cond.Signal.
PublishAppendSilent(p) ==
    /\ ~closed
    /\ publisher[p] = "idle"
    /\ accepted < MaxRecords
    /\ EnsureStarted
    /\ accepted' = accepted + 1
    /\ queue' = Append(queue, accepted + 1)
    /\ UNCHANGED <<closed, plugins, named, todo, publisher, stopper,
                   dispatched, handled>>

\* Publish appends under the mutex and signals after it has unlocked.
PublishAppend(p) ==
    /\ ~closed
    /\ publisher[p] = "idle"
    /\ accepted < MaxRecords
    /\ EnsureStarted
    /\ accepted' = accepted + 1
    /\ queue' = Append(queue, accepted + 1)
    /\ publisher' = [publisher EXCEPT ![p] = "signal"]
    /\ UNCHANGED <<closed, plugins, named, todo, stopper, dispatched, handled>>

\* cond.Signal and cond.Broadcast wake the worker when it is waiting.
Wake == worker' = IF worker = "wait" THEN "check" ELSE worker

PublishSignal(p) ==
    /\ publisher[p] = "signal"
    /\ publisher' = [publisher EXCEPT ![p] = "idle"]
    /\ Wake
    /\ UNCHANGED <<started, closed, queue, plugins, named, todo, stopper,
                   accepted, dispatched, handled>>

\* Faulty variant: Stop closes the manager without waking the worker.
StopCloseSilent ==
    /\ stopper = "idle"
    /\ closed' = TRUE
    /\ stopper' = "done"
    /\ UNCHANGED <<started, queue, plugins, named, worker, todo, publisher,
                   accepted, dispatched, handled>>

\* Stop: stopOnce, set closed under the mutex, then broadcast.  The context
\* it cancels is not read by the worker.
StopClose ==
    /\ stopper = "idle"
    /\ closed' = TRUE
    /\ stopper' = "broadcast"
    /\ UNCHANGED <<started, queue, plugins, named, worker, todo, publisher,
                   accepted, dispatched, handled>>

StopBroadcast ==
    /\ stopper = "broadcast"
    /\ stopper' = "done"
    /\ Wake
    /\ UNCHANGED <<started, closed, queue, plugins, named, todo, publisher,
                   accepted, dispatched, handled>>

-----------------------------------------------------------------------------
\* Register appends: a plugin registered twice is in the list twice.
Register(pl) ==
    /\ Len(plugins) < MaxPlugins
    /\ plugins' = Append(plugins, pl)
    /\ UNCHANGED <<started, closed, queue, named, worker, todo, publisher,
                   stopper, accepted, dispatched, handled>>

\* RegisterNamed replaces the plugin of a known name in place.
RegisterNamed(n, pl) ==
    /\ \/ /\ n \in DOMAIN named
          /\ plugins' = [plugins EXCEPT ![named[n]] = pl]
          /\ UNCHANGED named
       \/ /\ n \notin DOMAIN named
          /\ Len(plugins) < MaxPlugins
          /\ plugins' = Append(plugins, pl)
          /\ named' = [m \in DOMAIN named \cup {n} |->
                         IF m = n THEN Len(plugins) + 1 ELSE named[m]]
    /\ UNCHANGED <<started, closed, queue, worker, todo, publisher, stopper,
                   accepted, dispatched, handled>>

-----------------------------------------------------------------------------
\* The worker holds the mutex and finds nothing to do.
WorkerWait ==
    /\ worker = "check"
    /\ queue = <<>>
    /\ ~closed
    /\ worker' = "wait"
    /\ UNCHANGED <<started, closed, queue, plugins, named, todo, publisher,
                   stopper, accepted, dispatched, handled>>

\* Faulty variant: the worker returns as soon as it sees the closed flag.
WorkerExitEager ==
    /\ worker = "check"
    /\ closed
    /\ worker' = "exited"
    /\ UNCHANGED <<started, closed, queue, plugins, named, todo, publisher,
                   stopper, accepted, dispatched, handled>>

\* The worker returns only once the queue is empty and the manager closed.
WorkerExit ==
    /\ worker = "check"
    /\ queue = <<>>
    /\ closed
    /\ worker' = "exited"
    /\ UNCHANGED <<started, closed, queue, plugins, named, todo, publisher,
                   stopper, accepted, dispatched, handled>>

\* Pop the head of the queue under the mutex.
WorkerPop ==
    /\ worker = "check"
    /\ queue # <<>>
    /\ dispatched' = Append(dispatched, Head(queue))
    /\ queue' = Tail(queue)
    /\ worker' = "popped"
    /\ UNCHANGED <<started, closed, plugins, named, todo, publisher, stopper,
                   accepted, handled>>

\* dispatch copies the plugin list under its own lock; with no plugin the
\* record is discarded.
WorkerSnapshot ==
    /\ worker = "popped"
    /\ todo' = plugins
    /\ worker' = IF plugins = <<>> THEN "check" ELSE "dispatch"
    /\ UNCHANGED <<started, closed, queue, plugins, named, publisher, stopper,
                   accepted, dispatched, handled>>

\* Faulty variant: each plugin is invoked with the head of the queue in place
\* of the record the worker popped.
WorkerInvokeRereading ==
    /\ worker = "dispatch"
    /\ handled' = [handled EXCEPT ![Head(todo)] =
                     Append(@, IF queue = <<>> THEN Current ELSE Head(queue))]
    /\ todo' = Tail(todo)
    /\ worker' = IF Len(todo) = 1 THEN "check" ELSE "dispatch"
    /\ UNCHANGED <<started, closed, queue, plugins, named, publisher, stopper,
                   accepted, dispatched>>

\* safeInvoke calls one plugin outside both locks; a plugin that panics is
\* recovered, so the loop goes on to the next plugin either way.
WorkerInvoke ==
    /\ worker = "dispatch"
    /\ handled' = [handled EXCEPT ![Head(todo)] = Append(@, Current)]
    /\ todo' = Tail(todo)
    /\ worker' = IF Len(todo) = 1 THEN "check" ELSE "dispatch"
    /\ UNCHANGED <<started, closed, queue, plugins, named, publisher, stopper,
                   accepted, dispatched>>

-----------------------------------------------------------------------------
Publish(p) == PublishDropped(p) \/ PublishAppend(p) \/ PublishSignal(p)
Stop == StopClose \/ StopBroadcast
Worker == WorkerWait \/ WorkerExit \/ WorkerPop \/ WorkerSnapshot \/ WorkerInvoke

Next ==
    \/ Start
    \/ \E p \in Publishers : Publish(p)
    \/ Stop
    \/ \E pl \in Plugins : Register(pl)
    \/ \E n \in Names, pl \in Plugins : RegisterNamed(n, pl)
    \/ Worker

Spec == Init /\ [][Next]_vars

\* A goroutine that has begun a call runs to its end: the worker keeps
\* running, a publisher that appended goes on to signal, Stop broadcasts.
Fairness ==
    /\ WF_vars(Worker)
    /\ \A p \in Publishers : WF_vars(PublishSignal(p))
    /\ WF_vars(StopBroadcast)

FairSpec == Spec /\ Fairness

-----------------------------------------------------------------------------
\* Every variable holds a value of its type, and the control state of the
\* worker agrees with the work it holds.
TypeOK ==
    /\ started \in BOOLEAN
    /\ closed \in BOOLEAN
    /\ queue \in Seq(Nat)
    /\ plugins \in Seq(Plugins)
    /\ DOMAIN named \subseteq Names
    /\ \A n \in DOMAIN named : named[n] \in 1..Len(plugins)
    /\ worker \in WorkerStates
    /\ (worker = "none") <=> ~started
    /\ todo \in Seq(Plugins)
    /\ (todo = <<>>) <=> (worker # "dispatch")
    /\ (worker \in {"popped", "dispatch"}) => dispatched # <<>>
    /\ publisher \in [Publishers -> PublisherStates]
    /\ stopper \in StopperStates
    /\ accepted \in Nat
    /\ dispatched \in Seq(Nat)
    /\ handled \in [Plugins -> Seq(Nat)]

\* No record that Publish accepted is lost, duplicated or overtaken between
\* the append in Publish and the pop in run: what was popped, followed by
\* what is queued, is exactly the accepted records in order.
Conservation ==
    /\ Len(dispatched) + Len(queue) = accepted
    /\ \A i \in 1..Len(dispatched) : dispatched[i] = i
    /\ \A i \in 1..Len(queue) : queue[i] = Len(dispatched) + i

\* No lost wakeup: a worker asleep in cond.Wait with something to do has a
\* Signal or Broadcast still on its way to it.
NoLostWakeup ==
    worker = "wait" /\ (queue # <<>> \/ closed) =>
        \/ \E p \in Publishers : publisher[p] = "signal"
        \/ stopper = "broadcast"

\* The worker goroutine ends only when nothing is left to deliver and
\* nothing more can be accepted.
ExitDrained == worker = "exited" => closed /\ queue = <<>>

\* Each plugin sees the records in the order Publish accepted them, and sees
\* none before the worker popped it, however registration interleaves with
\* dispatch.  Equal neighbours are a plugin registered more than once.
PluginOrder ==
    \A pl \in Plugins :
        \A i \in 1..Len(handled[pl]) :
            /\ handled[pl][i] <= Len(dispatched)
            /\ i > 1 => handled[pl][i - 1] <= handled[pl][i]

\* Once closed, the manager accepts nothing more.
ClosedIsFinal == [][closed => closed' /\ accepted' = accepted]_vars

\* After Stop the worker, if it ever ran, drains the queue and returns.
StopTerminates == (closed /\ started) ~> (worker = "exited")

\* What the dispatcher promises its callers, whatever goroutines do in between.
Delivery == INSTANCE UsageDelivery
    WITH open <- ~closed, accepted <- accepted, delivered <- dispatched

\* The dispatcher implements ordered, exactly-once delivery of what it
\* accepts, and delivers everything under the fairness of its goroutines.
ImplementsDelivery == Delivery!Spec
=============================================================================
