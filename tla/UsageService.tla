---------------------------- MODULE UsageService ----------------------------
(***************************************************************************)
(* The life of a usage record across the service: sdk/cliproxy/service.go  *)
(* starts the dispatcher of UsageQueue, opens the SQLite store of          *)
(* internal/usage/persist_plugin.go and registers it as a plugin, serves   *)
(* requests that publish records, and on the way down stops the HTTP       *)
(* server, closes the store and stops the dispatcher, in that order.       *)
(***************************************************************************)
EXTENDS UsageQueue

CONSTANTS
    Persist,        \* the PersistPlugin, one of Plugins
    Grace,          \* the 30 s given to Shutdown, in clock units
    MaxClock,       \* bound: clock units a behaviour lasts
    Unnamed,        \* records without a credential or without a model
    Refused         \* records whose insert SQLite refuses

ASSUME PersistAssumption == Persist \in Plugins
ASSUME ClockAssumption == MaxClock \in Nat /\ Grace \in 0..MaxClock

VARIABLES
    service,     \* progress of Service.Run and of its deferred Shutdown
    store,       \* PersistPlugin.db: not set up, open or closed
    inserting,   \* HandleUsage has passed its check of p.db
    persisted,   \* rows of the usage table, in insertion order
    handler,     \* publisher -> whether its request is being served
    clock,       \* time since Run created the context it gives to Shutdown
    signalAt     \* when the service was told to stop

serviceVars == <<service, store, inserting, persisted, handler, clock,
                 signalAt>>
allVars == <<vars, serviceVars>>

\* Run up to the select, then Shutdown step by step, then the process is gone.
ServiceStates == {"new", "started", "running", "stopping", "serverStopped",
                  "storeClosed", "returned", "exited"}

\* server.Stop has returned.
ServerGone == service \in {"serverStopped", "storeClosed", "returned", "exited"}

Alive == service # "exited"

ServiceInit ==
    /\ Init
    /\ service = "new"
    /\ store = "unset"
    /\ inserting = FALSE
    /\ persisted = <<>>
    /\ handler = [p \in Publishers |-> "idle"]
    /\ clock = 0
    /\ signalAt = 0

-----------------------------------------------------------------------------
\* Service.Run begins with usage.StartDefault; a dispatcher that is already
\* running is left alone.
RunStart ==
    /\ service = "new"
    /\ service' = "started"
    /\ EnsureStarted
    /\ UNCHANGED <<closed, queue, plugins, named, todo, publisher, stopper,
                   accepted, dispatched, handled, store, inserting, persisted,
                   handler, clock, signalAt>>

\* InitPersistStore registers the plugin once the database is open; with no
\* usage-db or after an error the service runs without a store.  Run
\* then creates the context it will give to Shutdown, and starts its timeout.
RunInitStore ==
    /\ service = "started"
    /\ service' = "running"
    /\ \/ /\ Register(Persist)
          /\ store' = "open"
       \/ /\ UNCHANGED <<vars, store>>
    /\ UNCHANGED <<inserting, persisted, handler, clock, signalAt>>

\* Time passes.
Tick ==
    /\ service \notin {"new", "started", "exited"}
    /\ clock < MaxClock
    /\ clock' = clock + 1
    /\ UNCHANGED <<vars, service, store, inserting, persisted, handler,
                   signalAt>>

\* The context of Run is cancelled, or the server failed: the deferred
\* Shutdown closes the listeners and waits for the handlers.
RunStopping ==
    /\ service = "running"
    /\ service' = "stopping"
    /\ signalAt' = clock
    /\ UNCHANGED <<vars, store, inserting, persisted, handler, clock>>

\* Faulty variant: the server is stopped with a context that never expires.
ShutdownServerPatient ==
    /\ service = "stopping"
    /\ \A p \in Publishers : handler[p] = "idle"
    /\ service' = "serverStopped"
    /\ UNCHANGED <<vars, store, inserting, persisted, handler, clock, signalAt>>

\* server.Stop returns when no handler is active, or when its context expires.
ShutdownServer ==
    /\ service = "stopping"
    /\ (\A p \in Publishers : handler[p] = "idle") \/ clock >= Grace
    /\ service' = "serverStopped"
    /\ UNCHANGED <<vars, store, inserting, persisted, handler, clock, signalAt>>

\* ClosePersistStore closes the statement and the database.
ShutdownStore ==
    /\ service = "serverStopped"
    /\ service' = "storeClosed"
    /\ store' = IF store = "open" THEN "closed" ELSE store
    /\ UNCHANGED <<vars, inserting, persisted, handler, clock, signalAt>>

\* usage.StopDefault returns without waiting for the worker.
ShutdownUsage ==
    /\ service = "storeClosed"
    /\ \/ StopClose /\ UNCHANGED service
       \/ StopBroadcast /\ service' = "returned"
    /\ UNCHANGED <<store, inserting, persisted, handler, clock, signalAt>>

\* Run has returned to main: the process ends with its goroutines.
ProcessExit ==
    /\ service = "returned"
    /\ service' = "exited"
    /\ UNCHANGED <<vars, store, inserting, persisted, handler, clock, signalAt>>

-----------------------------------------------------------------------------
\* The server accepts a request while it is serving.
RequestBegin(p) ==
    /\ service = "running"
    /\ handler[p] = "idle"
    /\ handler' = [handler EXCEPT ![p] = "active"]
    /\ UNCHANGED <<vars, service, store, inserting, persisted, clock,
                   signalAt>>

\* The request publishes its one usage record ...
RequestPublish(p) ==
    /\ Alive
    /\ handler[p] = "active"
    /\ \/ PublishAppend(p) /\ UNCHANGED handler
       \/ PublishDropped(p) /\ handler' = [handler EXCEPT ![p] = "idle"]
    /\ UNCHANGED <<service, store, inserting, persisted, clock, signalAt>>

\* ... and completes after it has signalled the worker.
RequestEnd(p) ==
    /\ Alive
    /\ PublishSignal(p)
    /\ handler' = [handler EXCEPT ![p] = "idle"]
    /\ UNCHANGED <<service, store, inserting, persisted, clock, signalAt>>

-----------------------------------------------------------------------------
PersistTurn == worker = "dispatch" /\ Head(todo) = Persist

\* HandleUsage reads p.db without the plugin's mutex: with no database, or for
\* a record that names no credential or no model, it returns, and the dispatch
\* goes on.
PersistEnter ==
    /\ Alive
    /\ PersistTurn
    /\ ~inserting
    /\ \/ /\ store = "open" /\ Current \notin Unnamed
          /\ inserting' = TRUE
          /\ UNCHANGED vars
       \/ /\ store # "open" \/ Current \in Unnamed
          /\ WorkerInvoke
          /\ UNCHANGED inserting
    /\ UNCHANGED <<service, store, persisted, handler, clock, signalAt>>

\* The insert ends with its rows, or without any.
Inserted(rows) ==
    /\ Alive
    /\ inserting
    /\ inserting' = FALSE
    /\ WorkerInvoke
    /\ persisted' = persisted \o rows
    /\ UNCHANGED <<service, store, handler, clock, signalAt>>
InsertSucceeds == store = "open" /\ Current \notin Refused

\* Faulty variant: the insert is retried without looking whether it ran.
PersistInsertTwice ==
    Inserted(IF InsertSucceeds THEN <<Current, Current>> ELSE <<>>)

\* Faulty variant: the insert is given up once the service is stopping.
PersistInsertImpatient ==
    Inserted(IF InsertSucceeds /\ service = "running" THEN <<Current>> ELSE <<>>)

\* The insert runs under the mutex.  If Close came in between, the statement
\* is nil and the call panics; safeInvoke recovers and the record is lost, as
\* it is when SQLite refuses the insert, which is only logged.
PersistInsert ==
    Inserted(IF InsertSucceeds THEN <<Current>> ELSE <<>>)

OtherWorkerStep ==
    /\ Alive
    /\ ~PersistTurn
    /\ Worker
    /\ UNCHANGED serviceVars

-----------------------------------------------------------------------------
Service == RunStart \/ RunInitStore \/ RunStopping \/ ShutdownServer
              \/ ShutdownStore \/ ShutdownUsage \/ ProcessExit
WorkerThread == PersistEnter \/ PersistInsert \/ OtherWorkerStep
Request(p) == RequestBegin(p) \/ RequestPublish(p) \/ RequestEnd(p)

ServiceNext ==
    \/ Service
    \/ Tick
    \/ \E p \in Publishers : Request(p)
    \/ WorkerThread

ServiceSpec == ServiceInit /\ [][ServiceNext]_allVars

\* The main goroutine runs on once it has been told to stop, and time passes;
\* nothing is assumed of the requests or of the worker.
ShutdownFairness ==
    /\ WF_allVars(Tick)
    /\ WF_allVars(ShutdownServer \/ ShutdownStore \/ ShutdownUsage \/ ProcessExit)

FairServiceSpec == ServiceSpec /\ ShutdownFairness

-----------------------------------------------------------------------------
\* Each accepted record has at most one row, and rows are in acceptance order.
PersistedOnceInOrder ==
    \A i \in 1..Len(persisted) :
        /\ persisted[i] <= accepted
        /\ i > 1 => persisted[i - 1] < persisted[i]

\* Until Shutdown closes the store, every record whose dispatch has ended has
\* its row, unless it cannot have one or SQLite refused it: a request that
\* races the shutdown loses nothing by being late, as long as the worker gets
\* to it first.
DurableWhileOpen ==
    store = "open" =>
        \A r \in 1..Len(dispatched) \ (Unnamed \cup Refused) :
            \/ \E i \in 1..Len(persisted) : persisted[i] = r
            \/ r = Len(dispatched) /\ worker \in {"popped", "dispatch"}

\* Shutdown comes to an end whatever requests and worker are doing.
ShutdownTerminates == (service = "stopping") ~> (service = "exited")

\* The service takes none but the dispatcher's own steps on the dispatcher's
\* state: a store that is closed, or a plugin that panics, leaves it intact.
UsesQueue == Spec

\* server.go says of Stop that it "gracefully shuts down the API server
\* without interrupting any active connections": a stop that leaves a request
\* behind must at least have waited for the allowance, counted from the signal.
\* It does not hold (no run of the project repeats it): service.go:988 makes the
\* shutdown context, and starts its 30 s, when the service starts.
GraceIsGranted ==
    ServerGone /\ (\E p \in Publishers : handler[p] = "active") =>
        clock >= signalAt + Grace
=============================================================================
