------------------------------ MODULE UsageProofs ------------------------------
(***************************************************************************)
(* Proofs about the usage records: about the dispatcher alone, for any     *)
(* number of publishers, plugins and records, and about the service around *)
(* it.  Of the dispatcher, the inductive invariant is the conjunction of   *)
(* the properties TLC checks: the type invariant ties the worker's control *)
(* state to the work it holds, Conservation needs only the queue           *)
(* operations, and NoLostWakeup speaks of the two places that sleep or     *)
(* wake.  The service takes the dispatcher's own steps, so that all of     *)
(* that holds of it as well; on top, RowsInv says what the rows of the     *)
(* store have to do with the records that were dispatched.                 *)
(***************************************************************************)
EXTENDS UsageService, SequenceTheorems, TLAPS

\* The tail of a sequence is empty exactly when one element is left, which is
\* how the worker's loop over the plugins of a dispatch ends.
LEMMA TailEmptyIffOne ==
  ASSUME NEW S, NEW s \in Seq(S), s # <<>>
  PROVE  (Tail(s) = <<>>) <=> (Len(s) = 1)
<1>1. Tail(s) \in Seq(S) /\ Len(Tail(s)) = Len(s) - 1
  BY HeadTailProperties, Zenon
<1>2. Len(s) \in Nat
  BY LenProperties
<1>3. ASSUME Tail(s) = <<>> PROVE Len(s) = 1
  <2>1. Len(Tail(s)) = 0
    BY <1>3, EmptySeq, Zenon
  <2> QED
    BY <2>1, <1>1, <1>2
<1>4. ASSUME Len(s) = 1 PROVE Tail(s) = <<>>
  <2>1. Len(Tail(s)) = 0
    BY <1>1, <1>4
  <2>2. Tail(s) # <<>> => Len(Tail(s)) \in Nat \ {0}
    BY <1>1, EmptySeq, Zenon
  <2> QED
    BY <2>1, <2>2
<1> QED
  BY <1>3, <1>4

\* Every variable keeps its type and the worker's control state agrees with
\* the dispatch it holds (manager.go, run and dispatch).
THEOREM TypeCorrect == Spec => []TypeOK
<1>1. Init => TypeOK
  <2> SUFFICES ASSUME Init PROVE TypeOK
    OBVIOUS
  <2> USE DEF Init
  <2>1. started \in BOOLEAN /\ closed \in BOOLEAN
    OBVIOUS
  <2>2. queue \in Seq(Nat) /\ plugins \in Seq(Plugins) /\ todo \in Seq(Plugins)
        /\ dispatched \in Seq(Nat) /\ accepted \in Nat
    OBVIOUS
  <2>3. DOMAIN named \subseteq Names /\ \A n \in DOMAIN named : named[n] \in 1..Len(plugins)
    OBVIOUS
  <2>4. worker \in WorkerStates /\ ((worker = "none") <=> ~started)
    BY DEF WorkerStates
  <2>5. /\ (todo = <<>>) <=> (worker # "dispatch")
        /\ (worker \in {"popped", "dispatch"}) => dispatched # <<>>
    OBVIOUS
  <2>6. publisher \in [Publishers -> PublisherStates] /\ stopper \in StopperStates
    BY DEF PublisherStates, StopperStates
  <2>7. handled \in [Plugins -> Seq(Nat)]
    OBVIOUS
  <2> QED
    BY <2>1, <2>2, <2>3, <2>4, <2>5, <2>6, <2>7 DEF TypeOK
<1>2. TypeOK /\ [Next]_vars => TypeOK'
  <2> SUFFICES ASSUME TypeOK, [Next]_vars PROVE TypeOK'
    OBVIOUS
  <2> USE DEF TypeOK, WorkerStates, PublisherStates, StopperStates
  <2>1. CASE Start
    BY <2>1 DEF Start
  <2>2. ASSUME NEW p \in Publishers, PublishDropped(p) PROVE TypeOK'
    BY <2>2 DEF PublishDropped, EnsureStarted
  <2>3. ASSUME NEW p \in Publishers, PublishAppend(p) PROVE TypeOK'
    BY <2>3 DEF PublishAppend, EnsureStarted
  <2>4. ASSUME NEW p \in Publishers, PublishSignal(p) PROVE TypeOK'
    BY <2>4 DEF PublishSignal, Wake
  <2>5. CASE StopClose
    BY <2>5 DEF StopClose
  <2>6. CASE StopBroadcast
    BY <2>6 DEF StopBroadcast, Wake
  <2>7. ASSUME NEW pl \in Plugins, Register(pl) PROVE TypeOK'
    BY <2>7 DEF Register
  <2>8. ASSUME NEW n \in Names, NEW pl \in Plugins, RegisterNamed(n, pl)
        PROVE  TypeOK'
    <3>1. CASE n \in DOMAIN named
      <4>1. plugins' = [plugins EXCEPT ![named[n]] = pl] /\ named' = named
        BY <2>8, <3>1 DEF RegisterNamed
      <4>2. plugins' \in Seq(Plugins) /\ Len(plugins') = Len(plugins)
        BY <4>1, <3>1, ExceptSeq
      <4>3. UNCHANGED <<started, closed, queue, worker, todo, publisher, stopper,
                        accepted, dispatched, handled>>
        BY <2>8 DEF RegisterNamed
      <4> QED
        BY <4>1, <4>2, <4>3
    <3>2. CASE n \notin DOMAIN named
      <4>1. /\ plugins' = Append(plugins, pl)
            /\ named' = [m \in DOMAIN named \cup {n} |->
                           IF m = n THEN Len(plugins) + 1 ELSE named[m]]
        BY <2>8, <3>2 DEF RegisterNamed
      <4>2. plugins' \in Seq(Plugins) /\ Len(plugins') = Len(plugins) + 1
        BY <4>1
      <4>3. DOMAIN named' = DOMAIN named \cup {n}
        BY <4>1
      <4>4. \A m \in DOMAIN named' : named'[m] \in 1..Len(plugins')
        BY <4>1, <4>2, <4>3
      <4> QED
        BY <2>8, <4>2, <4>3, <4>4 DEF RegisterNamed
    <3> QED
      BY <3>1, <3>2
  <2>9. CASE WorkerWait
    BY <2>9 DEF WorkerWait
  <2>10. CASE WorkerExit
    BY <2>10 DEF WorkerExit
  <2>11. CASE WorkerPop
    <3>1. Head(queue) \in Nat /\ Tail(queue) \in Seq(Nat)
      BY <2>11, HeadTailProperties DEF WorkerPop
    <3>2. dispatched' \in Seq(Nat) /\ dispatched' # <<>> /\ queue' \in Seq(Nat)
      BY <2>11, <3>1, AppendProperties DEF WorkerPop
    <3> QED
      BY <2>11, <3>2 DEF WorkerPop
  <2>12. CASE WorkerSnapshot
    BY <2>12 DEF WorkerSnapshot
  <2>13. CASE WorkerInvoke
    <3>6. todo # <<>>
      BY <2>13 DEF WorkerInvoke
    <3>1. Head(todo) \in Plugins /\ Tail(todo) \in Seq(Plugins)
          /\ ((Tail(todo) = <<>>) <=> (Len(todo) = 1))
      BY <3>6, HeadTailProperties, TailEmptyIffOne, Zenon
    <3>2. Current \in Nat
      BY <2>13, EmptySeq DEF WorkerInvoke, Current
    <3>3. handled' \in [Plugins -> Seq(Nat)]
      BY <2>13, <3>1, <3>2, AppendProperties DEF WorkerInvoke
    <3>4. (todo' = <<>>) <=> (worker' # "dispatch")
      BY <2>13, <3>1 DEF WorkerInvoke
    <3>5. worker' \in {"check", "dispatch"} /\ dispatched # <<>>
      BY <2>13 DEF WorkerInvoke
    <3> QED
      BY <2>13, <3>1, <3>3, <3>4, <3>5 DEF WorkerInvoke
  <2>14. CASE UNCHANGED vars
    BY <2>14 DEF vars
  <2> QED
    BY <2>1, <2>2, <2>3, <2>4, <2>5, <2>6, <2>7, <2>8, <2>9, <2>10, <2>11,
       <2>12, <2>13, <2>14 DEF Next, Publish, Stop, Worker
<1> QED
  BY <1>1, <1>2, PTL DEF Spec

\* What the worker popped followed by what is queued is, in order, what
\* Publish accepted: only PublishAppend and WorkerPop touch these variables.
THEOREM RecordsConserved == Spec => []Conservation
<1>1. Init => Conservation
  BY DEF Init, Conservation
<1>2. TypeOK /\ Conservation /\ [Next]_vars => Conservation'
  <2> SUFFICES ASSUME TypeOK, Conservation, [Next]_vars PROVE Conservation'
    OBVIOUS
  <2>1. CASE UNCHANGED <<accepted, queue, dispatched>>
    BY <2>1 DEF Conservation
  <2>2. ASSUME NEW p \in Publishers, PublishAppend(p) PROVE Conservation'
    <3>1. /\ queue \in Seq(Nat) /\ accepted \in Nat /\ dispatched \in Seq(Nat)
          /\ accepted' = accepted + 1 /\ dispatched' = dispatched
          /\ queue' = Append(queue, accepted + 1)
      BY <2>2 DEF PublishAppend, TypeOK
    <3>2. /\ Len(queue') = Len(queue) + 1
          /\ \A i \in 1..Len(queue) : queue'[i] = queue[i]
          /\ queue'[Len(queue) + 1] = accepted + 1
      BY <3>1
    <3>3. Len(queue) \in Nat /\ Len(dispatched) \in Nat
      BY <3>1, LenProperties
    <3>4. Len(dispatched) + Len(queue) = accepted
      BY DEF Conservation
    <3>5. ASSUME NEW i \in 1..Len(queue') PROVE queue'[i] = Len(dispatched) + i
      <4>1. CASE i \in 1..Len(queue)
        BY <3>2, <4>1 DEF Conservation
      <4>2. CASE i = Len(queue) + 1
        BY <3>2, <3>3, <3>4, <4>2
      <4> QED
        BY <3>2, <3>3, <4>1, <4>2
    <3> QED
      BY <3>1, <3>2, <3>3, <3>4, <3>5 DEF Conservation
  <2>3. CASE WorkerPop
    <3>1. /\ queue \in Seq(Nat) /\ queue # <<>> /\ dispatched \in Seq(Nat)
          /\ accepted' = accepted /\ queue' = Tail(queue)
          /\ dispatched' = Append(dispatched, Head(queue))
      BY <2>3 DEF WorkerPop, TypeOK
    <3>2. /\ Len(queue') = Len(queue) - 1
          /\ \A i \in 1..Len(queue') : queue'[i] = queue[i + 1]
          /\ Len(queue) \in Nat \ {0}
      BY <3>1, HeadTailProperties, EmptySeq
    <3>3. Head(queue) = Len(dispatched) + 1
      BY <3>1, <3>2 DEF Conservation
    <3>4. /\ Len(dispatched') = Len(dispatched) + 1
          /\ \A i \in 1..Len(dispatched) : dispatched'[i] = dispatched[i]
          /\ dispatched'[Len(dispatched) + 1] = Len(dispatched) + 1
      BY <3>1, <3>3
    <3> QED
      BY <3>1, <3>2, <3>4 DEF Conservation
  <2> QED
    BY <2>1, <2>2, <2>3 DEF Next, Publish, Stop, Worker, vars, Start,
       PublishDropped, PublishSignal, StopClose, StopBroadcast, Register,
       RegisterNamed, WorkerWait, WorkerExit, WorkerSnapshot, WorkerInvoke
<1> QED
  BY <1>1, <1>2, TypeCorrect, PTL DEF Spec

\* A worker asleep in cond.Wait with work to do, or with the manager closed,
\* has a wakeup on its way: the worker falls asleep under the mutex that
\* Publish and Stop hold when they change what it waits for.
THEOREM NoWakeupLost == Spec => []NoLostWakeup
<1>1. Init => NoLostWakeup
  BY DEF Init, NoLostWakeup
<1>2. TypeOK /\ NoLostWakeup /\ [Next]_vars => NoLostWakeup'
  <2> SUFFICES ASSUME TypeOK, NoLostWakeup, [Next]_vars PROVE NoLostWakeup'
    OBVIOUS
  <2> USE DEF NoLostWakeup
  <2>1. CASE UNCHANGED <<worker, queue, closed, publisher, stopper>>
    BY <2>1
  <2>2. CASE Start \/ \E p \in Publishers : PublishDropped(p)
    BY <2>2 DEF Start, PublishDropped, EnsureStarted, TypeOK
  <2>3. ASSUME NEW p \in Publishers, PublishAppend(p) PROVE NoLostWakeup'
    <3>1. publisher'[p] = "signal"
      BY <2>3 DEF PublishAppend, TypeOK
    <3> QED
      BY <3>1
  <2>4. CASE (\E p \in Publishers : PublishSignal(p)) \/ StopBroadcast
    <3>1. worker' # "wait"
      BY <2>4 DEF PublishSignal, StopBroadcast, Wake
    <3> QED
      BY <3>1
  <2>5. CASE StopClose
    BY <2>5 DEF StopClose
  <2>6. CASE WorkerWait
    BY <2>6 DEF WorkerWait
  <2>7. CASE WorkerExit \/ WorkerPop \/ WorkerSnapshot \/ WorkerInvoke
    BY <2>7 DEF WorkerExit, WorkerPop, WorkerSnapshot, WorkerInvoke
  <2> QED
    BY <2>1, <2>2, <2>3, <2>4, <2>5, <2>6, <2>7
       DEF Next, Publish, Stop, Worker, vars, Register, RegisterNamed
<1> QED
  BY <1>1, <1>2, TypeCorrect, PTL DEF Spec

\* The worker returns only from a closed manager with an empty queue, and
\* neither changes afterwards.
THEOREM ExitIsDrained == Spec => []ExitDrained
<1>1. Init => ExitDrained
  BY DEF Init, ExitDrained
<1>2. TypeOK /\ ExitDrained /\ [Next]_vars => ExitDrained'
  <2> SUFFICES ASSUME TypeOK, ExitDrained, [Next]_vars PROVE ExitDrained'
    OBVIOUS
  <2> QED
    BY DEF ExitDrained, TypeOK, Next, Publish, Stop, Worker, vars, Start,
       PublishDropped, PublishAppend, PublishSignal, EnsureStarted, Wake,
       StopClose, StopBroadcast, Register, RegisterNamed, WorkerWait,
       WorkerExit, WorkerPop, WorkerSnapshot, WorkerInvoke
<1> QED
  BY <1>1, <1>2, TypeCorrect, PTL DEF Spec

\* Each plugin is called with the records in the order Publish accepted them:
\* the record in hand is the last one popped, and no plugin is ahead of it.
THEOREM PluginsInOrder == Spec => []PluginOrder
<1>1. Init => PluginOrder
  BY DEF Init, PluginOrder
<1>2. TypeOK /\ Conservation /\ PluginOrder /\ [Next]_vars => PluginOrder'
  <2> SUFFICES ASSUME TypeOK, Conservation, PluginOrder, [Next]_vars
               PROVE  PluginOrder'
    OBVIOUS
  <2>1. CASE UNCHANGED <<handled, dispatched>>
    BY <2>1 DEF PluginOrder
  <2>2. CASE WorkerPop
    <3>1. handled' = handled /\ Len(dispatched') = Len(dispatched) + 1
          /\ Len(dispatched) \in Nat /\ handled \in [Plugins -> Seq(Nat)]
      BY <2>2 DEF WorkerPop, TypeOK
    <3>2. ASSUME NEW pl \in Plugins, NEW i \in 1..Len(handled[pl])
          PROVE  handled[pl][i] <= Len(dispatched) + 1
      <4>1. handled[pl] \in Seq(Nat)
        BY <3>1
      <4>2. handled[pl][i] \in Nat
        BY <4>1, ElementOfSeq
      <4> QED
        BY <3>1, <4>2 DEF PluginOrder
    <3> QED
      BY <3>1, <3>2 DEF PluginOrder
  <2>3. CASE WorkerInvoke
    <3>1. dispatched \in Seq(Nat) /\ dispatched # <<>> /\ todo # <<>>
          /\ todo \in Seq(Plugins) /\ handled \in [Plugins -> Seq(Nat)]
          /\ dispatched' = dispatched
      BY <2>3 DEF WorkerInvoke, TypeOK
    <3>2. Current = Len(dispatched) /\ Current \in Nat
      <4>1. Len(dispatched) \in Nat \ {0}
        BY <3>1, EmptySeq
      <4>2. dispatched[Len(dispatched)] = Len(dispatched)
        BY <4>1 DEF Conservation
      <4> QED
        BY <4>1, <4>2 DEF Current
    <3>3. Head(todo) \in Plugins
      BY <3>1, HeadTailProperties
    <3>4. handled' = [handled EXCEPT ![Head(todo)] =
                        Append(handled[Head(todo)], Len(dispatched))]
      BY <2>3, <3>2 DEF WorkerInvoke
    <3>5. ASSUME NEW pl \in Plugins, NEW i \in 1..Len(handled'[pl])
          PROVE  /\ handled'[pl][i] <= Len(dispatched)
                 /\ i > 1 => handled'[pl][i - 1] <= handled'[pl][i]
      <4>1. CASE pl # Head(todo)
        <5>1. handled'[pl] = handled[pl]
          BY <3>1, <3>3, <3>4, <4>1
        <5> QED
          BY <5>1 DEF PluginOrder
      <4>2. CASE pl = Head(todo)
        <5> DEFINE h == handled[pl]
        <5>1. h \in Seq(Nat) /\ handled'[pl] = Append(h, Len(dispatched))
          BY <3>1, <3>4, <4>2
        <5>2. \A j \in 1..Len(h) : h[j] <= Len(dispatched)
              /\ (j > 1 => h[j - 1] <= h[j])
          BY DEF PluginOrder
        <5>3. Len(handled'[pl]) = Len(h) + 1 /\ Len(h) \in Nat
              /\ handled'[pl][Len(h) + 1] = Len(dispatched)
              /\ \A j \in 1..Len(h) : handled'[pl][j] = h[j]
          BY <5>1, <3>2
        <5> HIDE DEF h
        <5>4. Len(dispatched) \in Nat
          BY <3>2
        <5> QED
          BY <5>2, <5>3, <5>4, SMTT(30)
      <4> QED
        BY <4>1, <4>2
    <3> QED
      BY <3>1, <3>5 DEF PluginOrder
  <2> QED
    BY <2>1, <2>2, <2>3 DEF Next, Publish, Stop, Worker, vars, Start,
       PublishDropped, PublishAppend, PublishSignal, StopClose, StopBroadcast,
       Register, RegisterNamed, WorkerWait, WorkerExit, WorkerSnapshot
<1> QED
  BY <1>1, <1>2, TypeCorrect, RecordsConserved, PTL DEF Spec
\* A closed manager stays closed and accepts no record.
THEOREM ClosedForGood == Spec => ClosedIsFinal
<1>1. TypeOK /\ [Next]_vars => [closed => closed' /\ accepted' = accepted]_vars
  BY DEF TypeOK, Next, Publish, Stop, Worker, vars, Start,
     PublishDropped, PublishAppend, PublishSignal, EnsureStarted, Wake,
     StopClose, StopBroadcast, Register, RegisterNamed, WorkerWait,
     WorkerExit, WorkerPop, WorkerSnapshot, WorkerInvoke
<1> QED
  BY <1>1, TypeCorrect, PTL DEF Spec, ClosedIsFinal

\* The dispatcher implements ordered exactly-once delivery: PublishAppend is
\* Accept, WorkerPop is Deliver, the first StopClose is Close, and every
\* other step leaves the abstract state alone.
THEOREM RefinesDelivery == Spec => Delivery!SafeSpec
<1> USE DEF Delivery!vars
<1>1. Init => Delivery!Init
  BY DEF Init, Delivery!Init
<1>2. TypeOK /\ Conservation /\ [Next]_vars => [Delivery!Next]_(Delivery!vars)
  <2> SUFFICES ASSUME TypeOK, Conservation, [Next]_vars
               PROVE  [Delivery!Next]_(Delivery!vars)
    OBVIOUS
  <2>1. CASE UNCHANGED <<closed, accepted, dispatched>>
    BY <2>1
  <2>2. ASSUME NEW p \in Publishers, PublishAppend(p) PROVE Delivery!Accept
    BY <2>2 DEF PublishAppend, Delivery!Accept
  <2>3. CASE StopClose
    <3>1. CASE closed
      BY <2>3, <3>1 DEF StopClose
    <3>2. CASE ~closed
      BY <2>3, <3>2 DEF StopClose, Delivery!Next, Delivery!Close
    <3> QED
      BY <3>1, <3>2
  <2>4. CASE WorkerPop
    <3>1. /\ queue \in Seq(Nat) /\ queue # <<>>
          /\ dispatched' = Append(dispatched, Head(queue))
          /\ closed' = closed /\ accepted' = accepted
      BY <2>4 DEF WorkerPop, TypeOK
    <3>2. Len(queue) \in Nat \ {0} /\ Len(dispatched) \in Nat
      BY <3>1, EmptySeq, LenProperties DEF TypeOK
    <3>3. Head(queue) = Len(dispatched) + 1
      BY <3>1, <3>2 DEF Conservation
    <3>4. Len(dispatched) < accepted
      BY <3>2 DEF Conservation
    <3> QED
      BY <3>1, <3>3, <3>4 DEF Delivery!Next, Delivery!Deliver
  <2> QED
    BY <2>1, <2>2, <2>3, <2>4 DEF Delivery!Next, Next, Publish, Stop, Worker,
       vars, Start, PublishDropped, PublishSignal, StopBroadcast, Register,
       RegisterNamed, WorkerWait, WorkerExit, WorkerSnapshot, WorkerInvoke
<1> QED
  BY <1>1, <1>2, TypeCorrect, RecordsConserved, PTL DEF Spec, Delivery!SafeSpec

-----------------------------------------------------------------------------
(* The service *)

\* The one plugin the service registers is the store's.
Registered == IF store = "unset" THEN <<>> ELSE <<Persist>>

\* Phases of the service, and what may be set in them.
PhaseInv ==
    /\ service \in ServiceStates
    /\ store \in {"unset", "open", "closed"}
    /\ handler \in [Publishers -> {"idle", "active"}]
    /\ started \in BOOLEAN
    /\ (worker = "none") <=> ~started
    /\ service = "new" => ~started
    /\ service \in {"new", "started"} =>
          /\ \A p \in Publishers : handler[p] = "idle"
          /\ accepted = 0
          /\ store = "unset"
    /\ plugins = Registered
    /\ todo \in {<<>>, <<Persist>>}
    /\ todo # <<>> <=> worker = "dispatch"
    /\ todo # <<>> => store # "unset"
    /\ inserting \in BOOLEAN
    /\ inserting => worker = "dispatch"

\* Rows are of records dispatched before the one in hand, each once and in their order.
RowsInv ==
    /\ persisted \in Seq(Nat)
    /\ \A i \in 1..Len(persisted) :
          /\ persisted[i] <= Len(dispatched)
          /\ worker \in {"popped", "dispatch"} => persisted[i] < Len(dispatched)
          /\ i > 1 => persisted[i - 1] < persisted[i]

-----------------------------------------------------------------------------
\* The service starts with nothing registered.
LEMMA PhaseInit == ServiceInit => PhaseInv
  BY DEF ServiceInit, Init, PhaseInv, ServiceStates, Registered

\* The steps of the service's main goroutine.
LEMMA ServiceKeepsPhase ==
  ASSUME PhaseInv, Service \/ Tick
  PROVE  PhaseInv'
<1> USE DEF PhaseInv, ServiceStates, Registered
<1>1. CASE RunStart
  BY <1>1 DEF RunStart, EnsureStarted
<1>2. CASE RunInitStore
  <2>1. CASE Register(Persist) /\ store' = "open"
    <3>1. plugins' = <<Persist>>
      BY <1>2, <2>1 DEF RunInitStore, Register
    <3> QED
      BY <1>2, <2>1, <3>1 DEF RunInitStore, Register
  <2>2. CASE UNCHANGED <<vars, store>>
    BY <1>2, <2>2 DEF RunInitStore, vars
  <2> QED
    BY <1>2, <2>1, <2>2 DEF RunInitStore
<1>3. CASE RunStopping
  BY <1>3 DEF RunStopping, vars
<1>4. CASE ShutdownServer
  BY <1>4 DEF ShutdownServer, vars
<1>5. CASE ShutdownStore
  BY <1>5 DEF ShutdownStore, vars
<1>6. CASE ShutdownUsage
  BY <1>6 DEF ShutdownUsage, StopClose, StopBroadcast, Wake
<1>7. CASE ProcessExit
  BY <1>7 DEF ProcessExit, vars
<1>8. CASE Tick
  BY <1>8 DEF Tick, vars
<1> QED
  BY <1>1, <1>2, <1>3, <1>4, <1>5, <1>6, <1>7, <1>8 DEF Service

\* Requests publish while the service is past its start.
LEMMA RequestKeepsPhase ==
  ASSUME PhaseInv, NEW p \in Publishers, Request(p)
  PROVE  PhaseInv'
<1> USE DEF PhaseInv, ServiceStates, Registered
<1>1. CASE RequestBegin(p)
  BY <1>1 DEF RequestBegin, vars
<1>2. CASE RequestPublish(p)
  <2>1. service \notin {"new", "started"}
    BY <1>2 DEF RequestPublish
  <2>2. CASE PublishAppend(p)
    BY <1>2, <2>1, <2>2 DEF RequestPublish, PublishAppend, EnsureStarted
  <2>3. CASE PublishDropped(p)
    BY <1>2, <2>1, <2>3 DEF RequestPublish, PublishDropped, EnsureStarted
  <2> QED
    BY <1>2, <2>2, <2>3 DEF RequestPublish
<1>3. CASE RequestEnd(p)
  BY <1>3 DEF RequestEnd, PublishSignal, Wake
<1> QED
  BY <1>1, <1>2, <1>3 DEF Request

\* The worker's dispatches have one plugin to call.
LEMMA WorkerKeepsPhase ==
  ASSUME PhaseInv, WorkerThread
  PROVE  PhaseInv'
<1> USE DEF PhaseInv, ServiceStates, Registered
<1>1. ASSUME worker = "dispatch", todo = <<Persist>>, WorkerInvoke
      PROVE  todo' = <<>> /\ worker' = "check" /\ plugins' = plugins
             /\ started' = started /\ accepted' = accepted
  BY <1>1 DEF WorkerInvoke
<1>2. CASE PersistEnter
  <2>1. todo = <<Persist>>
    BY <1>2 DEF PersistEnter, PersistTurn
  <2>2. CASE inserting' = TRUE /\ UNCHANGED vars
    BY <1>2, <2>2 DEF PersistEnter, PersistTurn, vars
  <2>3. CASE WorkerInvoke /\ UNCHANGED inserting
    BY <1>1, <1>2, <2>1, <2>3 DEF PersistEnter, PersistTurn
  <2> QED
    BY <1>2, <2>2, <2>3 DEF PersistEnter
<1>3. CASE PersistInsert
  <2>1. worker = "dispatch" /\ WorkerInvoke
    BY <1>3 DEF PersistInsert, Inserted, WorkerInvoke
  <2>2. UNCHANGED <<service, store, handler>> /\ inserting' = FALSE
    BY <1>3 DEF PersistInsert, Inserted
  <2>3. CASE todo = <<Persist>>
    BY <1>1, <2>1, <2>2, <2>3
  <2>4. CASE todo = <<>>
    BY <2>1, <2>2, <2>4 DEF WorkerInvoke
  <2> QED
    BY <2>3, <2>4
<1>4. CASE OtherWorkerStep
  <2>1. UNCHANGED <<service, store, handler, inserting>>
    BY <1>4 DEF OtherWorkerStep, serviceVars
  <2>2. CASE WorkerInvoke
    BY <1>4, <2>2 DEF OtherWorkerStep, PersistTurn, WorkerInvoke
  <2>3. CASE WorkerSnapshot
    BY <2>1, <2>3 DEF WorkerSnapshot
  <2>4. CASE WorkerWait \/ WorkerExit \/ WorkerPop
    BY <2>1, <2>4 DEF WorkerWait, WorkerExit, WorkerPop
  <2> QED
    BY <1>4, <2>2, <2>3, <2>4 DEF OtherWorkerStep, Worker
<1> QED
  BY <1>2, <1>3, <1>4 DEF WorkerThread

\* Every step of the service keeps the order of its phases.
LEMMA PhaseStep == PhaseInv /\ [ServiceNext]_allVars => PhaseInv'
<1> SUFFICES ASSUME PhaseInv, [ServiceNext]_allVars PROVE PhaseInv'
  OBVIOUS
<1>1. CASE UNCHANGED allVars
  BY <1>1 DEF allVars, vars, serviceVars, PhaseInv, ServiceStates, Registered
<1> QED
  BY <1>1, ServiceKeepsPhase, RequestKeepsPhase, WorkerKeepsPhase DEF ServiceNext

\* It holds in every behaviour.
LEMMA Phases == ServiceSpec => []PhaseInv
  BY PhaseInit, PhaseStep, PTL DEF ServiceSpec

-----------------------------------------------------------------------------
\* A step of the service is a step of the dispatcher or leaves it alone.
LEMMA StepUsesQueue == PhaseInv /\ [ServiceNext]_allVars => [Next]_vars
<1> SUFFICES ASSUME PhaseInv, [ServiceNext]_allVars PROVE [Next]_vars
  OBVIOUS
<1>1. CASE RunStart
  BY <1>1 DEF RunStart, EnsureStarted, PhaseInv, Start, Next
<1>2. CASE RunInitStore
  BY <1>2, PersistAssumption DEF RunInitStore, Next
<1>3. CASE ShutdownUsage
  BY <1>3 DEF ShutdownUsage, Stop, Next
<1>4. ASSUME NEW p \in Publishers, Request(p) PROVE [Next]_vars
  BY <1>4 DEF Request, RequestBegin, RequestPublish, RequestEnd, Publish, Next
<1>5. CASE WorkerThread
  BY <1>5 DEF WorkerThread, PersistEnter, PersistInsert, Inserted, OtherWorkerStep, Worker,
     Next
<1>6. CASE RunStopping \/ ShutdownServer \/ ShutdownStore \/ ProcessExit \/ Tick
  BY <1>6 DEF RunStopping, ShutdownServer, ShutdownStore, ProcessExit, Tick
<1>7. CASE UNCHANGED allVars
  BY <1>7 DEF allVars
<1> QED
  BY <1>1, <1>2, <1>3, <1>4, <1>5, <1>6, <1>7 DEF ServiceNext, Service

\* service.go and persist_plugin.go take none but the dispatcher's steps on the
\* dispatcher's state.
THEOREM ServiceUsesQueue == ServiceSpec => UsesQueue
<1>1. ServiceInit => Init
  BY DEF ServiceInit
<1> QED
  BY <1>1, StepUsesQueue, Phases, PTL DEF ServiceSpec, UsesQueue, Spec

\* What the dispatcher guarantees holds in the service as well.
LEMMA QueueHolds == ServiceSpec => [](TypeOK /\ Conservation)
  BY ServiceUsesQueue, TypeCorrect, RecordsConserved, PTL DEF UsesQueue

-----------------------------------------------------------------------------
\* The record in hand is numbered by the records dispatched.
LEMMA CurrentIsLast ==
  ASSUME TypeOK, Conservation, worker \in {"popped", "dispatch"}
  PROVE  Len(dispatched) \in Nat \ {0} /\ Current = Len(dispatched)
<1>1. dispatched \in Seq(Nat) /\ dispatched # <<>>
  BY DEF TypeOK
<1>2. Len(dispatched) \in Nat \ {0}
  BY <1>1, EmptySeq, LenProperties
<1> QED
  BY <1>2 DEF Conservation, Current

\* A step that stores nothing keeps the rows, if it leaves the worker's record
\* in hand alone or puts it down.
LEMMA RowsUntouched ==
  ASSUME RowsInv, persisted' = persisted, dispatched' = dispatched,
         worker' \in {"popped", "dispatch"} => worker \in {"popped", "dispatch"}
  PROVE  RowsInv'
  BY DEF RowsInv

\* An insert adds the row of the record in hand, or nothing.
LEMMA InsertedRow ==
  ASSUME TypeOK, Conservation, RowsInv, PersistInsert
  PROVE  /\ worker = "dispatch"
         /\ persisted' = IF InsertSucceeds THEN Append(persisted, Current) ELSE persisted
<1>1. worker = "dispatch" /\ persisted \in Seq(Nat)
  BY DEF PersistInsert, Inserted, WorkerInvoke, RowsInv
<1>2. Current \in Nat
  BY <1>1, CurrentIsLast
<1>3. Append(persisted, Current) = persisted \o <<Current>> /\ persisted \o <<>> = persisted
  BY <1>1, <1>2, AppendIsConcat, ConcatEmptySeq
<1> QED
  BY <1>1, <1>3 DEF PersistInsert, Inserted

\* An insert stores the record in hand, which has no row yet.
LEMMA RowsStep == TypeOK /\ Conservation /\ PhaseInv /\ RowsInv /\ [ServiceNext]_allVars
                    => RowsInv'
<1> SUFFICES ASSUME TypeOK, Conservation, PhaseInv, RowsInv, [ServiceNext]_allVars
             PROVE  RowsInv'
  OBVIOUS
<1>1. CASE PersistInsert
  <2>1. /\ worker = "dispatch" /\ todo = <<Persist>>
        /\ dispatched' = dispatched
    BY <1>1 DEF PersistInsert, Inserted, PhaseInv, WorkerInvoke
  <2>2. worker' = "check"
    BY <1>1, <2>1 DEF PersistInsert, Inserted, WorkerInvoke
  <2>3. CASE persisted' = persisted
    BY <2>1, <2>2, <2>3, RowsUntouched
  <2>4. CASE persisted' = Append(persisted, Current)
    <3>1. Current = Len(dispatched) /\ Len(dispatched) \in Nat
      BY <2>1, CurrentIsLast
    <3>2. \A i \in 1..Len(persisted) : persisted[i] < Len(dispatched)
      BY <2>1 DEF RowsInv
    <3>3. /\ persisted' \in Seq(Nat) /\ Len(persisted') = Len(persisted) + 1
          /\ \A i \in 1..Len(persisted) : persisted'[i] = persisted[i]
          /\ persisted'[Len(persisted) + 1] = Len(dispatched)
          /\ Len(persisted) \in Nat
      BY <2>4, <3>1 DEF RowsInv
    <3>4. ASSUME NEW i \in 1..Len(persisted')
          PROVE  /\ persisted'[i] <= Len(dispatched)
                 /\ i > 1 => persisted'[i - 1] < persisted'[i]
      <4>1. CASE i = Len(persisted) + 1
        BY <3>1, <3>2, <3>3, <4>1
      <4>2. CASE i \in 1..Len(persisted)
        <5>1. i \in Nat /\ (i > 1 => i - 1 \in 1..Len(persisted))
          BY <3>3, <4>2
        <5> QED
          BY <3>3, <4>2, <5>1 DEF RowsInv
      <4> QED
        BY <3>3, <4>1, <4>2
    <3> QED
      BY <2>1, <2>2, <3>3, <3>4 DEF RowsInv
  <2> QED
    BY <1>1, <2>3, <2>4, InsertedRow
<1>2. CASE WorkerPop /\ UNCHANGED serviceVars
  <2>1. persisted' = persisted /\ queue # <<>> /\ dispatched' = Append(dispatched, Head(queue))
    BY <1>2 DEF WorkerPop, serviceVars
  <2>2. Len(dispatched') = Len(dispatched) + 1 /\ Len(dispatched) \in Nat
    BY <2>1 DEF TypeOK
  <2> QED
    BY <2>1, <2>2 DEF RowsInv
<1>3. CASE PersistEnter
  BY <1>3, RowsUntouched DEF PersistEnter, PersistTurn, WorkerInvoke, vars
<1>4. CASE OtherWorkerStep /\ ~WorkerPop
  BY <1>4, RowsUntouched DEF OtherWorkerStep, serviceVars, Worker, WorkerWait, WorkerExit,
     WorkerSnapshot, WorkerInvoke
<1>5. CASE Service \/ Tick
  <2>1. persisted' = persisted /\ dispatched' = dispatched
    BY <1>5 DEF Service, RunStart, RunInitStore, Register, RunStopping, ShutdownServer,
       ShutdownStore, ShutdownUsage, StopClose, StopBroadcast, ProcessExit, Tick, vars
  <2>2. worker' \in {"popped", "dispatch"} => worker \in {"popped", "dispatch"}
    BY <1>5 DEF Service, RunStart, EnsureStarted, RunInitStore, Register, RunStopping,
       ShutdownServer, ShutdownStore, ShutdownUsage, StopClose, StopBroadcast, Wake,
       ProcessExit, Tick, vars
  <2> QED
    BY <2>1, <2>2, RowsUntouched
<1>6. ASSUME NEW p \in Publishers, Request(p) PROVE RowsInv'
  <2>1. persisted' = persisted /\ dispatched' = dispatched
    BY <1>6 DEF Request, RequestBegin, RequestPublish, RequestEnd, PublishAppend,
       PublishDropped, PublishSignal, vars
  <2>2. worker' \in {"popped", "dispatch"} => worker \in {"popped", "dispatch"}
    BY <1>6 DEF Request, RequestBegin, RequestPublish, RequestEnd, PublishAppend,
       PublishDropped, PublishSignal, EnsureStarted, Wake, vars
  <2> QED
    BY <2>1, <2>2, RowsUntouched
<1>7. CASE UNCHANGED allVars
  BY <1>7, RowsUntouched DEF allVars, vars, serviceVars
<1> QED
  BY <1>1, <1>2, <1>3, <1>4, <1>5, <1>6, <1>7 DEF ServiceNext, WorkerThread, OtherWorkerStep

\* persist_plugin.go: each accepted record has at most one row, and rows are in
\* the order of acceptance, whatever the shutdown does to the store.
THEOREM RowsInOrder == ServiceSpec => []PersistedOnceInOrder
<1>1. ServiceInit => RowsInv
  BY DEF ServiceInit, RowsInv
<1>2. TypeOK /\ Conservation /\ RowsInv => PersistedOnceInOrder
  <2> SUFFICES ASSUME TypeOK, Conservation, RowsInv, NEW i \in 1..Len(persisted)
               PROVE  /\ persisted[i] <= accepted
                      /\ i > 1 => persisted[i - 1] < persisted[i]
    BY DEF PersistedOnceInOrder
  <2>1. Len(dispatched) \in Nat /\ Len(queue) \in Nat /\ persisted[i] \in Nat
    BY LenProperties DEF TypeOK, RowsInv
  <2>2. Len(dispatched) + Len(queue) = accepted /\ persisted[i] <= Len(dispatched)
        /\ (i > 1 => persisted[i - 1] < persisted[i])
    BY DEF Conservation, RowsInv
  <2> QED
    BY <2>1, <2>2
<1> QED
  BY <1>1, <1>2, RowsStep, Phases, QueueHolds, PTL DEF ServiceSpec

-----------------------------------------------------------------------------
\* A record has its row, or is the one in hand.
Stored(r) ==
    \/ \E i \in 1..Len(persisted) : persisted[i] = r
    \/ r = Len(dispatched) /\ worker \in {"popped", "dispatch"}

\* Rows stay, and the worker puts no record down.
LEMMA StillStored ==
  ASSUME DurableWhileOpen, persisted' = persisted, dispatched' = dispatched,
         store' = "open" => store = "open",
         worker \in {"popped", "dispatch"} => worker' \in {"popped", "dispatch"}
  PROVE  DurableWhileOpen'
  BY DEF DurableWhileOpen

\* A record is put down only when it has been stored, while the store is open.
LEMMA DurableStep ==
  TypeOK /\ Conservation /\ PhaseInv /\ RowsInv /\ DurableWhileOpen /\ [ServiceNext]_allVars
     => DurableWhileOpen'
<1> SUFFICES ASSUME TypeOK, Conservation, PhaseInv, RowsInv, DurableWhileOpen,
                    [ServiceNext]_allVars, store' = "open",
                    NEW r \in 1..Len(dispatched') \ (Unnamed \cup Refused)
             PROVE  Stored(r)'
  BY DEF DurableWhileOpen, Stored
<1>1. CASE RunInitStore
  <2>1. accepted = 0 /\ dispatched' = dispatched
    BY <1>1 DEF RunInitStore, PhaseInv, Register, vars
  <2>2. Len(dispatched) \in Nat /\ Len(queue) \in Nat
    BY LenProperties DEF TypeOK
  <2>3. Len(dispatched) = 0
    BY <2>1, <2>2 DEF Conservation
  <2> QED
    BY <2>1, <2>3
<1>2. CASE PersistInsert
  <2>1. dispatched' = dispatched /\ worker = "dispatch" /\ store = "open"
    BY <1>2 DEF PersistInsert, Inserted, WorkerInvoke
  <2>2. Current = Len(dispatched) /\ Len(dispatched) \in Nat
    BY <2>1, CurrentIsLast
  <2>3. CASE r = Len(dispatched)
    <3>1. persisted' = Append(persisted, r)
      BY <1>2, <2>1, <2>2, <2>3, InsertedRow DEF InsertSucceeds
    <3>2. /\ Len(persisted) \in Nat /\ Len(persisted') = Len(persisted) + 1
          /\ persisted'[Len(persisted) + 1] = r
      BY <2>2, <2>3, <3>1 DEF RowsInv
    <3> QED
      BY <3>2 DEF Stored
  <2>4. CASE r # Len(dispatched)
    <3>1. PICK i \in 1..Len(persisted) : persisted[i] = r
      BY <2>1, <2>4 DEF DurableWhileOpen
    <3>2. persisted' = persisted \/ persisted' = Append(persisted, Current)
      BY <1>2, InsertedRow
    <3>3. i \in 1..Len(persisted') /\ persisted'[i] = r
      <4>1. Current \in Nat /\ persisted \in Seq(Nat) /\ Len(persisted) \in Nat
        BY <2>2 DEF RowsInv
      <4>2. CASE persisted' = persisted
        BY <3>1, <4>2
      <4>3. CASE persisted' = Append(persisted, Current)
        BY <3>1, <4>1, <4>3
      <4> QED
        BY <3>2, <4>2, <4>3
    <3> QED
      BY <3>3 DEF Stored
  <2> QED
    BY <2>3, <2>4
<1>3. CASE WorkerPop /\ UNCHANGED serviceVars
  <2>1. /\ persisted' = persisted /\ store = "open" /\ worker = "check" /\ worker' = "popped"
        /\ dispatched' = Append(dispatched, Head(queue))
    BY <1>3 DEF WorkerPop, serviceVars
  <2>2. Len(dispatched') = Len(dispatched) + 1 /\ Len(dispatched) \in Nat
    BY <2>1 DEF TypeOK
  <2>3. CASE r = Len(dispatched')
    BY <2>1, <2>3 DEF Stored
  <2>4. CASE r \in 1..Len(dispatched)
    BY <2>1, <2>4 DEF DurableWhileOpen, Stored
  <2> QED
    BY <2>2, <2>3, <2>4
<1>4. CASE PersistEnter
  <2>1. /\ store = "open" /\ persisted' = persisted /\ dispatched' = dispatched
        /\ worker = "dispatch"
    BY <1>4 DEF PersistEnter, PersistTurn, WorkerInvoke, vars
  <2>2. CASE UNCHANGED vars
    BY <2>1, <2>2, StillStored DEF vars, DurableWhileOpen, Stored
  <2>3. CASE store # "open" \/ Current \in Unnamed
    <3>1. r # Len(dispatched)
      BY <2>1, <2>3, CurrentIsLast
    <3> QED
      BY <2>1, <3>1 DEF DurableWhileOpen, Stored
  <2> QED
    BY <1>4, <2>2, <2>3 DEF PersistEnter
<1>5. CASE OtherWorkerStep /\ ~WorkerPop
  <2>1. ~WorkerInvoke
    BY <1>5 DEF OtherWorkerStep, PersistTurn, PhaseInv, WorkerInvoke
  <2>2. store = "open" /\ plugins = <<Persist>> /\ persisted' = persisted
    BY <1>5 DEF OtherWorkerStep, serviceVars, PhaseInv, Registered
  <2>3. dispatched' = dispatched
        /\ (worker \in {"popped", "dispatch"} => worker' \in {"popped", "dispatch"})
    BY <1>5, <2>1, <2>2 DEF OtherWorkerStep, Worker, WorkerWait, WorkerExit, WorkerSnapshot
  <2> QED
    BY <2>2, <2>3, StillStored DEF DurableWhileOpen, Stored
<1>6. CASE (Service /\ ~RunInitStore) \/ Tick
  <2>1. store = "open" /\ persisted' = persisted /\ dispatched' = dispatched
    BY <1>6 DEF Service, RunStart, RunStopping, ShutdownServer, ShutdownStore, ShutdownUsage,
       StopClose, StopBroadcast, ProcessExit, Tick, vars
  <2>2. worker \in {"popped", "dispatch"} => worker' \in {"popped", "dispatch"}
    BY <1>6 DEF PhaseInv, Service, RunStart, EnsureStarted, RunStopping, ShutdownServer,
       ShutdownStore, ShutdownUsage, StopClose, StopBroadcast, Wake, ProcessExit, Tick, vars
  <2> QED
    BY <2>1, <2>2, StillStored DEF DurableWhileOpen, Stored
<1>7. ASSUME NEW p \in Publishers, Request(p) PROVE Stored(r)'
  <2>1. store = "open" /\ persisted' = persisted /\ dispatched' = dispatched
    BY <1>7 DEF Request, RequestBegin, RequestPublish, RequestEnd, PublishAppend,
       PublishDropped, PublishSignal, vars
  <2>2. worker \in {"popped", "dispatch"} => worker' \in {"popped", "dispatch"}
    BY <1>7 DEF PhaseInv, Request, RequestBegin, RequestPublish, RequestEnd, PublishAppend,
       PublishDropped, PublishSignal, EnsureStarted, Wake, vars
  <2> QED
    BY <2>1, <2>2, StillStored DEF DurableWhileOpen, Stored
<1>8. CASE UNCHANGED allVars
  BY <1>8, StillStored DEF allVars, vars, serviceVars, DurableWhileOpen, Stored
<1> QED
  BY <1>1, <1>2, <1>3, <1>4, <1>5, <1>6, <1>7, <1>8 DEF ServiceNext, WorkerThread, OtherWorkerStep

\* service.go:1101-1143: until the shutdown closes the store, every record whose
\* dispatch has ended has its row, unless it names no credential or no model,
\* or SQLite refused it.
THEOREM RecordsAreDurable == ServiceSpec => []DurableWhileOpen
<1>1. ServiceInit => RowsInv /\ DurableWhileOpen
  BY DEF ServiceInit, Init, RowsInv, DurableWhileOpen
<1> QED
  BY <1>1, RowsStep, DurableStep, Phases, QueueHolds, PTL DEF ServiceSpec
=============================================================================
