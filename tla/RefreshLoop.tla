------------------------------ MODULE RefreshLoop ------------------------------
(***************************************************************************)
(* The background refresh of credentials: the loop with its queue of due   *)
(* times, its dirty set and its workers (auth/auto_refresh_loop.go), and   *)
(* the refresh itself, which requests also ask for after an unauthorized   *)
(* answer (refreshAuthForRequest in auth/conductor.go).                    *)
(***************************************************************************)
EXTENDS Integers, Sequences, FiniteSets, FiniteSetsExt

CONSTANTS
    Refreshables,   \* credentials that can be refreshed
    RefreshWorkers,
    Callers,        \* requests that may answer an unauthorized error
    Kinds,          \* kinds of credentials: the preferred interval, or 0, the
                    \* provider's lead, or 0, and the life of a token, or 0
    PendingBackoff, FailureBackoff, IneffectiveBackoff,
    JobBuffer,
    MaxTokens, MaxNow, MaxEvents  \* bounds

VARIABLES
    kind,     \* kind[a]: what kind of credential a is
    auth,     \* auth[a]: what the manager knows of the credential, or Gone
    heap,     \* heap[a]: when to look at a again, or Never
    dirty, wake,
    loop,     \* the loop goroutine: pc, what it still has to do, its timer
    jobs,
    work,     \* work[t]: a worker or a request that refreshes
    lock,     \* lock[a]: holder of a's refresh lock, or {}
    now, events,
    lost      \* history: credentials whose 401 a success wiped out unseen

vars == <<kind, auth, heap, dirty, wake, loop, jobs, work, lock, now, events, lost>>

Threads == RefreshWorkers \union Callers
Never == -1
Zero  == -1   \* the zero time

Gone == [there |-> FALSE, token |-> 0, last |-> Zero, next |-> Zero, expiry |-> Zero, refused |-> FALSE,
          born |-> 0]
New(a) == [Gone EXCEPT !.there = TRUE, !.born = events + 1, !.expiry = IF kind[a].life = 0 THEN Zero ELSE now + kind[a].life]
Resting == [pc |-> "idle", a |-> "none", from |-> 0, born |-> 0, failed |-> 0]

Init ==
    /\ kind \in [Refreshables -> Kinds]
    /\ now = 0
    /\ auth = [a \in Refreshables |-> [Gone EXCEPT !.there = TRUE,
                                       !.expiry = IF kind[a].life = 0 THEN Zero ELSE kind[a].life]]
    /\ heap = [a \in Refreshables |-> Never]
    /\ dirty = {} /\ wake = FALSE
    /\ loop = [pc |-> "rebuild", todo |-> {}, a |-> "none", timer |-> Never]
    /\ jobs = <<>>
    /\ work = [t \in Threads |-> Resting]
    /\ lock = [a \in Refreshables |-> {}]
    /\ events = 0
    /\ lost = {}

-----------------------------------------------------------------------------
(* When is a credential to be refreshed?                                   *)

Earliest(S) == Min(S)

\* nextRefreshCheckAt, without a RefreshEvaluator; Never when there is nothing
\* to schedule.
NextCheck(x, a) ==
    LET due(t) == IF t <= now THEN now ELSE t IN
    CASE ~x.there \/ x.refused -> Never
      [] x.there /\ ~x.refused /\ now < x.next -> x.next
      [] x.there /\ ~x.refused /\ now >= x.next /\ kind[a].interval > 0 ->
           IF x.last = Zero THEN now
           ELSE due(Earliest({x.last + kind[a].interval} \union
                             (IF x.expiry = Zero THEN {} ELSE {x.expiry - kind[a].interval})))
      [] x.there /\ ~x.refused /\ now >= x.next /\ kind[a].interval = 0 ->
           CASE kind[a].lead = 0 -> Never
             [] kind[a].lead > 0 /\ x.expiry # Zero -> due(x.expiry - kind[a].lead)
             [] kind[a].lead > 0 /\ x.expiry = Zero /\ x.last # Zero -> due(x.last + kind[a].lead)
             [] OTHER -> now

\* shouldRefresh.  (No credential of the program has a RefreshEvaluator, and
\* ProviderRefreshLead returns a positive lead or none: kind[a].lead = 0.)
ShouldRefresh(x, a) ==
    /\ x.there /\ ~x.refused /\ now >= x.next
    /\ \/ /\ kind[a].interval > 0
          /\ \/ x.expiry # Zero /\ x.expiry - now <= kind[a].interval
             \/ x.last = Zero
             \/ now - x.last >= kind[a].interval
       \/ /\ kind[a].interval = 0 /\ kind[a].lead > 0
          /\ \/ x.expiry # Zero /\ x.expiry - now <= kind[a].lead
             \/ x.expiry = Zero /\ (x.last = Zero \/ now - x.last >= kind[a].lead)

\* upsert, and remove for Never.
Put(h, a, t) == [h EXCEPT ![a] = t]

\* queueReschedule: the wake channel holds one signal.
Reschedule(a) == dirty' = dirty \union {a} /\ wake' = TRUE

-----------------------------------------------------------------------------
(* The loop goroutine                                                      *)

\* resetTimer: to the head of the queue.
Waiting(h) ==
    LET due == {h[a] : a \in Refreshables} \ {Never} IN
    [pc |-> "select", todo |-> {}, a |-> "none", timer |-> IF due = {} THEN Never ELSE Earliest(due)]

\* rebuild, then the first resetTimer; StartAutoRefresh has published the loop
\* before.
Rebuild ==
    /\ loop.pc = "rebuild"
    /\ heap' = [a \in Refreshables |-> NextCheck(auth[a], a)]
    /\ loop' = Waiting(heap')
    /\ UNCHANGED <<kind, auth, dirty, wake, jobs, work, lock, now, events, lost>>

\* case <-wakeCh: drainDirty.
Woken ==
    /\ loop.pc = "select" /\ wake
    /\ wake' = FALSE /\ dirty' = {}
    /\ loop' = [loop EXCEPT !.pc = "dirty", !.todo = dirty]
    /\ UNCHANGED <<kind, auth, heap, jobs, work, lock, now, events, lost>>

\* applyDirty, credential by credential.
ApplyDirty(a) ==
    /\ loop.pc = "dirty" /\ a \in loop.todo
    /\ heap' = Put(heap, a, NextCheck(auth[a], a))
    /\ loop' = [loop EXCEPT !.todo = @ \ {a}]
    /\ UNCHANGED <<kind, auth, dirty, wake, jobs, work, lock, now, events, lost>>

DirtyDone ==
    /\ loop.pc = "dirty" /\ loop.todo = {}
    /\ loop' = Waiting(heap)
    /\ UNCHANGED <<kind, auth, heap, dirty, wake, jobs, work, lock, now, events, lost>>

\* case <-timerCh: popDue.
TimerExpires ==
    /\ loop.pc = "select" /\ loop.timer # Never /\ loop.timer <= now
    /\ LET due == {a \in Refreshables : heap[a] # Never /\ heap[a] <= now} IN
         /\ loop' = [loop EXCEPT !.pc = "due", !.todo = due, !.timer = Never]
         /\ heap' = [a \in Refreshables |-> IF a \in due THEN Never ELSE heap[a]]
    /\ UNCHANGED <<kind, auth, dirty, wake, jobs, work, lock, now, events, lost>>

\* handleDueAuth, up to markRefreshPending.
HandleDue(a) ==
    /\ loop.pc = "due" /\ a \in loop.todo
    /\ IF ShouldRefresh(auth[a], a)
       THEN /\ loop' = [loop EXCEPT !.pc = "mark", !.a = a, !.todo = @ \ {a}]
            /\ UNCHANGED heap
       ELSE /\ heap' = IF auth[a].there THEN Put(heap, a, NextCheck(auth[a], a)) ELSE heap
            /\ loop' = [loop EXCEPT !.todo = @ \ {a}]
    /\ UNCHANGED <<kind, auth, dirty, wake, jobs, work, lock, now, events, lost>>

\* markRefreshPending; when it refuses, the credential is scheduled anew.
MarkPending ==
    /\ loop.pc = "mark"
    /\ LET a == loop.a IN
       IF auth[a].there /\ now >= auth[a].next
       THEN /\ auth' = [auth EXCEPT ![a].next = now + PendingBackoff]
            /\ Reschedule(a)
            /\ loop' = [loop EXCEPT !.pc = "send"]
            /\ UNCHANGED heap
       ELSE /\ heap' = Put(heap, a, NextCheck(auth[a], a))
            /\ loop' = [loop EXCEPT !.pc = "due"]
            /\ UNCHANGED <<auth, dirty, wake>>
    /\ UNCHANGED <<kind, jobs, work, lock, now, events, lost>>

\* The send blocks while the buffer is full.
SendJob ==
    /\ loop.pc = "send" /\ Len(jobs) < JobBuffer
    /\ jobs' = Append(jobs, loop.a)
    /\ loop' = [loop EXCEPT !.pc = "due"]
    /\ UNCHANGED <<kind, auth, heap, dirty, wake, work, lock, now, events, lost>>

\* After the due ones the loop applies the dirty ones; their wake signal may
\* still be there.
DueDone ==
    /\ loop.pc = "due" /\ loop.todo = {}
    /\ loop' = [loop EXCEPT !.pc = "dirty", !.todo = dirty]
    /\ dirty' = {}
    /\ UNCHANGED <<kind, auth, heap, wake, jobs, work, lock, now, events, lost>>

-----------------------------------------------------------------------------
(* Workers and requests: refreshAuthForRequest                             *)

Takes(w) ==
    /\ w \in RefreshWorkers /\ work[w].pc = "idle" /\ jobs # <<>>
    /\ work' = [work EXCEPT ![w] = [Resting EXCEPT !.pc = "lock", !.a = Head(jobs)]]
    /\ jobs' = Tail(jobs)
    /\ UNCHANGED <<kind, auth, heap, dirty, wake, loop, lock, now, events, lost>>

\* tryRefreshAfterUnauthorized: the token in use was refused.
Unauthorized(c, a) ==
    /\ c \in Callers /\ work[c].pc = "idle" /\ events < MaxEvents
    /\ auth[a].there
    /\ work' = [work EXCEPT ![c] = [Resting EXCEPT !.pc = "lock", !.a = a, !.failed = auth[a].token + 1]]
    /\ events' = events + 1
    /\ UNCHANGED <<kind, auth, heap, dirty, wake, loop, jobs, lock, now, lost>>

Unlock(t) == lock' = [lock EXCEPT ![work[t].a] = @ \ {t}]

\* What is left to do once the refresh is over: a worker reschedules.
Over(t) == IF t \in RefreshWorkers THEN [work[t] EXCEPT !.pc = "after"] ELSE Resting

\* Under the lock the credential is read anew: it may be gone, or its token
\* may have been replaced since it was refused.
Read(t) ==
    LET x == auth[work[t].a] IN
    IF ~x.there \/ (work[t].failed # 0 /\ x.token + 1 # work[t].failed)
    THEN work' = [work EXCEPT ![t] = Over(t)] /\ UNCHANGED lock
    ELSE /\ work' = [work EXCEPT ![t].pc = "refresh", ![t].from = x.token, ![t].born = x.born]
         /\ lock' = [lock EXCEPT ![work[t].a] = @ \union {t}]

\* Faulty variant: nobody waits for the refresh lock.
LocksNothing(t) ==
    /\ work[t].pc = "lock"
    /\ Read(t)
    /\ UNCHANGED <<kind, auth, heap, dirty, wake, loop, jobs, now, events, lost>>

Locks(t) ==
    /\ work[t].pc = "lock" /\ lock[work[t].a] = {}
    /\ Read(t)
    /\ UNCHANGED <<kind, auth, heap, dirty, wake, loop, jobs, now, events, lost>>

\* The executor's Refresh fails; the error is a refusal, another one, or the
\* cancellation of the context.
RefreshFails(t) ==
    /\ work[t].pc = "refresh"
    /\ LET a == work[t].a IN
       \/ UNCHANGED <<auth, dirty, wake>>
       \/ /\ auth[a].there
          /\ \/ auth' = [auth EXCEPT ![a].next = Zero, ![a].refused = TRUE]
             \/ auth' = [auth EXCEPT ![a].next = now + FailureBackoff, ![a].refused = FALSE]
          /\ Reschedule(a)
    /\ work' = [work EXCEPT ![t] = Over(t)] /\ Unlock(t)
    /\ UNCHANGED <<kind, heap, loop, jobs, now, events, lost>>

\* Refreshed credentials, with a new token or none: Update drops them when the
\* credential is gone.
Refreshed(a, token) ==
    LET x == [auth[a] EXCEPT !.token = token, !.last = now, !.next = Zero, !.refused = FALSE,
                !.expiry = IF token = auth[a].token \/ kind[a].life = 0 THEN @ ELSE now + kind[a].life] IN
    IF ShouldRefresh(x, a) THEN [x EXCEPT !.next = now + IneffectiveBackoff] ELSE x

RefreshSucceeds(t) ==
    /\ work[t].pc = "refresh"
    /\ LET a == work[t].a IN
         /\ \E token \in {work[t].from, work[t].from + 1} \cap (0..MaxTokens) :
              auth' = IF auth[a].there THEN [auth EXCEPT ![a] = Refreshed(a, token)] ELSE auth
         /\ IF auth[a].there THEN Reschedule(a) ELSE UNCHANGED <<dirty, wake>>
    /\ work' = [work EXCEPT ![t] = Over(t)] /\ Unlock(t)
    /\ lost' = lost \ {work[t].a}
    /\ UNCHANGED <<kind, heap, loop, jobs, now, events>>

WorkerDone(w) ==
    /\ work[w].pc = "after"
    /\ Reschedule(work[w].a)
    /\ work' = [work EXCEPT ![w] = Resting]
    /\ UNCHANGED <<kind, auth, heap, loop, jobs, lock, now, events, lost>>

-----------------------------------------------------------------------------
(* The manager                                                             *)

\* MarkResult of an unauthorized request, and of a success that wipes it out:
\* neither tells the loop.
Result(a) ==
    /\ auth[a].there /\ events < MaxEvents
    /\ auth' = [auth EXCEPT ![a].refused = ~@]
    /\ lost' = IF auth[a].refused THEN lost \union {a} ELSE lost
    /\ events' = events + 1
    /\ UNCHANGED <<kind, heap, dirty, wake, loop, jobs, work, lock, now>>

\* Remove, with queueRefreshUnschedule as its last step, and Register.  One
\* goroutine of the service calls them, one after the other.
Remove(a) ==
    /\ auth[a].there /\ events < MaxEvents
    /\ auth' = [auth EXCEPT ![a] = Gone]
    /\ events' = events + 1
    /\ lost' = lost \ {a}
    /\ UNCHANGED <<kind, heap, dirty, wake, loop, jobs, work, lock, now>>

Unscheduled(a) == ~auth[a].there /\ heap[a] # Never

Unschedule(a) ==
    /\ Unscheduled(a)
    /\ heap' = Put(heap, a, Never)
    /\ UNCHANGED <<kind, auth, dirty, wake, loop, jobs, work, lock, now, events, lost>>

Register(a) ==
    /\ ~auth[a].there /\ ~Unscheduled(a) /\ events < MaxEvents
    /\ auth' = [auth EXCEPT ![a] = New(a)]
    /\ Reschedule(a)
    /\ events' = events + 1
    /\ UNCHANGED <<kind, heap, loop, jobs, work, lock, now, lost>>

Tick ==
    /\ now < MaxNow
    /\ now' = now + 1
    /\ UNCHANGED <<kind, auth, heap, dirty, wake, loop, jobs, work, lock, events, lost>>

-----------------------------------------------------------------------------
Loop ==
    \/ Rebuild \/ Woken \/ DirtyDone \/ TimerExpires
    \/ MarkPending \/ SendJob \/ DueDone
    \/ \E a \in Refreshables : ApplyDirty(a) \/ HandleDue(a)

Thread(t) == Takes(t) \/ Locks(t) \/ RefreshFails(t) \/ RefreshSucceeds(t) \/ WorkerDone(t)

Manager ==
    \/ \E a \in Refreshables : Result(a) \/ Remove(a) \/ Unschedule(a) \/ Register(a)
    \/ \E c \in Callers, a \in Refreshables : Unauthorized(c, a)

Next == Loop \/ (\E t \in Threads : Thread(t)) \/ Manager \/ Tick

Spec == Init /\ [][Next]_vars

-----------------------------------------------------------------------------
(* Properties                                                              *)

\* The loop has a credential in hand when it is queued, dirty with a wake-up
\* to come, or on its way through the loop, the jobs and the workers.
InHand(a) ==
    \/ heap[a] # Never
    \/ a \in dirty /\ (wake \/ loop.pc \in {"due", "mark", "send"})
    \/ a \in loop.todo \/ (loop.pc \in {"mark", "send"} /\ loop.a = a)
    \/ loop.pc = "rebuild"
    \/ \E i \in DOMAIN jobs : jobs[i] = a
    \/ \E w \in RefreshWorkers : work[w].pc # "idle" /\ work[w].a = a

\* The loop forgets no credential that it would have to schedule.
NothingForgotten ==
    \A a \in Refreshables : NextCheck(auth[a], a) # Never => InHand(a)

\* ... except after a success that wiped out an unauthorized result.
OnlyWipedForgotten ==
    \A a \in Refreshables : NextCheck(auth[a], a) # Never /\ a \notin lost => InHand(a)

\* The timer never sleeps past a due credential while the loop waits: neither
\* do the two judgements of what is due differ, which would make it spin.
TimerIsRight ==
    /\ loop.pc = "select" =>
         \A a \in Refreshables : heap[a] # Never =>
           (loop.timer # Never /\ loop.timer <= heap[a]) \/ ~auth[a].there \/ wake
    /\ \A a \in Refreshables : auth[a].there /\ NextCheck(auth[a], a) = now
         => ShouldRefresh(auth[a], a)

\* Refreshes of a credential follow each other: one at a time, each from the
\* token that the one before left, so that no refresh token is used twice.
TokensChain ==
    \A t \in Threads : LET a == work[t].a IN
       work[t].pc = "refresh" /\ auth[a].there /\ auth[a].born = work[t].born
         => work[t].from = auth[a].token

\* The three together: no credential is forgotten, none is looked at too late,
\* and no refresh starts from a token that another one has used.
RefreshIsSound == OnlyWipedForgotten /\ TimerIsRight /\ TokensChain
=============================================================================
