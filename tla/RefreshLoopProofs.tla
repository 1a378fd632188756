--------------------------- MODULE RefreshLoopProofs ---------------------------
(***************************************************************************)
(* Proofs about the background refresh, for any number of credentials,     *)
(* workers and requests, any kinds of credentials and any backoffs.        *)
(***************************************************************************)
EXTENDS RefreshLoop, WellFoundedInduction, TLAPS

\* What the configuration may say: durations are naturals.
Configured ==
    /\ Kinds \subseteq [interval : Nat, lead : Nat, life : Nat]
    /\ PendingBackoff \in Nat /\ FailureBackoff \in Nat /\ IneffectiveBackoff \in Nat

Times == Nat \cup {Zero}

Records == [there : BOOLEAN, token : Nat, last : Times, next : Times, expiry : Times,
            refused : BOOLEAN, born : Nat]

Works == [pc : {"idle", "lock", "refresh", "after"}, a : Refreshables \cup {"none"},
          from : Nat, born : Nat, failed : Nat]

\* Types, and whom a goroutine in the middle of its work is about.
TypeOK ==
    /\ kind \in [Refreshables -> Kinds]
    /\ auth \in [Refreshables -> Records]
    /\ heap \in [Refreshables -> Times]
    /\ dirty \in SUBSET Refreshables /\ wake \in BOOLEAN
    /\ loop \in [pc : {"rebuild", "select", "dirty", "due", "mark", "send"},
                 todo : SUBSET Refreshables, a : Refreshables \cup {"none"}, timer : Times]
    /\ loop.pc \in {"mark", "send"} => loop.a \in Refreshables
    /\ loop.pc = "select" => loop.todo = {}
    /\ jobs \in Seq(Refreshables)
    /\ work \in [Threads -> Works]
    /\ \A t \in Threads : work[t].pc # "idle" => work[t].a \in Refreshables
    /\ lock \in [Refreshables -> SUBSET Threads]
    /\ now \in Nat /\ events \in Nat

-----------------------------------------------------------------------------
\* The earliest of some times is one of them and none is earlier.
LEMMA EarliestOfTimes ==
  ASSUME NEW S \in SUBSET Nat, S # {}
  PROVE  Earliest(S) \in S /\ \A x \in S : Earliest(S) <= x
<1>1. PICK x \in S : \A y \in S : ~(<<y, x>> \in OpToRel(<, Nat))
  BY NatLessThanWellFounded, WFMin
<1>2. \A y \in S : ~(y < x)
  BY <1>1 DEF OpToRel
<1>3. \A y \in S : x <= y
  BY <1>2
<1> QED
  BY <1>3 DEF Earliest, Min

\* The same of one time or two, which may lie before the start.
LEMMA EarliestOfTwo ==
  ASSUME NEW m \in Int, NEW n \in Int
  PROVE  /\ Earliest({m}) = m
         /\ Earliest({m} \union {}) = m
         /\ Earliest({m} \union {n}) \in {m, n}
         /\ Earliest({m} \union {n}) <= m /\ Earliest({m} \union {n}) <= n
<1>1. \A S : (\E x \in S : \A y \in S : x <= y)
         => Earliest(S) \in S /\ \A y \in S : Earliest(S) <= y
  BY DEF Earliest, Min
<1>2. \E x \in {m} \union {n} : \A y \in {m} \union {n} : x <= y
  OBVIOUS
<1>3. {m} \union {} = {m} /\ \E x \in {m} : \A y \in {m} : x <= y
  OBVIOUS
<1>4. Earliest({m}) \in {m}
  BY <1>1, <1>3
<1>5. /\ Earliest({m} \union {n}) \in {m} \union {n}
      /\ \A y \in {m} \union {n} : Earliest({m} \union {n}) <= y
  BY <1>1, <1>2
<1> QED
  BY <1>3, <1>4, <1>5

-----------------------------------------------------------------------------
\* What nextRefreshCheckAt schedules at all: time only narrows it down.
Schedulable(x, a) ==
    /\ x.there /\ ~x.refused
    /\ now < x.next \/ kind[a].interval > 0 \/ kind[a].lead > 0

\* The durations of a kind are naturals.
LEMMA KindType ==
  ASSUME Configured, TypeOK, NEW a \in Refreshables
  PROVE  kind[a].interval \in Nat /\ kind[a].lead \in Nat /\ kind[a].life \in Nat
  BY DEF Configured, TypeOK

\* nextRefreshCheckAt names a time exactly for what is schedulable at all, and it says
\* now only of what shouldRefresh would refresh.
LEMMA NextCheckType ==
  ASSUME Configured, TypeOK, NEW a \in Refreshables, NEW x \in Records
  PROVE  /\ NextCheck(x, a) \in Times
         /\ NextCheck(x, a) # Never <=> Schedulable(x, a)
         /\ NextCheck(x, a) = now => ShouldRefresh(x, a)
<1> DEFINE k == kind[a]
           due(t) == IF t <= now THEN now ELSE t
<1>1. k.interval \in Nat /\ k.lead \in Nat /\ now \in Nat
  BY KindType DEF TypeOK
<1>2. x.there \in BOOLEAN /\ x.refused \in BOOLEAN
      /\ x.last \in Times /\ x.next \in Times /\ x.expiry \in Times
  BY DEF Records
<1> USE DEF Times, Never, Zero
<1>3. CASE ~x.there \/ x.refused
  BY <1>1, <1>3 DEF NextCheck, Schedulable
<1>4. CASE x.there /\ ~x.refused /\ now < x.next
  BY <1>1, <1>2, <1>4 DEF NextCheck, Schedulable
<1>5. CASE x.there /\ ~x.refused /\ now >= x.next /\ k.interval > 0
  <2> DEFINE E == IF x.expiry = Zero THEN {} ELSE {x.expiry - k.interval}
             e == Earliest({x.last + k.interval} \union E)
  <2>1. NextCheck(x, a) = IF x.last = Zero THEN now ELSE due(e)
    BY <1>1, <1>2, <1>5 DEF NextCheck
  <2>2. Schedulable(x, a)
    BY <1>5 DEF Schedulable
  <2>3. CASE x.last = Zero
    BY <1>1, <1>5, <2>1, <2>2, <2>3 DEF ShouldRefresh
  <2>4. CASE x.last # Zero /\ x.expiry = Zero
    <3>1. e = x.last + k.interval
      <4>1. E = {}
        BY <2>4
      <4>2. x.last + k.interval \in Int
        BY <1>1, <1>2, <2>4
      <4> QED
        BY <4>1, <4>2, EarliestOfTwo
    <3>2. NextCheck(x, a) = due(x.last + k.interval)
      BY <2>1, <2>4, <3>1
    <3> QED
      BY <1>1, <1>2, <1>5, <2>2, <2>4, <3>2 DEF ShouldRefresh
  <2>5. CASE x.last # Zero /\ x.expiry # Zero
    <3>1. e \in {x.last + k.interval, x.expiry - k.interval}
      <4>1. E = {x.expiry - k.interval}
        BY <2>5
      <4>2. x.last + k.interval \in Int /\ x.expiry - k.interval \in Int
        BY <1>1, <1>2
      <4> QED
        BY <4>1, <4>2, EarliestOfTwo
    <3>2. NextCheck(x, a) = due(e)
      BY <2>1, <2>5
    <3> HIDE DEF e
    <3>3. e \in Int
      BY <1>1, <1>2, <3>1
    <3> QED
      BY <1>1, <1>2, <1>5, <2>2, <2>5, <3>1, <3>2, <3>3 DEF ShouldRefresh
  <2> QED
    BY <2>3, <2>4, <2>5
<1>6. CASE x.there /\ ~x.refused /\ now >= x.next /\ k.interval = 0
  <2>1. CASE k.lead = 0
    BY <1>1, <1>2, <1>6, <2>1 DEF NextCheck, Schedulable
  <2>2. CASE k.lead > 0 /\ x.expiry # Zero
    <3>1. NextCheck(x, a) = due(x.expiry - k.lead)
      BY <1>1, <1>2, <1>6, <2>2 DEF NextCheck
    <3> QED
      BY <1>1, <1>2, <1>6, <2>2, <3>1 DEF Schedulable, ShouldRefresh
  <2>3. CASE k.lead > 0 /\ x.expiry = Zero /\ x.last # Zero
    <3>1. NextCheck(x, a) = due(x.last + k.lead)
      BY <1>1, <1>2, <1>6, <2>3 DEF NextCheck
    <3> QED
      BY <1>1, <1>2, <1>6, <2>3, <3>1 DEF Schedulable, ShouldRefresh
  <2>4. CASE k.lead > 0 /\ x.expiry = Zero /\ x.last = Zero
    <3>1. NextCheck(x, a) = now
      BY <1>1, <1>2, <1>6, <2>4 DEF NextCheck
    <3> QED
      BY <1>1, <1>2, <1>6, <2>4, <3>1 DEF Schedulable, ShouldRefresh
  <2> QED
    BY <1>1, <2>1, <2>2, <2>3, <2>4
<1> QED
  BY <1>1, <1>2, <1>3, <1>4, <1>5, <1>6

-----------------------------------------------------------------------------
\* A goroutine at rest is typed.
LEMMA RestingType == Resting \in Works /\ Resting.pc = "idle"
  BY DEF Resting, Works

\* The loop goes to sleep with a timer that is no later than any due time.
LEMMA WaitingType ==
  ASSUME NEW h \in [Refreshables -> Times]
  PROVE  /\ Waiting(h) \in [pc : {"select"}, todo : {{}}, a : {"none"}, timer : Times]
         /\ \A a \in Refreshables : h[a] # Never =>
               Waiting(h).timer # Never /\ Waiting(h).timer <= h[a]
<1> DEFINE due == {h[a] : a \in Refreshables} \ {Never}
<1>1. due \in SUBSET Nat
  BY DEF Times, Never, Zero
<1>2. Waiting(h) = [pc |-> "select", todo |-> {}, a |-> "none",
                    timer |-> IF due = {} THEN Never ELSE Earliest(due)]
  BY DEF Waiting
<1> HIDE DEF due
<1>3. CASE due = {}
  BY <1>2, <1>3 DEF Times, Never, Zero, due
<1>4. CASE due # {}
  <2>1. Earliest(due) \in Nat /\ \A x \in due : Earliest(due) <= x
    BY <1>1, <1>4, EarliestOfTimes
  <2>2. \A a \in Refreshables : h[a] # Never => h[a] \in due
    BY DEF due
  <2> QED
    BY <1>2, <1>4, <2>1, <2>2 DEF Times, Never, Zero
<1> QED
  BY <1>3, <1>4

\* A credential just registered, and one removed, are records; the new one is born next.
LEMMA NewType ==
  ASSUME Configured, TypeOK, NEW a \in Refreshables
  PROVE  /\ New(a) \in Records /\ New(a).there /\ New(a).token = 0
         /\ New(a).born = events + 1 /\ Gone \in Records /\ ~Gone.there /\ Gone.born = 0
<1>1. kind[a].life \in Nat /\ now \in Nat /\ events \in Nat
  BY KindType DEF TypeOK
<1> DEFINE e == IF kind[a].life = 0 THEN Zero ELSE now + kind[a].life
<1>2. e \in Times /\ Zero \in Times
  BY <1>1 DEF Times, Zero
<1>3. New(a) = [Gone EXCEPT !.there = TRUE, !.born = events + 1, !.expiry = e]
  BY DEF New
<1> HIDE DEF e
<1>4. Gone \in Records /\ ~Gone.there /\ Gone.token = 0 /\ Gone.born = 0
  BY <1>2 DEF Gone, Records
<1>5. New(a) \in Records /\ New(a).there /\ New(a).token = 0 /\ New(a).born = events + 1
  <2>1. events + 1 \in Nat
    BY <1>1
  <2>2. New(a) = [there |-> TRUE, token |-> 0, last |-> Zero, next |-> Zero, expiry |-> e,
                 refused |-> FALSE, born |-> events + 1]
    BY <1>3 DEF Gone
  <2> QED
    BY <1>2, <2>1, <2>2 DEF Records
<1> QED
  BY <1>4, <1>5

\* A refresh leaves a record of the same credential.
LEMMA RefreshedType ==
  ASSUME Configured, TypeOK, NEW a \in Refreshables, NEW token \in Nat
  PROVE  /\ Refreshed(a, token) \in Records
         /\ Refreshed(a, token).there = auth[a].there
         /\ Refreshed(a, token).born = auth[a].born
<1> DEFINE x == [auth[a] EXCEPT !.token = token, !.last = now, !.next = Zero, !.refused = FALSE,
                   !.expiry = IF token = auth[a].token \/ kind[a].life = 0 THEN @
                              ELSE now + kind[a].life]
<1>1. kind[a].life \in Nat /\ now \in Nat /\ auth[a] \in Records
  BY KindType DEF TypeOK
<1> DEFINE e == IF token = auth[a].token \/ kind[a].life = 0 THEN auth[a].expiry
                ELSE now + kind[a].life
<1>6. e \in Times /\ now \in Times /\ Zero \in Times
  BY <1>1 DEF Records, Times
<1>7. x = [auth[a] EXCEPT !.token = token, !.last = now, !.next = Zero, !.refused = FALSE, !.expiry = e]
  BY <1>1 DEF Records
<1>2. x \in Records /\ x.there = auth[a].there /\ x.born = auth[a].born
  <2> HIDE DEF x, e
  <2> QED
    BY <1>1, <1>6, <1>7 DEF Records
<1>3. Refreshed(a, token) = IF ShouldRefresh(x, a) THEN [x EXCEPT !.next = now + IneffectiveBackoff] ELSE x
  BY DEF Refreshed
<1> HIDE DEF x
<1>4. [x EXCEPT !.next = now + IneffectiveBackoff] \in Records
  BY <1>1, <1>2 DEF Records, Times, Configured
<1>5. [x EXCEPT !.next = now + IneffectiveBackoff].there = x.there
      /\ [x EXCEPT !.next = now + IneffectiveBackoff].born = x.born
  BY <1>2 DEF Records
<1> QED
  BY <1>2, <1>3, <1>4, <1>5

-----------------------------------------------------------------------------
\* Types hold at the start.
LEMMA TypeInit == Configured /\ Init => TypeOK
<1> SUFFICES ASSUME Configured, Init PROVE TypeOK
  OBVIOUS
<1>1. kind \in [Refreshables -> Kinds] /\ now = 0 /\ events = 0
  BY DEF Init
<1>2. \A a \in Refreshables : kind[a].life \in Nat
  BY <1>1 DEF Configured
<1>3. auth \in [Refreshables -> Records]
  BY <1>2 DEF Init, Gone, Records, Times, Zero
<1>4. heap \in [Refreshables -> Times] /\ dirty = {} /\ wake = FALSE /\ jobs = <<>>
      /\ lock \in [Refreshables -> SUBSET Threads]
  BY DEF Init, Times, Never, Zero
<1>5. loop = [pc |-> "rebuild", todo |-> {}, a |-> "none", timer |-> Never]
  BY DEF Init
<1>6. work \in [Threads -> Works] /\ \A t \in Threads : work[t].pc = "idle"
  BY RestingType DEF Init
<1>7. loop \in [pc : {"rebuild"}, todo : SUBSET Refreshables, a : {"none"}, timer : Times]
  BY <1>5 DEF Times, Never, Zero
<1>8. jobs \in Seq(Refreshables)
  BY <1>4
<1> QED
  BY <1>1, <1>3, <1>4, <1>6, <1>7, <1>8 DEF TypeOK

\* The loop's steps.
LEMMA LoopKeepsType ==
  ASSUME Configured, TypeOK, Loop
  PROVE  TypeOK'
<1>1. \A a \in Refreshables : auth[a] \in Records /\ NextCheck(auth[a], a) \in Times
  BY NextCheckType DEF TypeOK
<1>2. \A h \in [Refreshables -> Times] :
         Waiting(h) \in [pc : {"select"}, todo : {{}}, a : {"none"}, timer : Times]
  BY WaitingType
<1>3. Never \in Times
  BY DEF Times, Never, Zero
<1>4. CASE Rebuild
  <2>1. heap' \in [Refreshables -> Times] /\ loop' = Waiting(heap')
    BY <1>1, <1>4 DEF Rebuild
  <2> QED
    BY <1>2, <1>4, <2>1 DEF Rebuild, TypeOK
<1>5. CASE Woken
  BY <1>5 DEF Woken, TypeOK
<1>6. CASE DirtyDone
  BY <1>2, <1>6 DEF DirtyDone, TypeOK
<1>7. CASE TimerExpires
  <2> DEFINE due == {a \in Refreshables : heap[a] # Never /\ heap[a] <= now}
  <2>1. /\ loop' = [loop EXCEPT !.pc = "due", !.todo = due, !.timer = Never]
        /\ heap' = [a \in Refreshables |-> IF a \in due THEN Never ELSE heap[a]]
    BY <1>7 DEF TimerExpires
  <2>2. due \subseteq Refreshables
    OBVIOUS
  <2> HIDE DEF due
  <2>3. heap' \in [Refreshables -> Times]
    BY <1>3, <2>1 DEF TypeOK
  <2>4. loop' \in [pc : {"due"}, todo : SUBSET Refreshables,
                   a : Refreshables \cup {"none"}, timer : Times]
    BY <1>3, <2>1, <2>2 DEF TypeOK
  <2>5. UNCHANGED <<kind, auth, dirty, wake, jobs, work, lock, now, events>>
    BY <1>7 DEF TimerExpires
  <2> QED
    BY <2>3, <2>4, <2>5 DEF TypeOK
<1>8. CASE MarkPending
  <2>1. loop.a \in Refreshables
    BY <1>8 DEF MarkPending, TypeOK
  <2>2. CASE auth[loop.a].there /\ now >= auth[loop.a].next
    <3>1. now + PendingBackoff \in Times
      BY DEF Configured, TypeOK, Times
    <3>2. auth' = [auth EXCEPT ![loop.a].next = now + PendingBackoff]
      BY <1>8, <2>2 DEF MarkPending
    <3>3. auth' \in [Refreshables -> Records]
      <4> DEFINE r == [auth[loop.a] EXCEPT !.next = now + PendingBackoff]
      <4>0. auth[loop.a] \in Records
        BY <2>1 DEF TypeOK
      <4>1. r \in Records
        BY <3>1, <4>0 DEF Records
      <4>2. auth' = [auth EXCEPT ![loop.a] = r]
        BY <3>2
      <4> HIDE DEF r
      <4> QED
        BY <2>1, <4>1, <4>2 DEF TypeOK
    <3> QED
      BY <1>8, <2>1, <2>2, <3>3 DEF MarkPending, Reschedule, TypeOK
  <2>3. CASE ~(auth[loop.a].there /\ now >= auth[loop.a].next)
    BY <1>1, <1>8, <2>1, <2>3 DEF MarkPending, Put, TypeOK
  <2> QED
    BY <2>2, <2>3
<1>9. CASE SendJob
  <2>1. loop.a \in Refreshables
    BY <1>9 DEF SendJob, TypeOK
  <2>2. jobs' \in Seq(Refreshables)
    BY <1>9, <2>1 DEF SendJob, TypeOK
  <2> QED
    BY <1>9, <2>1, <2>2 DEF SendJob, TypeOK
<1>10. CASE DueDone
  BY <1>10 DEF DueDone, TypeOK
<1>11. ASSUME NEW a \in Refreshables, ApplyDirty(a) PROVE TypeOK'
  BY <1>1, <1>11 DEF ApplyDirty, Put, TypeOK
<1>12. ASSUME NEW a \in Refreshables, HandleDue(a) PROVE TypeOK'
  <2>1. heap' \in [Refreshables -> Times]
    <3>1. heap' = heap \/ heap' = [heap EXCEPT ![a] = NextCheck(auth[a], a)]
      BY <1>12 DEF HandleDue, Put
    <3>2. heap \in [Refreshables -> Times] /\ NextCheck(auth[a], a) \in Times
      BY <1>1 DEF TypeOK
    <3> QED
      BY <3>1, <3>2
  <2>2. loop' \in [pc : {"due", "mark"}, todo : SUBSET Refreshables,
                   a : Refreshables \cup {"none"}, timer : Times]
        /\ (loop'.pc = "mark" => loop'.a = a)
    <3>1. /\ loop \in [pc : {"rebuild", "select", "dirty", "due", "mark", "send"},
                       todo : SUBSET Refreshables, a : Refreshables \cup {"none"}, timer : Times]
          /\ loop.pc = "due"
      BY <1>12 DEF HandleDue, TypeOK
    <3>2. \/ loop' = [loop EXCEPT !.pc = "mark", !.a = a, !.todo = loop.todo \ {a}]
          \/ loop' = [loop EXCEPT !.todo = loop.todo \ {a}]
      BY <1>12 DEF HandleDue
    <3> QED
      BY <3>1, <3>2
  <2>3. UNCHANGED <<kind, auth, dirty, wake, jobs, work, lock, now, events>>
    BY <1>12 DEF HandleDue
  <2> QED
    BY <2>1, <2>2, <2>3 DEF TypeOK
<1> QED
  BY <1>4, <1>5, <1>6, <1>7, <1>8, <1>9, <1>10, <1>11, <1>12 DEF Loop

\* What happens to a goroutine that changes to a work of its own.
LEMMA WorkType ==
  ASSUME TypeOK, NEW t \in Threads, NEW w \in Works,
         w.pc # "idle" => w.a \in Refreshables, work' = [work EXCEPT ![t] = w]
  PROVE  /\ work' \in [Threads -> Works]
         /\ \A u \in Threads : work'[u].pc # "idle" => work'[u].a \in Refreshables
  BY DEF TypeOK

\* A goroutine that is done with a refresh rests, or is a worker after it.
LEMMA OverType ==
  ASSUME TypeOK, NEW t \in Threads, work[t].pc # "idle"
  PROVE  /\ Over(t) \in Works /\ Over(t).pc \in {"idle", "after"}
         /\ Over(t).pc = "after" => Over(t).a = work[t].a
         /\ work[t].a \in Refreshables
  BY RestingType DEF Over, TypeOK, Works

\* The steps of workers and of requests that refresh.
LEMMA ThreadKeepsType ==
  ASSUME Configured, TypeOK, NEW t \in Threads, Thread(t)
  PROVE  TypeOK'
<1> DEFINE a == work[t].a
<1>1. CASE Takes(t)
  <2> DEFINE w == [Resting EXCEPT !.pc = "lock", !.a = Head(jobs)]
  <2>1. Head(jobs) \in Refreshables /\ jobs' \in Seq(Refreshables)
    BY <1>1 DEF Takes, TypeOK
  <2>2. w \in Works /\ w.a = Head(jobs)
    BY <2>1 DEF Resting, Works
  <2>3. work' = [work EXCEPT ![t] = w]
    BY <1>1 DEF Takes
  <2> HIDE DEF w
  <2>4. /\ work' \in [Threads -> Works]
        /\ \A u \in Threads : work'[u].pc # "idle" => work'[u].a \in Refreshables
    BY <2>1, <2>2, <2>3, WorkType
  <2> QED
    BY <1>1, <2>1, <2>4 DEF Takes, TypeOK
<1>2. CASE Locks(t)
  <2>1. work[t].pc = "lock" /\ Read(t)
    BY <1>2 DEF Locks
  <2>2. a \in Refreshables /\ auth[a] \in Records
    BY <2>1 DEF TypeOK
  <2> DEFINE w == [work[t] EXCEPT !.pc = "refresh", !.from = auth[a].token, !.born = auth[a].born]
  <2>3. w \in Works /\ w.a = a
    <3>1. work[t] \in Works /\ auth[a].token \in Nat /\ auth[a].born \in Nat
      BY <2>2 DEF TypeOK, Records
    <3> QED
      BY <3>1 DEF Works
  <2>4. \/ work' = [work EXCEPT ![t] = Over(t)] /\ lock' = lock
        \/ work' = [work EXCEPT ![t] = w] /\ lock' = [lock EXCEPT ![a] = @ \union {t}]
    BY <2>1 DEF Read, TypeOK
  <2> HIDE DEF w
  <2>5. /\ work' \in [Threads -> Works]
        /\ \A u \in Threads : work'[u].pc # "idle" => work'[u].a \in Refreshables
    BY <2>1, <2>2, <2>3, <2>4, WorkType, OverType
  <2>6. lock' \in [Refreshables -> SUBSET Threads]
    BY <2>2, <2>4 DEF TypeOK
  <2> QED
    BY <1>2, <2>5, <2>6 DEF Locks, TypeOK
<1>3. CASE RefreshFails(t)
  <2>1. work[t].pc = "refresh" /\ a \in Refreshables /\ auth[a] \in Records
    BY <1>3 DEF RefreshFails, TypeOK
  <2>2. /\ work' \in [Threads -> Works]
        /\ \A u \in Threads : work'[u].pc # "idle" => work'[u].a \in Refreshables
    BY <1>3, <2>1, WorkType, OverType DEF RefreshFails
  <2>3. lock' \in [Refreshables -> SUBSET Threads]
    BY <1>3, <2>1 DEF RefreshFails, Unlock, TypeOK
  <2>4. Zero \in Times /\ now + FailureBackoff \in Times
    BY DEF Configured, TypeOK, Times
  <2>5. auth' \in [Refreshables -> Records]
    <3> DEFINE refused == [auth[a] EXCEPT !.next = Zero, !.refused = TRUE]
               failed == [auth[a] EXCEPT !.next = now + FailureBackoff, !.refused = FALSE]
    <3>1. refused \in Records /\ failed \in Records
      BY <2>1, <2>4 DEF Records
    <3>2. auth' = auth \/ auth' = [auth EXCEPT ![a] = refused] \/ auth' = [auth EXCEPT ![a] = failed]
      BY <1>3, <2>1 DEF RefreshFails, TypeOK, Records
    <3> HIDE DEF refused, failed
    <3> QED
      BY <2>1, <3>1, <3>2 DEF TypeOK
  <2>6. dirty' \in SUBSET Refreshables /\ wake' \in BOOLEAN
    BY <1>3, <2>1 DEF RefreshFails, Reschedule, TypeOK
  <2> QED
    BY <1>3, <2>2, <2>3, <2>5, <2>6 DEF RefreshFails, TypeOK
<1>4. CASE RefreshSucceeds(t)
  <2>1. work[t].pc = "refresh" /\ a \in Refreshables /\ auth[a] \in Records /\ work[t].from \in Nat
    BY <1>4 DEF RefreshSucceeds, TypeOK, Works
  <2>2. /\ work' \in [Threads -> Works]
        /\ \A u \in Threads : work'[u].pc # "idle" => work'[u].a \in Refreshables
    BY <1>4, <2>1, WorkType, OverType DEF RefreshSucceeds
  <2>3. lock' \in [Refreshables -> SUBSET Threads]
    BY <1>4, <2>1 DEF RefreshSucceeds, Unlock, TypeOK
  <2>4. PICK token \in {work[t].from, work[t].from + 1} :
           auth' = IF auth[a].there THEN [auth EXCEPT ![a] = Refreshed(a, token)] ELSE auth
    BY <1>4 DEF RefreshSucceeds
  <2>5. Refreshed(a, token) \in Records
    BY <2>1, RefreshedType
  <2>6. auth' \in [Refreshables -> Records]
    BY <2>1, <2>4, <2>5 DEF TypeOK
  <2>7. dirty' \in SUBSET Refreshables /\ wake' \in BOOLEAN
    BY <1>4, <2>1, ZenonT(30) DEF RefreshSucceeds, Reschedule, TypeOK
  <2> QED
    BY <1>4, <2>2, <2>3, <2>6, <2>7 DEF RefreshSucceeds, TypeOK
<1>5. CASE WorkerDone(t)
  <2>1. a \in Refreshables
    BY <1>5 DEF WorkerDone, TypeOK
  <2>2. /\ work' \in [Threads -> Works]
        /\ \A u \in Threads : work'[u].pc # "idle" => work'[u].a \in Refreshables
    BY <1>5, WorkType, RestingType DEF WorkerDone
  <2> QED
    BY <1>5, <2>1, <2>2 DEF WorkerDone, Reschedule, TypeOK
<1> QED
  BY <1>1, <1>2, <1>3, <1>4, <1>5 DEF Thread

\* The manager's: results, registrations, removals.
LEMMA ManagerKeepsType ==
  ASSUME Configured, TypeOK, Manager
  PROVE  TypeOK'
<1>1. ASSUME NEW a \in Refreshables, Result(a) PROVE TypeOK'
  <2>1. auth' \in [Refreshables -> Records]
    BY <1>1, ZenonT(30) DEF Result, TypeOK, Records
  <2> QED
    BY <1>1, <2>1 DEF Result, TypeOK
<1>2. ASSUME NEW a \in Refreshables, Remove(a) PROVE TypeOK'
  BY <1>2, NewType DEF Remove, TypeOK
<1>3. ASSUME NEW a \in Refreshables, Unschedule(a) PROVE TypeOK'
  BY <1>3 DEF Unschedule, Put, TypeOK, Times, Never, Zero
<1>4. ASSUME NEW a \in Refreshables, Register(a) PROVE TypeOK'
  BY <1>4, NewType DEF Register, Reschedule, TypeOK
<1>5. ASSUME NEW c \in Callers, NEW a \in Refreshables, Unauthorized(c, a) PROVE TypeOK'
  <2> DEFINE w == [Resting EXCEPT !.pc = "lock", !.a = a, !.failed = auth[a].token + 1]
  <2>0. auth[a].token + 1 \in Nat
    BY DEF TypeOK, Records
  <2>1. w \in Works /\ w.a = a
    BY <2>0 DEF Resting, Works
  <2>2. work' = [work EXCEPT ![c] = w] /\ c \in Threads
    BY <1>5 DEF Unauthorized, Threads
  <2> HIDE DEF w
  <2>3. /\ work' \in [Threads -> Works]
        /\ \A u \in Threads : work'[u].pc # "idle" => work'[u].a \in Refreshables
    BY <2>1, <2>2, WorkType
  <2> QED
    BY <1>5, <2>3 DEF Unauthorized, TypeOK
<1> QED
  BY <1>1, <1>2, <1>3, <1>4, <1>5 DEF Manager

\* Every step keeps the types.
LEMMA TypeStep == Configured /\ TypeOK /\ [Next]_vars => TypeOK'
<1> SUFFICES ASSUME Configured, TypeOK, [Next]_vars PROVE TypeOK'
  OBVIOUS
<1>1. CASE Tick
  BY <1>1 DEF Tick, TypeOK
<1>2. CASE UNCHANGED vars
  BY <1>2 DEF vars, TypeOK
<1> QED
  BY <1>1, <1>2, LoopKeepsType, ThreadKeepsType, ManagerKeepsType DEF Next

\* They hold in every behaviour.
LEMMA Types == Configured => (Spec => []TypeOK)
<1> SUFFICES ASSUME Configured PROVE Spec => []TypeOK
  OBVIOUS
<1> QED
  BY TypeInit, TypeStep, PTL DEF Spec

-----------------------------------------------------------------------------
\* While the loop sleeps its timer is the earliest due time, and what is due
\* now is refreshed when the loop looks at it.
TimerInv ==
    loop.pc = "select" =>
        \A a \in Refreshables : heap[a] # Never => loop.timer # Never /\ loop.timer <= heap[a]

\* Only the loop changes the queue, and it sets its timer before it sleeps.
LEMMA TimerStep == Configured /\ TypeOK /\ TimerInv /\ [Next]_vars => TimerInv'
<1> SUFFICES ASSUME Configured, TypeOK, TimerInv, [Next]_vars, loop'.pc = "select"
             PROVE  \A a \in Refreshables : heap'[a] # Never =>
                       loop'.timer # Never /\ loop'.timer <= heap'[a]
  BY DEF TimerInv
<1>1. TypeOK'
  BY TypeStep
<1>2. CASE Rebuild \/ DirtyDone
  <2>1. loop' = Waiting(heap') /\ heap' \in [Refreshables -> Times]
    BY <1>1, <1>2 DEF Rebuild, DirtyDone, TypeOK
  <2> QED
    BY <2>1, WaitingType
<1>3. CASE loop' = loop /\ heap' = heap
  BY <1>3 DEF TimerInv
<1>4. ASSUME NEW a \in Refreshables, Unschedule(a) PROVE TimerInv'
  BY <1>4 DEF Unschedule, Put, TimerInv, TypeOK
<1>5. CASE Woken \/ TimerExpires \/ MarkPending \/ SendJob \/ DueDone
  BY <1>5 DEF Woken, TimerExpires, MarkPending, SendJob, DueDone, TypeOK
<1>6. ASSUME NEW a \in Refreshables, ApplyDirty(a) \/ HandleDue(a) PROVE FALSE
  BY <1>6 DEF ApplyDirty, HandleDue, TypeOK
<1>7. ASSUME NEW t \in Threads, Thread(t) PROVE loop' = loop /\ heap' = heap
  BY <1>7 DEF Thread, Takes, Locks, Read, RefreshFails, RefreshSucceeds, WorkerDone
<1>8. ASSUME NEW a \in Refreshables,
             Result(a) \/ Remove(a) \/ Register(a) \/ \E c \in Callers : Unauthorized(c, a)
      PROVE  loop' = loop /\ heap' = heap
  BY <1>8 DEF Result, Remove, Register, Unauthorized
<1>9. CASE Tick \/ UNCHANGED vars
  BY <1>9, <1>3 DEF Tick, vars
<1> QED
  BY <1>2, <1>3, <1>4, <1>5, <1>6, <1>7, <1>8, <1>9 DEF Next, Loop, Manager, TimerInv

\* auto_refresh_loop.go: the timer never sleeps past a due credential, and the
\* queue and the loop agree on what is due.
THEOREM TimerRight == Configured => (Spec => []TimerIsRight)
<1> SUFFICES ASSUME Configured PROVE Spec => []TimerIsRight
  OBVIOUS
<1>1. Init => TimerInv
  BY DEF Init, TimerInv
<1>2. TypeOK /\ TimerInv => TimerIsRight
  BY NextCheckType DEF TimerIsRight, TimerInv, TypeOK
<1> QED
  BY <1>1, <1>2, TimerStep, Types, PTL DEF Spec

-----------------------------------------------------------------------------
\* A refresh holds the lock of its credential, alone, and knows a credential
\* that was registered before.
LockInv ==
    /\ \A t \in Threads : work[t].pc = "refresh" => lock[work[t].a] = {t}
    /\ \A a \in Refreshables, t \in Threads :
          t \in lock[a] => work[t].pc = "refresh" /\ work[t].a = a
    /\ \A t \in Threads : work[t].pc = "refresh" => work[t].born <= events
    /\ \A a \in Refreshables : auth[a].born <= events

ChainInv == LockInv /\ TokensChain

\* Steps of the loop and of time leave alone what refreshes go by.
LEMMA LoopKeepsChain ==
  ASSUME Configured, TypeOK, ChainInv, Loop \/ Tick \/ UNCHANGED vars
  PROVE  ChainInv'
<1>1. work' = work /\ lock' = lock /\ events' = events
  BY DEF Loop, Rebuild, Woken, DirtyDone, TimerExpires, MarkPending, SendJob, DueDone, ApplyDirty,
     HandleDue, Tick, vars
<1>2. \A a \in Refreshables : auth'[a].token = auth[a].token /\ auth'[a].there = auth[a].there
                              /\ auth'[a].born = auth[a].born
  <2>1. CASE MarkPending
    <3>1. auth' = auth \/ auth' = [auth EXCEPT ![loop.a] =
                                     [auth[loop.a] EXCEPT !.next = now + PendingBackoff]]
      BY <2>1 DEF MarkPending
    <3>2. auth \in [Refreshables -> Records]
      BY DEF TypeOK
    <3> QED
      BY <3>1, <3>2 DEF Records
  <2>2. CASE ~MarkPending
    BY <2>2 DEF Loop, Rebuild, Woken, DirtyDone, TimerExpires, SendJob, DueDone, ApplyDirty,
       HandleDue, Tick, vars
  <2> QED
    BY <2>1, <2>2
<1> QED
  BY <1>1, <1>2 DEF ChainInv, LockInv, TokensChain, TypeOK

\* Nor do those of a goroutine that neither refreshes nor begins to.
LEMMA OthersKeepChain ==
  ASSUME TypeOK, ChainInv, NEW t \in Threads, \A u \in Threads : u # t => work'[u] = work[u],
         work[t].pc # "refresh", work'[t].pc # "refresh",
         UNCHANGED <<auth, lock>>, events' \in {events, events + 1}
  PROVE  ChainInv'
<1>1. \A u \in Threads : work'[u].pc = "refresh" => work'[u] = work[u]
  OBVIOUS
<1>2. /\ \A u \in Threads : work[u].born \in Nat
      /\ \A a \in Refreshables : auth[a].born \in Nat
      /\ events \in Nat
  BY DEF TypeOK, Works, Records
<1>3. \A u \in Threads : work'[u].pc = "refresh" =>
          lock'[work'[u].a] = {u} /\ work'[u].born <= events'
  BY <1>1, <1>2 DEF ChainInv, LockInv
<1>4. \A a \in Refreshables, u \in Threads :
          u \in lock'[a] => work'[u].pc = "refresh" /\ work'[u].a = a
  BY DEF ChainInv, LockInv
<1>5. \A a \in Refreshables : auth'[a].born <= events'
  BY <1>2 DEF ChainInv, LockInv
<1>6. TokensChain'
  BY <1>1 DEF ChainInv, TokensChain
<1> QED
  BY <1>3, <1>4, <1>5, <1>6 DEF ChainInv, LockInv

\* A refresh holds its credential's lock from reading the token to storing the next.
LEMMA ThreadKeepsChain ==
  ASSUME Configured, TypeOK, ChainInv, NEW t \in Threads, Thread(t)
  PROVE  ChainInv'
<1> DEFINE a == work[t].a
<1> USE DEF ChainInv, LockInv, TokensChain
<1>1. CASE Takes(t)
  <2>1. /\ \A u \in Threads : u # t => work'[u] = work[u]
        /\ work'[t].pc = "lock" /\ work[t].pc = "idle"
        /\ UNCHANGED <<auth, lock, events>>
    BY <1>1 DEF Takes, TypeOK, Resting
  <2> QED
    BY <2>1, OthersKeepChain
<1>2. CASE WorkerDone(t)
  <2>1. /\ \A u \in Threads : u # t => work'[u] = work[u]
        /\ work'[t].pc = "idle" /\ work[t].pc = "after"
        /\ UNCHANGED <<auth, lock, events>>
    BY <1>2 DEF WorkerDone, TypeOK, Resting
  <2> QED
    BY <2>1, OthersKeepChain
<1>3. CASE Locks(t)
  <2>1. work[t].pc = "lock" /\ a \in Refreshables /\ lock[a] = {} /\ UNCHANGED <<auth, events>>
    BY <1>3 DEF Locks, TypeOK
  <2>2. \A u \in Threads : u # t => work'[u] = work[u]
    BY <1>3 DEF Locks, Read, TypeOK
  <2>3. \/ work'[t] = Over(t) /\ lock' = lock
        \/ /\ work'[t].pc = "refresh" /\ work'[t].a = a
           /\ work'[t].from = auth[a].token /\ work'[t].born = auth[a].born
           /\ lock' = [lock EXCEPT ![a] = {t}]
    BY <1>3, <2>1 DEF Locks, Read, TypeOK, Works
  <2>4. CASE work'[t] = Over(t) /\ lock' = lock
    <3>1. work'[t].pc # "refresh"
      BY <2>1, <2>4, OverType
    <3> QED
      BY <2>1, <2>2, <2>4, <3>1, OthersKeepChain
  <2>5. CASE ~(work'[t] = Over(t) /\ lock' = lock)
    <3>1. /\ work'[t].pc = "refresh" /\ work'[t].a = a
          /\ work'[t].from = auth[a].token /\ work'[t].born = auth[a].born
          /\ lock' = [lock EXCEPT ![a] = {t}]
      BY <2>3, <2>5
    <3>2. \A u \in Threads : u # t /\ work[u].pc = "refresh" => work[u].a # a
      BY <2>1
    <3>3. \A b \in Refreshables : lock'[b] = IF b = a THEN {t} ELSE lock[b]
      BY <3>1 DEF TypeOK
    <3>4. \A u \in Threads : work'[u].pc = "refresh" =>
              lock'[work'[u].a] = {u} /\ work'[u].born <= events'
      BY <2>1, <2>2, <3>1, <3>2, <3>3 DEF TypeOK
    <3>5. \A b \in Refreshables, u \in Threads :
              u \in lock'[b] => work'[u].pc = "refresh" /\ work'[u].a = b
      BY <2>1, <2>2, <3>1, <3>3
    <3>6. TokensChain'
      BY <2>1, <2>2, <3>1
    <3> QED
      BY <2>1, <3>4, <3>5, <3>6
  <2> QED
    BY <2>4, <2>5
<1>4. CASE RefreshFails(t) \/ RefreshSucceeds(t)
  <2>1. work[t].pc = "refresh" /\ a \in Refreshables /\ events' = events
    BY <1>4 DEF RefreshFails, RefreshSucceeds, TypeOK
  <2>2. (\A u \in Threads : u # t => work'[u] = work[u]) /\ work'[t] = Over(t)
    BY <1>4 DEF RefreshFails, RefreshSucceeds, TypeOK
  <2>3. lock' = [lock EXCEPT ![a] = {}]
    BY <1>4, <2>1 DEF RefreshFails, RefreshSucceeds, Unlock, TypeOK
  <2>4. \A b \in Refreshables : /\ b # a => auth'[b] = auth[b]
                                /\ auth'[b].born = auth[b].born
    <3>1. CASE RefreshFails(t)
      <4> DEFINE refused == [auth[a] EXCEPT !.next = Zero, !.refused = TRUE]
                 failed == [auth[a] EXCEPT !.next = now + FailureBackoff, !.refused = FALSE]
      <4>1. auth' = auth \/ auth' = [auth EXCEPT ![a] = refused]
            \/ auth' = [auth EXCEPT ![a] = failed]
        BY <2>1, <3>1 DEF RefreshFails, TypeOK, Records
      <4>2. refused.born = auth[a].born /\ failed.born = auth[a].born
        BY <2>1 DEF TypeOK, Records
      <4> HIDE DEF refused, failed
      <4> QED
        BY <2>1, <4>1, <4>2 DEF TypeOK
    <3>2. CASE RefreshSucceeds(t)
      <4>1. PICK token \in {work[t].from, work[t].from + 1} :
               auth' = IF auth[a].there THEN [auth EXCEPT ![a] = Refreshed(a, token)] ELSE auth
        BY <3>2 DEF RefreshSucceeds
      <4>2. token \in Nat
        BY <4>1 DEF TypeOK, Works
      <4>3. Refreshed(a, token).born = auth[a].born
        BY <2>1, <4>2, RefreshedType
      <4> QED
        BY <2>1, <4>1, <4>3 DEF TypeOK
    <3> QED
      BY <1>4, <3>1, <3>2
  <2>5. Over(t).pc # "refresh"
    BY <2>1, OverType
  <2>6. \A u \in Threads : u # t /\ work[u].pc = "refresh" => work[u].a # a
    BY <2>1
  <2> QED
    BY <2>1, <2>2, <2>3, <2>4, <2>5, <2>6 DEF TypeOK
<1> QED
  BY <1>1, <1>2, <1>3, <1>4 DEF Thread

\* Results keep tokens, and a credential registered anew is a different one.
LEMMA ManagerKeepsChain ==
  ASSUME Configured, TypeOK, ChainInv, Manager
  PROVE  ChainInv'
<1> USE DEF ChainInv, LockInv, TokensChain
<1>0. events \in Nat /\ \A a \in Refreshables : auth[a] \in Records
  BY DEF TypeOK
<1>1. ASSUME NEW a \in Refreshables, Result(a) PROVE ChainInv'
  <2>1. /\ \A b \in Refreshables : auth'[b].born = auth[b].born /\ auth'[b].token = auth[b].token
                                   /\ auth'[b].there = auth[b].there
        /\ UNCHANGED <<work, lock>> /\ events' = events + 1
    BY <1>1 DEF Result, TypeOK, Records
  <2>2. \A t \in Threads : work[t].born \in Nat
    BY DEF TypeOK, Works
  <2>3. \A b \in Refreshables : auth[b].born \in Nat
    BY <1>0 DEF Records
  <2> QED
    BY <1>0, <2>1, <2>2, <2>3 DEF TypeOK
<1>2. ASSUME NEW a \in Refreshables, Remove(a) \/ Register(a) PROVE ChainInv'
  <2>1. UNCHANGED <<work, lock>> /\ events' = events + 1
    BY <1>2 DEF Remove, Register
  <2>2. \A b \in Refreshables : b # a => auth'[b] = auth[b]
    BY <1>2 DEF Remove, Register, TypeOK
  <2>3. \/ ~auth'[a].there /\ auth'[a].born = 0
        \/ auth'[a].born = events + 1
    BY <1>2, NewType DEF Remove, Register, TypeOK
  <2>4. \A t \in Threads : work[t].born \in Nat
    BY DEF TypeOK, Works
  <2>5. \A b \in Refreshables : auth[b].born \in Nat
    BY <1>0 DEF Records
  <2>6. \A t \in Threads : work[t].pc = "refresh" => work[t].a \in Refreshables
    BY DEF TypeOK
  <2>7. LockInv'
    BY <1>0, <2>1, <2>2, <2>3, <2>4, <2>5
  <2>8. TokensChain'
    <3>1. \A t \in Threads : work[t].pc = "refresh" => work[t].born <= events
      BY DEF ChainInv
    <3> QED
      BY <1>0, <2>1, <2>2, <2>3, <2>4, <2>6, <3>1
  <2> QED
    BY <2>7, <2>8
<1>3. ASSUME NEW a \in Refreshables, Unschedule(a) PROVE ChainInv'
  BY <1>3 DEF Unschedule, TypeOK
<1>4. ASSUME NEW c \in Callers, NEW a \in Refreshables, Unauthorized(c, a) PROVE ChainInv'
  <2>1. c \in Threads /\ work[c].pc = "idle" /\ work'[c].pc = "lock"
        /\ \A u \in Threads : u # c => work'[u] = work[u]
    BY <1>4 DEF Unauthorized, Threads, TypeOK, Resting
  <2>2. UNCHANGED <<auth, lock>> /\ events' = events + 1
    BY <1>4 DEF Unauthorized
  <2> QED
    BY <2>1, <2>2, OthersKeepChain
<1> QED
  BY <1>1, <1>2, <1>3, <1>4 DEF Manager

\* conductor.go, refreshAuthForRequest: refreshes of a credential follow each
\* other, each from the token the one before left, by worker or by request.
THEOREM TokensFollow == Configured => (Spec => []TokensChain)
<1> SUFFICES ASSUME Configured PROVE Spec => []TokensChain
  OBVIOUS
<1>1. Init => ChainInv
  <2> SUFFICES ASSUME Init PROVE ChainInv
    OBVIOUS
  <2>1. \A t \in Threads : work[t].pc = "idle"
    BY DEF Init, Resting
  <2>2. \A a \in Refreshables : lock[a] = {} /\ auth[a].born = 0
    BY DEF Init, Gone
  <2>3. events = 0
    BY DEF Init
  <2> QED
    BY <2>1, <2>2, <2>3 DEF ChainInv, LockInv, TokensChain
<1>2. TypeOK /\ ChainInv /\ [Next]_vars => ChainInv'
  BY LoopKeepsChain, ThreadKeepsChain, ManagerKeepsChain DEF Next
<1>3. ChainInv => TokensChain
  BY DEF ChainInv
<1> QED
  BY <1>1, <1>2, <1>3, Types, PTL DEF Spec

-----------------------------------------------------------------------------
\* What has to be scheduled, and was not wiped out by a success, is in hand.
HandInv == \A a \in Refreshables : Schedulable(auth[a], a) /\ a \notin lost => InHand(a)

\* Whoever asks for a credential to be scheduled anew has it in hand.
LEMMA RescheduledInHand ==
  ASSUME NEW a \in Refreshables, Reschedule(a)
  PROVE  InHand(a)'
  BY DEF Reschedule, InHand

\* Nothing is put down outside the loop but by workers.
LEMMA KeptInHand ==
  ASSUME heap' = heap, loop' = loop, jobs' = jobs, dirty \subseteq dirty', wake => wake',
         \A w \in RefreshWorkers : work[w].pc # "idle" => work'[w].pc # "idle" /\ work'[w].a = work[w].a,
         NEW a \in Refreshables, InHand(a)
  PROVE  InHand(a)'
  BY DEF InHand

\* A credential the step does not touch is scheduled and lost as before.
LEMMA SameCredential ==
  ASSUME HandInv, NEW a \in Refreshables, auth'[a] = auth[a], UNCHANGED <<kind, now>>,
         a \in lost => a \in lost', Schedulable(auth[a], a)', a \notin lost'
  PROVE  InHand(a)
  BY DEF HandInv, Schedulable

\* The loop puts a credential into its queue, or hands it to a worker, as it takes it.
LEMMA LoopKeepsHand ==
  ASSUME Configured, TypeOK, HandInv, Loop
  PROVE  HandInv'
<1> USE DEF Never, Zero
<1>0. /\ \A a \in Refreshables : NextCheck(auth[a], a) # Never <=> Schedulable(auth[a], a)
      /\ UNCHANGED <<kind, now, lost, work>>
  BY NextCheckType DEF TypeOK, Loop, Rebuild, Woken, DirtyDone, TimerExpires, MarkPending, SendJob,
     DueDone, ApplyDirty, HandleDue
<1> SUFFICES ASSUME NEW a \in Refreshables, Schedulable(auth[a], a)', a \notin lost'
             PROVE  InHand(a)'
  BY DEF HandInv
<1>1. ~MarkPending => InHand(a) /\ Schedulable(auth[a], a)
  <2> SUFFICES ASSUME ~MarkPending PROVE InHand(a) /\ Schedulable(auth[a], a)
    OBVIOUS
  <2>1. auth' = auth
    BY DEF Loop, Rebuild, Woken, DirtyDone, TimerExpires, SendJob, DueDone, ApplyDirty, HandleDue
  <2> QED
    BY <1>0, <2>1, SameCredential DEF Schedulable
<1>2. CASE Rebuild
  BY <1>0, <1>1, <1>2 DEF Rebuild, MarkPending, InHand
<1>3. CASE Woken
  <2>1. loop.pc = "select" /\ loop.todo = {} /\ loop'.todo = dirty /\ UNCHANGED <<heap, jobs, work>>
    BY <1>3 DEF Woken, TypeOK
  <2>2. InHand(a)
    BY <1>1, <2>1 DEF MarkPending
  <2> QED
    BY <2>1, <2>2 DEF InHand
<1>4. CASE DirtyDone
  <2>1. /\ loop.pc = "dirty" /\ loop.todo = {} /\ loop'.pc = "select"
        /\ UNCHANGED <<heap, jobs, work, dirty, wake>>
    BY <1>4 DEF DirtyDone, Waiting
  <2> QED
    BY <1>1, <2>1 DEF MarkPending, InHand
<1>5. CASE TimerExpires
  <2>1. /\ loop.pc = "select" /\ loop.todo = {} /\ loop'.pc = "due"
        /\ loop'.todo = {b \in Refreshables : heap[b] # Never /\ heap[b] <= now}
        /\ heap' = [b \in Refreshables |-> IF b \in loop'.todo THEN Never ELSE heap[b]]
        /\ UNCHANGED <<jobs, work, dirty, wake>>
    BY <1>5 DEF TimerExpires, TypeOK
  <2> QED
    BY <1>1, <2>1 DEF MarkPending, InHand
<1>6. CASE MarkPending
  <2>1. loop.pc = "mark" /\ loop.a \in Refreshables
    BY <1>6 DEF MarkPending, TypeOK
  <2>2. CASE auth[loop.a].there /\ now >= auth[loop.a].next
    <3>1. /\ auth' = [auth EXCEPT ![loop.a].next = now + PendingBackoff] /\ Reschedule(loop.a)
          /\ loop' = [loop EXCEPT !.pc = "send"] /\ UNCHANGED <<heap, jobs, work>>
      BY <1>6, <2>2 DEF MarkPending
    <3>2. CASE a = loop.a
      BY <3>1, <3>2, RescheduledInHand
    <3>3. CASE a # loop.a
      <4>1. InHand(a)
        BY <1>0, <3>1, <3>3, SameCredential DEF TypeOK
      <4> QED
        BY <2>1, <3>1, <3>3, <4>1 DEF InHand, Reschedule, TypeOK
    <3> QED
      BY <3>2, <3>3
  <2>3. CASE ~(auth[loop.a].there /\ now >= auth[loop.a].next)
    <3>1. /\ auth' = auth /\ heap' = [heap EXCEPT ![loop.a] = NextCheck(auth[loop.a], loop.a)]
          /\ loop' = [loop EXCEPT !.pc = "due"] /\ UNCHANGED <<dirty, wake, jobs, work>>
      BY <1>6, <2>3 DEF MarkPending, Put
    <3>2. InHand(a) /\ Schedulable(auth[a], a)
      BY <1>0, <3>1, SameCredential DEF Schedulable
    <3> QED
      BY <1>0, <2>1, <3>1, <3>2 DEF InHand, TypeOK
  <2> QED
    BY <2>2, <2>3
<1>7. CASE SendJob
  <2>1. /\ loop.pc = "send" /\ loop.a \in Refreshables /\ jobs' = Append(jobs, loop.a)
        /\ loop' = [loop EXCEPT !.pc = "due"] /\ UNCHANGED <<heap, dirty, wake, work>>
    BY <1>7 DEF SendJob, TypeOK
  <2>2. /\ \A i \in DOMAIN jobs : i \in DOMAIN jobs' /\ jobs'[i] = jobs[i]
        /\ Len(jobs) + 1 \in DOMAIN jobs' /\ jobs'[Len(jobs) + 1] = loop.a
    BY <2>1 DEF TypeOK
  <2> QED
    BY <1>1, <2>1, <2>2 DEF MarkPending, InHand, TypeOK
<1>8. CASE DueDone
  <2>1. /\ loop.pc = "due" /\ loop.todo = {} /\ loop'.pc = "dirty" /\ loop'.todo = dirty
        /\ UNCHANGED <<heap, jobs, work, wake>>
    BY <1>8 DEF DueDone, TypeOK
  <2> QED
    BY <1>1, <2>1 DEF MarkPending, InHand
<1>9. ASSUME NEW b \in Refreshables, ApplyDirty(b) PROVE InHand(a)'
  <2>1. /\ loop.pc = "dirty" /\ loop'.pc = "dirty" /\ loop'.todo = loop.todo \ {b}
        /\ heap' = [heap EXCEPT ![b] = NextCheck(auth[b], b)]
        /\ UNCHANGED <<dirty, wake, jobs, work>>
    BY <1>9 DEF ApplyDirty, Put, TypeOK
  <2> QED
    BY <1>0, <1>1, <2>1 DEF MarkPending, InHand, TypeOK
<1>10. ASSUME NEW b \in Refreshables, HandleDue(b) PROVE InHand(a)'
  <2>1. loop.pc = "due" /\ loop'.todo = loop.todo \ {b} /\ UNCHANGED <<dirty, wake, jobs, work>>
    BY <1>10 DEF HandleDue, TypeOK
  <2>2. InHand(a) /\ Schedulable(auth[a], a)
    BY <1>1, <2>1 DEF MarkPending
  <2>3. CASE ShouldRefresh(auth[b], b)
    <3>1. loop'.pc = "mark" /\ loop'.a = b /\ heap' = heap
      BY <1>10, <2>3 DEF HandleDue, TypeOK
    <3> QED
      BY <2>1, <2>2, <3>1 DEF InHand
  <2>4. CASE ~ShouldRefresh(auth[b], b)
    <3>1. /\ loop'.pc = "due"
          /\ heap' = IF auth[b].there THEN [heap EXCEPT ![b] = NextCheck(auth[b], b)] ELSE heap
      BY <1>10, <2>1, <2>4 DEF HandleDue, Put, TypeOK
    <3>2. a = b => auth[b].there
      BY <2>2 DEF Schedulable
    <3> QED
      BY <1>0, <2>1, <2>2, <3>1, <3>2 DEF InHand, TypeOK
  <2> QED
    BY <2>3, <2>4
<1> QED
  BY <1>2, <1>3, <1>4, <1>5, <1>6, <1>7, <1>8, <1>9, <1>10 DEF Loop

\* A worker gives a credential back to the loop before it rests.
LEMMA ThreadKeepsHand ==
  ASSUME Configured, TypeOK, HandInv, NEW t \in Threads, Thread(t)
  PROVE  HandInv'
<1> DEFINE b == work[t].a
<1> SUFFICES ASSUME NEW a \in Refreshables, Schedulable(auth[a], a)', a \notin lost'
             PROVE  InHand(a)'
  BY DEF HandInv
<1>0. UNCHANGED <<kind, now, heap, loop>>
  BY DEF Thread, Takes, Locks, Read, RefreshFails, RefreshSucceeds, WorkerDone
<1>1. CASE Takes(t)
  <2>1. /\ t \in RefreshWorkers /\ work[t].pc = "idle" /\ jobs # <<>> /\ jobs' = Tail(jobs)
        /\ work'[t].pc = "lock" /\ work'[t].a = Head(jobs)
        /\ \A u \in Threads : u # t => work'[u] = work[u]
        /\ UNCHANGED <<auth, dirty, wake, lost>>
    BY <1>1 DEF Takes, Resting, TypeOK
  <2>2. InHand(a)
    BY <1>0, <2>1, SameCredential
  <2>3. \A i \in DOMAIN jobs : jobs[i] = a => a = Head(jobs) \/ \E j \in DOMAIN jobs' : jobs'[j] = a
    <3> SUFFICES ASSUME NEW i \in DOMAIN jobs, jobs[i] = a, i # 1
                 PROVE  \E j \in DOMAIN jobs' : jobs'[j] = a
      BY <2>1 DEF TypeOK
    <3>1. i - 1 \in DOMAIN jobs' /\ jobs'[i - 1] = a
      BY <2>1 DEF TypeOK
    <3> QED
      BY <3>1
  <2>4. \A w \in RefreshWorkers : w \in Threads
    BY DEF Threads
  <2> QED
    BY <1>0, <2>1, <2>2, <2>3, <2>4 DEF InHand
<1>2. CASE WorkerDone(t)
  <2>1. /\ b \in Refreshables /\ Reschedule(b) /\ work' = [work EXCEPT ![t] = Resting]
        /\ UNCHANGED <<auth, jobs, lost>>
    BY <1>2 DEF WorkerDone, TypeOK
  <2>2. CASE a = b
    BY <2>1, <2>2, RescheduledInHand
  <2>3. CASE a # b
    <3>1. InHand(a)
      BY <1>0, <2>1, SameCredential
    <3>2. \A w \in RefreshWorkers : work[w].a = a /\ work[w].pc # "idle" => work'[w] = work[w]
      BY <2>1, <2>3 DEF TypeOK, Threads
    <3> QED
      BY <1>0, <2>1, <3>1, <3>2 DEF InHand, Reschedule
  <2> QED
    BY <2>2, <2>3
<1>3. CASE Locks(t) \/ RefreshFails(t) \/ RefreshSucceeds(t)
  <2>1. work[t].pc # "idle" /\ b \in Refreshables /\ jobs' = jobs
    BY <1>3 DEF Locks, RefreshFails, RefreshSucceeds, TypeOK
  <2>2. \A w \in RefreshWorkers : work[w].pc # "idle" => work'[w].pc # "idle" /\ work'[w].a = work[w].a
    <3>1. \A u \in Threads : u # t => work'[u] = work[u]
      BY <1>3 DEF Locks, Read, RefreshFails, RefreshSucceeds, TypeOK
    <3>2. t \in RefreshWorkers => Over(t) = [work[t] EXCEPT !.pc = "after"]
      BY DEF Over
    <3>3. \/ work'[t] = Over(t)
          \/ work'[t].pc = "refresh" /\ work'[t].a = b
      BY <1>3, SMTT(30) DEF Locks, Read, RefreshFails, RefreshSucceeds, TypeOK, Works
    <3>4. t \in RefreshWorkers => work'[t].pc # "idle" /\ work'[t].a = b
      BY <3>2, <3>3 DEF TypeOK, Works
    <3> QED
      BY <3>1, <3>4 DEF Threads
  <2>3. dirty \subseteq dirty' /\ (wake => wake')
    BY <1>3 DEF Locks, RefreshFails, RefreshSucceeds, Reschedule
  <2>4. a # b \/ auth' = auth => auth'[a] = auth[a]
    BY <1>3 DEF Locks, RefreshFails, RefreshSucceeds, TypeOK
  <2>5. CASE auth'[a] = auth[a] /\ (a \in lost => a \in lost')
    BY <1>0, <2>1, <2>2, <2>3, <2>5, SameCredential, KeptInHand
  <2>6. CASE auth'[a] # auth[a]
    <3>1. a = b /\ Reschedule(a)
      BY <1>3, <2>4, <2>6 DEF Locks, RefreshFails, RefreshSucceeds
    <3> QED
      BY <3>1, RescheduledInHand
  <2>7. CASE a \in lost
    <3>1. RefreshSucceeds(t) /\ a = b
      BY <1>3, <2>7 DEF Locks, RefreshFails, RefreshSucceeds
    <3>2. CASE auth[a].there
      BY <3>1, <3>2, RescheduledInHand DEF RefreshSucceeds
    <3>3. CASE ~auth[a].there
      BY <3>1, <3>3 DEF RefreshSucceeds, Schedulable
    <3> QED
      BY <3>2, <3>3
  <2> QED
    BY <2>5, <2>6, <2>7
<1> QED
  BY <1>1, <1>2, <1>3 DEF Thread

\* The manager tells the loop of each change, or the credential counts as lost.
LEMMA ManagerKeepsHand ==
  ASSUME Configured, TypeOK, HandInv, Manager \/ Tick
  PROVE  HandInv'
<1> SUFFICES ASSUME NEW a \in Refreshables, Schedulable(auth[a], a)', a \notin lost'
             PROVE  InHand(a)'
  BY DEF HandInv
<1>1. ASSUME NEW b \in Refreshables, Result(b) \/ Remove(b) PROVE InHand(a)'
  <2>1. UNCHANGED <<kind, now, heap, dirty, wake, loop, jobs, work>>
    BY <1>1 DEF Result, Remove
  <2>2. CASE a = b
    <3>1. CASE Remove(b)
      BY <2>2, <3>1, NewType DEF Remove, TypeOK, Schedulable
    <3>2. CASE Result(b)
      <4>1. auth'[a].refused = ~auth[a].refused /\ lost' = IF auth[a].refused THEN lost \union {a} ELSE lost
        BY <2>2, <3>2 DEF Result, TypeOK, Records
      <4>2. auth[a].refused \in BOOLEAN
        BY DEF TypeOK, Records
      <4> QED
        BY <4>1, <4>2 DEF Schedulable
    <3> QED
      BY <1>1, <3>1, <3>2
  <2>3. CASE a # b
    <3>1. auth'[a] = auth[a] /\ (a \in lost => a \in lost')
      BY <1>1, <2>3 DEF Result, Remove, TypeOK
    <3>2. InHand(a)
      BY <2>1, <3>1, SameCredential
    <3> QED
      BY <2>1, <3>2, KeptInHand
  <2> QED
    BY <2>2, <2>3
<1>2. ASSUME NEW b \in Refreshables, Unschedule(b) PROVE InHand(a)'
  <2>1. UNCHANGED <<kind, now, auth, lost, dirty, wake, loop, jobs, work>> /\ ~auth[b].there
        /\ heap' = [heap EXCEPT ![b] = Never]
    BY <1>2 DEF Unschedule, Unscheduled, Put
  <2>2. InHand(a)
    BY <2>1, SameCredential
  <2>3. a # b
    BY <2>1 DEF Schedulable
  <2> QED
    BY <2>1, <2>2, <2>3 DEF InHand, TypeOK
<1>3. ASSUME NEW b \in Refreshables, Register(b) PROVE InHand(a)'
  <2>1. CASE a = b
    BY <1>3, <2>1, RescheduledInHand DEF Register
  <2>2. CASE a # b
    <3>1. auth'[a] = auth[a] /\ UNCHANGED <<kind, now, lost, heap, loop, jobs, work>>
          /\ dirty \subseteq dirty' /\ (wake => wake')
      BY <1>3, <2>2 DEF Register, Reschedule, TypeOK
    <3>2. InHand(a)
      BY <3>1, SameCredential
    <3> QED
      BY <3>1, <3>2, KeptInHand
  <2> QED
    BY <2>1, <2>2
<1>4. ASSUME NEW c \in Callers, NEW b \in Refreshables, Unauthorized(c, b) PROVE InHand(a)'
  <2>1. UNCHANGED <<kind, now, auth, lost, heap, dirty, wake, loop, jobs>>
        /\ \A w \in RefreshWorkers : work[w].pc # "idle" => work'[w] = work[w]
    BY <1>4 DEF Unauthorized, TypeOK, Threads
  <2>2. InHand(a)
    BY <2>1, SameCredential
  <2> QED
    BY <2>1, <2>2, KeptInHand
<1>5. CASE Tick
  <2>1. now' = now + 1 /\ UNCHANGED <<kind, auth, lost, heap, dirty, wake, loop, jobs, work>>
    BY <1>5 DEF Tick
  <2>2. now \in Nat /\ auth[a].next \in Times
    BY DEF TypeOK, Records
  <2>3. Schedulable(auth[a], a) /\ a \notin lost
    BY <2>1, <2>2 DEF Schedulable, Times, Zero
  <2>4. InHand(a)
    BY <2>3 DEF HandInv
  <2> QED
    BY <2>1, <2>4, KeptInHand
<1> QED
  BY <1>1, <1>2, <1>3, <1>4, <1>5 DEF Manager

\* auto_refresh_loop.go, conductor.go: a credential the loop would have to
\* schedule is in its hands, unless a success wiped out a refusal (conductor.go:3128).
THEOREM NoneForgotten == Configured => (Spec => []OnlyWipedForgotten)
<1> SUFFICES ASSUME Configured PROVE Spec => []OnlyWipedForgotten
  OBVIOUS
<1>1. Init => HandInv
  <2> SUFFICES ASSUME Init PROVE HandInv
    OBVIOUS
  <2>1. loop = [pc |-> "rebuild", todo |-> {}, a |-> "none", timer |-> Never]
    BY DEF Init
  <2> QED
    BY <2>1 DEF HandInv, InHand
<1>2. TypeOK /\ HandInv /\ [Next]_vars => HandInv'
  <2>1. ASSUME HandInv, UNCHANGED vars PROVE HandInv'
    BY <2>1 DEF HandInv, InHand, Schedulable, vars
  <2> QED
    BY <2>1, LoopKeepsHand, ThreadKeepsHand, ManagerKeepsHand DEF Next
<1>3. TypeOK /\ HandInv => OnlyWipedForgotten
  BY NextCheckType DEF HandInv, OnlyWipedForgotten, TypeOK
<1> QED
  BY <1>1, <1>2, <1>3, Types, PTL DEF Spec

\* The three together, which the run MCBackground checks on a small instance.
THEOREM RefreshSound == Configured => (Spec => []RefreshIsSound)
  BY NoneForgotten, TimerRight, TokensFollow, PTL DEF RefreshIsSound
=============================================================================
