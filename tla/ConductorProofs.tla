--------------------------- MODULE ConductorProofs ----------------------------
(***************************************************************************)
(* Proofs about the interleaving of the calls that change a credential,    *)
(* for any number of credentials, goroutines and results.                  *)
(*                                                                         *)
(* The counters of the map and the ghost count of results bound each       *)
(* other, so type correctness and CountsKept are one inductive invariant.  *)
(*                                                                         *)
(* RegistryFollowsMap holds as long as one goroutine applies the           *)
(* configuration: with two of them a removal could be overtaken by an      *)
(* addition.  Only the calls of an updater take a credential out of the    *)
(* map or the registry or put it there, so for each credential the two     *)
(* differ at most while such a call is under way, in a way that its        *)
(* remaining sections tell.  All other calls are calm.                     *)
(*                                                                         *)
(* RemovedIsNotOffered follows from it: a credential that the scheduler    *)
(* offers is registered or the removal that will unschedule it is under    *)
(* way.                                                                    *)
(*                                                                         *)
(* AgreeWithoutOverlap relates all that is kept of a credential: while no  *)
(* two calls overlapped only one is in progress, and whatever is not       *)
(* settled then is for the sections it has left to repair.                 *)
(***************************************************************************)
EXTENDS Conductor, SequenceTheorems, TLAPS

Credentials == Creds \cup {Absent}
CallTable == [Threads -> Calls \cup {Idle}]

-----------------------------------------------------------------------------
(* Calls *)

\* A sequence of sections is never the pending answer of a token refresh.
LEMMA StepsAreNotRefresh ==
  ASSUME NEW s \in Seq(Steps) PROVE s # <<"refresh">>
<1>1. SUFFICES ASSUME s = <<"refresh">> PROVE FALSE
  OBVIOUS
<1>2. Len(s) = 1 /\ s[1] = "refresh"
  BY <1>1
<1>3. s[1] \in Steps
  BY <1>2, ElementOfSeq
<1> QED
  BY <1>2, <1>3 DEF Steps

\* After a section that is not its last the call has another one to pass, ...
LEMMA ContinueCall ==
  ASSUME NEW c \in CallRecords, c.todo # <<>>, Len(c.todo) # 1
  PROVE  [c EXCEPT !.todo = Tail(@)] \in Calls
<1>1. c.todo \in Seq(Steps)
  <2>1. c.todo \in Seq(Steps) \/ c.todo = <<"refresh">>
    BY DEF CallRecords
  <2>2. Len(<<"refresh">>) = 1
    OBVIOUS
  <2> QED
    BY <2>1, <2>2
<1>2. Tail(c.todo) \in Seq(Steps) /\ Len(Tail(c.todo)) = Len(c.todo) - 1
      /\ Len(c.todo) \in Nat \ {0}
  BY <1>1, HeadTailProperties, EmptySeq, LenProperties
<1>3. Tail(c.todo) # <<>>
  <2>1. Len(Tail(c.todo)) # 0
    BY <1>2
  <2> QED
    BY <2>1, EmptySeq
<1>4. Tail(c.todo) # <<"refresh">>
  BY <1>2, StepsAreNotRefresh
<1> DEFINE d == [c EXCEPT !.todo = Tail(@)]
<1>5. d \in CallRecords /\ d.todo = Tail(c.todo)
  BY <1>2 DEF CallRecords
<1> QED
  BY <1>3, <1>4, <1>5 DEF Calls

\* ... or is over.
LEMMA ContinueType ==
  ASSUME NEW c \in CallRecords, c.todo # <<>>
  PROVE  Continue(c) \in Calls \cup {Idle}
BY ContinueCall DEF Continue

\* A call that has passed a section.
LEMMA AdvanceType ==
  ASSUME call \in CallTable, NEW t \in Threads,
         NEW c \in CallRecords, c.todo # <<>>
  PROVE  Advance(t, c) \in CallTable
BY ContinueType DEF Advance, CallTable

\* A call that starts with sections to pass.
LEMMA NewCallType ==
  ASSUME NEW a \in Auths, NEW snap \in Credentials,
         NEW todo \in Seq(Steps), todo # <<>>
  PROVE  NewCall(a, snap, todo) \in Calls
<1> DEFINE c == NewCall(a, snap, todo)
<1>1. NoRecords \in [Auths -> Holds] /\ NoSnapshots \in [Auths -> Credentials]
  BY DEF NoRecords, NoSnapshots, Holds, Credentials
<1>2. c \in CallRecords /\ c.todo = todo
  BY <1>1 DEF NewCall, CallRecords, Credentials
<1>3. todo # <<"refresh">>
  BY StepsAreNotRefresh
<1> QED
  BY <1>2, <1>3 DEF Calls

\* Replacing or changing the object in the manager's map reaches the calls
\* that hold it without disturbing what they have still to do.
LEMMA DetachType ==
  ASSUME NEW calls \in CallTable, NEW a \in Auths
  PROVE  Detach(calls, a) \in CallTable
<1>1. ASSUME NEW u \in Threads, calls[u] \in Calls
      PROVE  [calls[u] EXCEPT !.live = FALSE] \in Calls
  BY <1>1 DEF Calls, CallRecords
<1> QED
  BY <1>1 DEF Detach, CallTable

\* Calls keep their type when the object of a credential changes.
LEMMA TouchType ==
  ASSUME NEW calls \in CallTable, NEW a \in Auths, NEW c \in Creds
  PROVE  Touch(calls, a, c) \in CallTable
<1>1. ASSUME NEW u \in Threads, calls[u] \in Calls
      PROVE  [calls[u] EXCEPT !.snap = c] \in Calls
  BY <1>1 DEF Calls, CallRecords
<1> QED
  BY <1>1 DEF Touch, CallTable

\* The sections that save the holds.
LEMMA PersistType == Persist \in Seq(Steps)
BY DEF Persist, Steps

\* The sections of a registration.
LEMMA RegistrationType ==
  /\ ModelRegistration \in Seq(Steps) /\ Len(ModelRegistration) = 3
  /\ ModelRegistration # <<>> /\ ModelRegistration # <<"refresh">>
<1>1. ModelRegistration \in Seq(Steps) /\ Len(ModelRegistration) = 3
  BY DEF ModelRegistration, Steps
<1> QED
  BY <1>1, EmptySeq, StepsAreNotRefresh, SMTT(30)

\* The sections after a deletion.
LEMMA AfterDeleteType ==
  /\ AfterDelete \in Seq(Steps)
  /\ AfterDelete # <<>> /\ AfterDelete # <<"refresh">>
<1> DEFINE u == <<"unschedule">>
<1>1. u \in Seq(Steps) /\ Len(u) = 1 /\ Len(Persist) \in Nat
  BY PersistType, LenProperties DEF Steps
<1>2. AfterDelete = u \o Persist
  BY DEF AfterDelete
<1> HIDE DEF u
<1>3. u \o Persist \in Seq(Steps) /\ Len(u \o Persist) = Len(u) + Len(Persist)
  BY <1>1, PersistType, ConcatProperties
<1>4. Len(AfterDelete) # 0 /\ AfterDelete \in Seq(Steps)
  BY <1>1, <1>2, <1>3
<1> QED
  BY <1>4, EmptySeq, StepsAreNotRefresh

\* The sections of a result.
LEMMA MarkedType ==
  ASSUME NEW from, NEW to
  PROVE  Marked(from, to) \in Seq(Steps) /\ Marked(from, to) # <<>>
<1> DEFINE p == IF from # "none" \/ to # "none" THEN Persist ELSE <<>>
           r == <<IF to = "none" THEN "resume" ELSE "suspend">>
<1>1. <<"upsert">> \in Seq(Steps) /\ p \in Seq(Steps) /\ r \in Seq(Steps)
  BY PersistType DEF Steps
<1>2. Marked(from, to) = (<<"upsert">> \o p) \o r
  BY DEF Marked
<1> HIDE DEF p, r
<1>3. <<"upsert">> \o p \in Seq(Steps)
      /\ Len(<<"upsert">> \o p) = 1 + Len(p) /\ Len(p) \in Nat
  BY <1>1, ConcatProperties, LenProperties
<1>4. (<<"upsert">> \o p) \o r \in Seq(Steps)
      /\ Len((<<"upsert">> \o p) \o r) = 1 + Len(p) + Len(r) /\ Len(r) \in Nat
  BY <1>1, <1>3, ConcatProperties, LenProperties
<1>5. Len(Marked(from, to)) # 0
  BY <1>2, <1>3, <1>4
<1> QED
  BY <1>2, <1>4, <1>5, EmptySeq

-----------------------------------------------------------------------------
(* The counters *)

\* A call that enters a section is one of the call table.
LEMMA InFlight ==
  ASSUME TypeOK, NEW t \in Threads, NEW step, At(t, step)
  PROVE  /\ call[t] \in CallRecords /\ call[t] \in Calls
         /\ call[t].auth \in Auths /\ call[t].todo # <<>>
         /\ call[t].snap \in Credentials
BY DEF TypeOK, At, Calls, CallRecords, Credentials

\* What a refresh carries is a credential.
LEMMA RefreshCarries ==
  ASSUME TypeOK, NEW t \in Threads, At(t, "refresh")
  PROVE  call[t].snap \in Creds
<1>1. call[t] \in Calls /\ call[t].todo # <<>>
      /\ (call[t].todo \in Seq(Steps) \/ call[t].todo = <<"refresh">>)
  BY InFlight DEF Calls, CallRecords
<1>2. ASSUME call[t].todo \in Seq(Steps) PROVE FALSE
  <2>1. Head(call[t].todo) \in Steps
    BY <1>1, <1>2, HeadTailProperties
  <2> QED
    BY <2>1 DEF At, Steps
<1> QED
  BY <1>1, <1>2 DEF Calls

\* Update takes the counters of the credential it replaces.
LEMMA MergeType ==
  ASSUME NEW copy \in Creds, NEW current \in Creds
  PROVE  Merge(copy, current) \in Creds /\ Merge(copy, current).done = current.done
BY DEF Merge, Creds

\* At the start nothing has been counted.
LEMMA InitCounts ==
  ASSUME MaxResults \in Nat, Init PROVE TypeOK /\ CountsKept
<1>1. Fresh \in Creds /\ Fresh.done = 0
  BY DEF Fresh, Creds, Holds
<1> QED
  BY <1>1 DEF Init, TypeOK, CountsKept, NoRecords, Holds

\* Sections that leave the manager's map alone.
LEMMA OtherSections ==
  ASSUME TypeOK, CountsKept, NEW t \in Threads,
         \/ Upsert(t) \/ Collect(t) \/ Save(t) \/ Suspend(t) \/ Resume(t)
         \/ Unschedule(t) \/ Register(t) \/ Reread(t) \/ RefreshFail(t)
         \/ Rebuild(t)
  PROVE  TypeOK' /\ CountsKept'
<1> SUFFICES TypeOK'
  BY DEF CountsKept, Upsert, Collect, Save, Suspend, Resume, Unschedule,
         Register, Reread, RefreshFail, Rebuild
<1> USE DEF Credentials
<1>1. CASE Upsert(t)
  <2> DEFINE c == [call[t] EXCEPT !.snap = Absent, !.live = FALSE]
  <2>1. c \in CallRecords /\ c.todo # <<>>
    BY <1>1, InFlight DEF Upsert, CallRecords
  <2>2. call' \in CallTable
    BY <1>1, <2>1, AdvanceType DEF Upsert, TypeOK, CallTable
  <2> QED
    BY <1>1, <2>2, InFlight DEF Upsert, TypeOK, CallTable
<1>2. CASE Collect(t)
  <2> DEFINE c == [call[t] EXCEPT !.records = [a \in Auths |-> Hold(a)]]
  <2>1. [a \in Auths |-> Hold(a)] \in [Auths -> Holds]
    BY DEF TypeOK, Hold, Creds, Holds
  <2>2. c \in CallRecords /\ c.todo # <<>>
    BY <1>2, <2>1, InFlight DEF Collect, CallRecords
  <2>3. call' \in CallTable
    BY <1>2, <2>2, AdvanceType DEF Collect, TypeOK, CallTable
  <2> QED
    BY <1>2, <2>3 DEF Collect, TypeOK, CallTable
<1>3. CASE Save(t)
  <2> DEFINE c == [call[t] EXCEPT !.records = NoRecords]
  <2>1. NoRecords \in [Auths -> Holds]
    BY DEF NoRecords, Holds
  <2>2. c \in CallRecords /\ c.todo # <<>> /\ call[t].records \in [Auths -> Holds]
    BY <1>3, <2>1, InFlight DEF Save, CallRecords
  <2>3. call' \in CallTable
    BY <1>3, <2>2, AdvanceType DEF Save, TypeOK, CallTable
  <2> QED
    BY <1>3, <2>2, <2>3 DEF Save, TypeOK, CallTable
<1>4. CASE Suspend(t) \/ Resume(t) \/ Unschedule(t) \/ Register(t)
  <2>1. call' = Advance(t, call[t])
    BY <1>4 DEF Suspend, Resume, Unschedule, Register
  <2>2. call[t].auth \in Auths /\ call' \in CallTable
    BY <1>4, <2>1, InFlight, AdvanceType
       DEF Suspend, Resume, Unschedule, Register, TypeOK, CallTable
  <2> QED
    BY <1>4, <2>2 DEF Suspend, Resume, Unschedule, Register, TypeOK, CallTable
<1>5. CASE Reread(t)
  <2> DEFINE a == call[t].auth
             c == [call[t] EXCEPT !.snap = auths[a], !.todo = <<"upsert">>]
  <2>1. <<"upsert">> \in Seq(Steps)
    BY DEF Steps
  <2>2. call[t] \in CallRecords /\ a \in Auths
    BY <1>5, InFlight DEF Reread
  <2>3. c \in CallRecords /\ c.todo = <<"upsert">>
    BY <2>1, <2>2 DEF CallRecords, TypeOK
  <2>4. c \in Calls
    <3>1. <<"upsert">> # <<"refresh">>
      OBVIOUS
    <3> HIDE DEF c
    <3> QED
      BY <2>3, <3>1 DEF Calls
  <2>5. call' = [call EXCEPT ![t] = IF auths[a] = Absent THEN Idle ELSE c]
    BY <1>5 DEF Reread, TypeOK
  <2> QED
    BY <1>5, <2>4, <2>5 DEF Reread, TypeOK
<1>6. CASE RefreshFail(t)
  <2>1. call[t].auth \in Auths
    BY <1>6, InFlight DEF RefreshFail
  <2> QED
    BY <1>6, <2>1 DEF RefreshFail, TypeOK
<1>7. CASE Rebuild(t)
  <2>1. call[t].all \in [Auths -> Creds \cup {Absent}]
    BY <1>7, InFlight DEF Rebuild, CallRecords
  <2>2. call' \in CallTable
    BY <1>7, InFlight, AdvanceType DEF Rebuild, TypeOK, CallTable
  <2> QED
    BY <1>7, <2>1, <2>2 DEF Rebuild, TypeOK, CallTable
<1> QED
  BY <1>1, <1>2, <1>3, <1>4, <1>5, <1>6, <1>7

\* A result adds one to both counts, and only within the bound.
LEMMA MarkResultCounts ==
  ASSUME MaxResults \in Nat, TypeOK, CountsKept, NEW t \in Threads,
         NEW a \in Auths, NEW hold \in Holds, MarkResult(t, a, hold)
  PROVE  TypeOK' /\ CountsKept'
<1> DEFINE new == [hold |-> hold, done |-> auths[a].done + 1]
           c == NewCall(a, new, Marked(auths[a].hold, hold))
<1>1. /\ auths[a] \in Creds /\ auths[a].done < MaxResults
      /\ auths' = [auths EXCEPT ![a] = new]
      /\ call' = Touch(Enter(t, c), a, new)
      /\ results' = [results EXCEPT ![a] = @ + 1]
      /\ last' = [last EXCEPT ![a] = hold]
      /\ UNCHANGED <<sched, offered, file, registered, suspended>>
  BY DEF MarkResult, TypeOK
<1>2. new \in Creds /\ new.done = auths[a].done + 1
  BY <1>1 DEF Creds
<1>3. results[a] = auths[a].done
  BY DEF CountsKept, MarkResult
<1>4. c \in Calls
  BY <1>2, MarkedType, NewCallType DEF Credentials
<1> HIDE DEF new, c
<1>5. Enter(t, c) \in CallTable
  BY <1>4 DEF Enter, TypeOK, CallTable
<1>6. call' \in CallTable
  BY <1>1, <1>2, <1>5, TouchType
<1>7. results' \in [Auths -> 0..MaxResults]
  BY <1>1, <1>3 DEF TypeOK, Creds
<1>8. TypeOK'
  BY <1>1, <1>2, <1>6, <1>7 DEF TypeOK, CallTable
<1>9. CountsKept'
  BY <1>1, <1>2, <1>3 DEF CountsKept, TypeOK
<1> QED
  BY <1>8, <1>9

\* ResetQuota changes the hold and keeps the counters.
LEMMA ResetQuotaCounts ==
  ASSUME TypeOK, CountsKept, NEW t \in Threads, NEW a \in Auths,
         ResetQuota(t, a)
  PROVE  TypeOK' /\ CountsKept'
<1> DEFINE new == [auths[a] EXCEPT !.hold = "none"]
           p == IF auths[a].hold = "none" THEN <<>> ELSE Persist
           todo == <<"resume", "upsert">> \o p
           c == NewCall(a, new, todo)
<1>1. /\ auths[a] \in Creds /\ auths[a] # Absent
      /\ auths' = [auths EXCEPT ![a] = new]
      /\ call' = Touch(Enter(t, c), a, new)
      /\ last' = [last EXCEPT ![a] = "none"]
      /\ UNCHANGED <<sched, offered, file, registered, suspended, results>>
  BY DEF ResetQuota, TypeOK
<1>2. new \in Creds /\ new.done = auths[a].done
  BY <1>1 DEF Creds, Holds
<1>3. todo \in Seq(Steps) /\ todo # <<>>
  <2>1. p \in Seq(Steps) /\ <<"resume", "upsert">> \in Seq(Steps)
    BY PersistType DEF Steps
  <2> HIDE DEF p
  <2>2. todo \in Seq(Steps) /\ Len(todo) = 2 + Len(p) /\ Len(p) \in Nat
    BY <2>1, ConcatProperties, LenProperties
  <2>3. Len(todo) # 0
    BY <2>2
  <2> QED
    BY <2>2, <2>3, EmptySeq
<1> HIDE DEF todo
<1>4. c \in Calls
  BY <1>2, <1>3, NewCallType DEF Credentials
<1> HIDE DEF new, c
<1>5. Enter(t, c) \in CallTable
  BY <1>4 DEF Enter, TypeOK, CallTable
<1>6. call' \in CallTable
  BY <1>1, <1>2, <1>5, TouchType
<1>7. TypeOK'
  BY <1>1, <1>2, <1>6 DEF TypeOK, CallTable, Holds
<1>8. CountsKept'
  BY <1>1, <1>2 DEF CountsKept, TypeOK
<1> QED
  BY <1>7, <1>8

\* The other calls begin without touching the map.
LEMMA BeginCounts ==
  ASSUME TypeOK, CountsKept, NEW t \in Threads, NEW a \in Auths,
         Unregister(t, a) \/ Apply(t, a) \/ RefreshStart(t, a) \/ Resync(t)
  PROVE  TypeOK' /\ CountsKept'
<1>1. auths' = auths /\ results' = results
  BY DEF Unregister, Apply, RefreshStart, Resync
<1>2. \A s \in Steps : <<s>> \in Seq(Steps) /\ <<s>> # <<>>
  OBVIOUS
<1>3. ASSUME NEW c \in Calls, call' = Enter(t, c) PROVE call' \in CallTable
  BY <1>3 DEF Enter, TypeOK, CallTable
<1>4. CASE Unregister(t, a)
  <2>1. NewCall(a, Absent, <<"delete">>) \in Calls
    BY <1>2, NewCallType DEF Steps, Credentials
  <2>2. call' \in CallTable
    BY <1>3, <1>4, <2>1 DEF Unregister
  <2> QED
    BY <1>1, <1>4, <2>2 DEF Unregister, TypeOK, CountsKept, CallTable
<1>5. CASE Apply(t, a)
  <2> DEFINE todo == <<"put", "upsert">> \o ModelRegistration
  <2>1. todo \in Seq(Steps) /\ todo # <<>>
    <3>1. <<"put", "upsert">> \in Seq(Steps) /\ ModelRegistration \in Seq(Steps)
      BY RegistrationType DEF Steps
    <3>2. todo \in Seq(Steps) /\ Len(todo) = 2 + Len(ModelRegistration)
      BY <3>1, ConcatProperties
    <3> QED
      BY <3>2, EmptySeq, RegistrationType
  <2> HIDE DEF todo
  <2>2. NewCall(a, auths[a], todo) \in Calls
    BY <2>1, NewCallType DEF TypeOK, Credentials
  <2>3. call' \in CallTable
    BY <1>3, <1>5, <2>2 DEF Apply, todo
  <2> QED
    BY <1>1, <1>5, <2>3 DEF Apply, TypeOK, CountsKept, CallTable
<1>6. CASE RefreshStart(t, a)
  <2> DEFINE c == [NewCall(a, auths[a], <<"refresh">>) EXCEPT !.refreshing = TRUE]
  <2>1. auths[a] \in Creds
    BY <1>6 DEF RefreshStart, TypeOK
  <2>2. c.snap = auths[a] /\ c.todo = <<"refresh">>
    BY DEF NewCall
  <2>3. NoRecords \in [Auths -> Holds] /\ NoSnapshots \in [Auths -> Credentials]
    BY DEF NoRecords, NoSnapshots, Holds, Credentials
  <2>4. c \in CallRecords
    BY <2>1, <2>3 DEF NewCall, CallRecords, Credentials
  <2>5. call' = Enter(t, c)
    BY <1>6 DEF RefreshStart
  <2> HIDE DEF c
  <2>6. <<"refresh">> # <<>>
    OBVIOUS
  <2>7. c \in Calls
    BY <2>1, <2>2, <2>4, <2>6 DEF Calls
  <2>8. call' \in CallTable
    BY <1>3, <2>5, <2>7
  <2> QED
    BY <1>1, <1>6, <2>8 DEF RefreshStart, TypeOK, CountsKept, CallTable
<1>7. CASE Resync(t)
  <2> DEFINE b == CHOOSE b \in Auths : TRUE
             d == NewCall(b, Absent, <<"rebuild">>)
  <2>1. b \in Auths
    OBVIOUS
  <2> HIDE DEF b
  <2>2. d \in Calls
    BY <1>2, <2>1, NewCallType DEF Steps, Credentials
  <2>3. [d EXCEPT !.all = auths] \in Calls
    <3> HIDE DEF d
    <3> QED
      BY <2>2 DEF Calls, CallRecords, TypeOK
  <2>4. call' \in CallTable
    BY <1>3, <1>7, <2>3 DEF Resync, b
  <2> QED
    BY <1>1, <1>7, <2>4 DEF Resync, TypeOK, CountsKept, CallTable
<1> QED
  BY <1>4, <1>5, <1>6, <1>7

\* A deletion drops the counters and what is expected of them.
LEMMA DeleteCounts ==
  ASSUME TypeOK, CountsKept, NEW t \in Threads, Delete(t)
  PROVE  TypeOK' /\ CountsKept'
<1> DEFINE a == call[t].auth
<1>1. a \in Auths /\ call[t] \in CallRecords /\ call[t].todo # <<>>
  BY InFlight DEF Delete
<1>2. CASE auths[a] = Absent
  <2>1. call' \in CallTable
    BY <1>1, <1>2, AdvanceType DEF Delete, TypeOK, CallTable
  <2> QED
    BY <1>2, <2>1 DEF Delete, TypeOK, CountsKept, CallTable
<1>3. CASE auths[a] # Absent
  <2> DEFINE c == [call[t] EXCEPT !.todo = AfterDelete]
  <2>2. c \in CallRecords /\ c.todo = AfterDelete
    BY <1>1, AfterDeleteType DEF CallRecords
  <2>3. c \in Calls
    <3> HIDE DEF c
    <3> QED
      BY <2>2, AfterDeleteType DEF Calls
  <2>4. [call EXCEPT ![t].todo = AfterDelete] \in CallTable
    BY <2>3 DEF TypeOK, CallTable
  <2>5. call' \in CallTable
    BY <1>1, <1>3, <2>4, DetachType DEF Delete
  <2> QED
    BY <1>1, <1>3, <2>5 DEF Delete, TypeOK, CountsKept, CallTable
<1> QED
  BY <1>2, <1>3

\* Put registers a credential with fresh counters, or keeps the counters of
\* the credential it replaces.
LEMMA PutCounts ==
  ASSUME MaxResults \in Nat, TypeOK, CountsKept, NEW t \in Threads, Put(t)
  PROVE  TypeOK' /\ CountsKept'
<1> DEFINE a == call[t].auth
           read == call[t].snap
           new == IF read = Absent THEN Fresh ELSE Merge(read, auths[a])
<1>1. /\ a \in Auths /\ read \in Credentials
      /\ call[t] \in CallRecords /\ call[t].todo # <<>>
      /\ Head(call[t].todo) = "put"
  BY InFlight DEF Put, At
<1>2. CASE read # Absent /\ auths[a] = Absent
  <2> DEFINE c == [call[t] EXCEPT !.snap = Absent, !.todo = ModelRegistration]
  <2>1. c \in CallRecords /\ c.todo = ModelRegistration
    BY <1>1, RegistrationType DEF CallRecords
  <2>2. c \in Calls
    <3> HIDE DEF c
    <3> QED
      BY <2>1, RegistrationType DEF Calls
  <2>3. call' = [call EXCEPT ![t] = c] /\ UNCHANGED <<auths, results, last>>
    BY <1>2 DEF Put
  <2> HIDE DEF c
  <2> QED
    BY <2>2, <2>3 DEF Put, TypeOK, CountsKept
<1>3. CASE read = Absent \/ auths[a] # Absent
  <2> DEFINE c == [call[t] EXCEPT !.snap = new, !.live = TRUE]
  <2>1. /\ auths' = [auths EXCEPT ![a] = new]
        /\ call' = [Detach(call, a) EXCEPT ![t] = Continue(c)]
        /\ results' = [results EXCEPT ![a] = IF read = Absent THEN 0 ELSE @]
        /\ last' = [last EXCEPT ![a] = IF read = Absent THEN "none" ELSE @]
        /\ UNCHANGED <<sched, offered, file, registered, suspended>>
    BY <1>3 DEF Put
  <2>2. new \in Creds /\ (read = Absent => new.done = 0)
        /\ (read # Absent => new.done = auths[a].done)
    <3>1. Fresh \in Creds /\ Fresh.done = 0
      BY DEF Fresh, Creds, Holds
    <3> QED
      BY <1>1, <1>3, <3>1, MergeType DEF TypeOK, Credentials
  <2>3. c \in CallRecords /\ c.todo # <<>>
    <3> HIDE DEF new
    <3> QED
      BY <1>1, <2>2 DEF CallRecords
  <2>4. Continue(c) \in Calls \cup {Idle}
    <3> HIDE DEF c
    <3> QED
      BY <2>3, ContinueType
  <2>5. Detach(call, a) \in CallTable
    BY <1>1, DetachType DEF TypeOK, CallTable
  <2> HIDE DEF c, new
  <2>6. call' \in CallTable
    BY <2>1, <2>4, <2>5 DEF CallTable
  <2>7. TypeOK'
    BY <1>1, <2>1, <2>2, <2>6 DEF TypeOK, CallTable, Holds
  <2>8. CountsKept'
    BY <1>1, <1>3, <2>1, <2>2 DEF TypeOK, CountsKept
  <2> QED
    BY <2>7, <2>8
<1> QED
  BY <1>2, <1>3

\* A reconcile writes the counters it found.
LEMMA ReconcileCounts ==
  ASSUME TypeOK, CountsKept, NEW t \in Threads, Reconcile(t)
  PROVE  TypeOK' /\ CountsKept'
<1> DEFINE a == call[t].auth
<1>1. a \in Auths /\ call[t] \in CallRecords /\ call[t].todo # <<>>
  BY InFlight DEF Reconcile
<1>2. CASE auths[a] = Absent \/ auths[a].hold = "none"
  <2>1. call' = Advance(t, call[t]) /\ UNCHANGED <<auths, last>>
    BY <1>2 DEF Reconcile
  <2>2. call' \in CallTable
    BY <1>1, <2>1, AdvanceType DEF TypeOK, CallTable
  <2> QED
    BY <2>1, <2>2 DEF Reconcile, TypeOK, CountsKept, CallTable
<1>3. CASE ~(auths[a] = Absent \/ auths[a].hold = "none")
  <2> DEFINE new == [auths[a] EXCEPT !.hold = "none"]
             c == [call[t] EXCEPT !.snap = new, !.todo = <<"upsert", "reread">>]
  <2>1. /\ auths' = [auths EXCEPT ![a] = new]
        /\ call' = Touch([call EXCEPT ![t] = c], a, new)
        /\ last' = [last EXCEPT ![a] = "none"]
        /\ UNCHANGED <<sched, offered, file, registered, suspended, results>>
    BY <1>3 DEF Reconcile
  <2>2. auths[a] \in Creds /\ new \in Creds /\ new.done = auths[a].done
    BY <1>1, <1>3 DEF TypeOK, Creds, Holds
  <2>3. <<"upsert", "reread">> \in Seq(Steps)
    BY DEF Steps
  <2>4. c \in CallRecords /\ c.todo = <<"upsert", "reread">>
    <3> HIDE DEF new
    <3> QED
      BY <1>1, <2>2, <2>3 DEF CallRecords
  <2>5. c \in Calls
    <3> HIDE DEF c
    <3>1. <<"upsert", "reread">> # <<>>
      OBVIOUS
    <3> QED
      BY <2>3, <2>4, <3>1, StepsAreNotRefresh DEF Calls
  <2> HIDE DEF c, new
  <2>6. [call EXCEPT ![t] = c] \in CallTable
    BY <2>5 DEF TypeOK, CallTable
  <2>7. call' \in CallTable
    BY <1>1, <2>1, <2>2, <2>6, TouchType
  <2> QED
    BY <1>1, <1>3, <2>1, <2>2, <2>7 DEF TypeOK, CountsKept, CallTable, Holds
<1> QED
  BY <1>2, <1>3

\* A refresh that succeeded puts its copy in the map under the counters of
\* the credential it replaces.
LEMMA RefreshDoneCounts ==
  ASSUME TypeOK, CountsKept, NEW t \in Threads, RefreshDone(t)
  PROVE  TypeOK' /\ CountsKept'
<1> DEFINE a == call[t].auth
           resumes == call[t].snap.hold = "unauthorized"
           copy == IF resumes THEN [call[t].snap EXCEPT !.hold = "none"]
                   ELSE call[t].snap
           resume == IF resumes THEN <<"resume">> ELSE <<>>
           new == Merge(copy, auths[a])
<1>1. /\ a \in Auths /\ call[t] \in CallRecords /\ call[t].todo # <<>>
      /\ call[t].snap \in Creds
  BY InFlight, RefreshCarries DEF RefreshDone
<1>2. copy \in Creds
  BY <1>1 DEF Creds, Holds
<1>3. resume \in Seq(Steps)
  <2>1. <<"resume">> \in Seq(Steps) /\ <<>> \in Seq(Steps)
    BY DEF Steps
  <2> QED
    BY <2>1
<1>4. CASE auths[a] = Absent
  <2> DEFINE c == [call[t] EXCEPT !.todo = <<"resume">>]
  <2>1. <<"resume">> \in Seq(Steps) /\ <<"resume">> # <<>>
    BY DEF Steps
  <2>2. c \in CallRecords /\ c.todo = <<"resume">>
    BY <1>1, <2>1 DEF CallRecords
  <2>3. c \in Calls
    <3> HIDE DEF c
    <3> QED
      BY <2>1, <2>2, StepsAreNotRefresh DEF Calls
  <2>4. call' = [call EXCEPT ![t] = IF resumes THEN c ELSE Idle]
        /\ UNCHANGED <<auths, last>>
    BY <1>1, <1>4 DEF RefreshDone, TypeOK
  <2> HIDE DEF c
  <2> QED
    BY <2>3, <2>4 DEF RefreshDone, TypeOK, CountsKept
<1>5. CASE auths[a] # Absent
  <2> DEFINE todo == <<"upsert">> \o resume
             c == [call[t] EXCEPT !.snap = new, !.live = TRUE, !.todo = todo]
  <2>1. /\ auths' = [auths EXCEPT ![a] = new]
        /\ call' = [Detach(call, a) EXCEPT ![t] = c]
        /\ last' = [last EXCEPT ![a] = IF @ = "unauthorized" THEN "none" ELSE @]
        /\ UNCHANGED <<sched, offered, file, registered, suspended, results>>
    BY <1>5 DEF RefreshDone
  <2>2. auths[a] \in Creds /\ new \in Creds /\ new.done = auths[a].done
    <3>1. auths[a] \in Creds
      BY <1>1, <1>5 DEF TypeOK
    <3> HIDE DEF copy
    <3> QED
      BY <1>2, <3>1, MergeType
  <2>3. todo \in Seq(Steps) /\ todo # <<>>
    <3> DEFINE u == <<"upsert">>
    <3>1. u \in Seq(Steps) /\ Len(u) = 1
      BY DEF Steps
    <3>2. todo = u \o resume
      OBVIOUS
    <3> HIDE DEF u, resume, todo
    <3>3. resume \in Seq(Steps) /\ Len(resume) \in Nat
      BY <1>3, LenProperties
    <3>4. u \o resume \in Seq(Steps) /\ Len(u \o resume) = Len(u) + Len(resume)
      BY <3>1, <3>3, ConcatProperties
    <3>5. Len(todo) # 0 /\ todo \in Seq(Steps)
      BY <3>1, <3>2, <3>3, <3>4
    <3> QED
      BY <3>5, EmptySeq
  <2> HIDE DEF todo, new
  <2>4. c \in CallRecords /\ c.todo = todo
    BY <1>1, <2>2, <2>3 DEF CallRecords
  <2>5. c \in Calls
    <3> HIDE DEF c
    <3> QED
      BY <2>3, <2>4, StepsAreNotRefresh DEF Calls
  <2>6. Detach(call, a) \in CallTable
    BY <1>1, DetachType DEF TypeOK, CallTable
  <2> HIDE DEF c
  <2>7. call' \in CallTable
    BY <2>1, <2>5, <2>6 DEF CallTable
  <2> QED
    BY <1>1, <1>5, <2>1, <2>2, <2>7 DEF TypeOK, CountsKept, CallTable, Holds
<1> QED
  BY <1>4, <1>5

\* No step loses a result from the counters.
LEMMA StepCounts ==
  ASSUME MaxResults \in Nat, TypeOK, CountsKept, [Next]_vars
  PROVE  TypeOK' /\ CountsKept'
<1>1. CASE UNCHANGED vars
  BY <1>1 DEF vars, TypeOK, CountsKept
<1>2. ASSUME NEW t \in Threads, Resync(t) PROVE TypeOK' /\ CountsKept'
  <2>1. PICK a \in Auths : TRUE
    BY <1>2 DEF Resync
  <2> QED
    BY <1>2, <2>1, BeginCounts
<1>3. ASSUME NEW t \in Threads, Section(t) PROVE TypeOK' /\ CountsKept'
  BY <1>3, OtherSections, DeleteCounts, PutCounts, ReconcileCounts,
     RefreshDoneCounts DEF Section
<1>4. ASSUME NEW t \in Threads, NEW a \in Auths, Begin(t, a)
      PROVE  TypeOK' /\ CountsKept'
  BY <1>4, MarkResultCounts, ResetQuotaCounts, BeginCounts DEF Begin
<1> QED
  BY <1>1, <1>2, <1>3, <1>4 DEF Next

\* Types and counts together are inductive.
LEMMA CountsInductive == Spec => [](TypeOK /\ CountsKept)
<1>1. MaxResults \in Nat
  BY MaxResultsAssumption
<1>2. Init => TypeOK /\ CountsKept
  BY <1>1, InitCounts
<1>3. TypeOK /\ CountsKept /\ [Next]_vars => (TypeOK /\ CountsKept)'
  BY <1>1, StepCounts
<1> QED
  BY <1>2, <1>3, PTL DEF Spec

\* Every variable keeps its type, and with it every call the form its
\* sections rely on: a call in progress has a section to pass, and a token
\* refresh carries a credential, not a hole, when the provider answers
\* (conductor.go, refreshAuthForRequest).
THEOREM TypeCorrect == Spec => []TypeOK
BY CountsInductive, PTL

\* No result is lost from the counters of a credential, whatever updates,
\* refreshes, reconciles and rebuilds carry copies across it: Success + Failed
\* in the manager's map is the number of results marked since registration
\* (conductor.go, MarkResult and Update).
THEOREM ResultsCounted == Spec => []CountsKept
BY CountsInductive, PTL

-----------------------------------------------------------------------------
(* The registry and the map *)

OneUpdater == \A u, v \in Updaters : u = v

\* The forms an updater's call goes through before it is calm.
Removal   == <<"delete">>
Version   == <<"put", "upsert">> \o ModelRegistration
Scheduled == <<"upsert">> \o ModelRegistration
Forms     == {Removal, Version, Scheduled, ModelRegistration}

Calm(s) == \A i \in 1..Len(s) : s[i] \notin {"delete", "put", "register"}
CalmOn(c, a) == c = Idle \/ c.auth # a \/ Calm(c.todo)

Agree(a) == registered[a] <=> auths[a] # Absent

\* What the call that t is in says of its credential.
CallInv(t) ==
    LET c == call[t]
        a == c.auth
    IN  c # Idle =>
        /\ Calm(c.todo) \/ (c.todo \in Forms /\ t \in Updaters)
        /\ c.todo = Removal => ~registered[a]
        /\ c.todo = Version => ~c.live /\ Agree(a) /\ (c.snap = Absent <=> auths[a] = Absent)
        /\ c.todo \in {Scheduled, ModelRegistration} => auths[a] # Absent

RegistryInv ==
    /\ \A t \in Threads : CallInv(t)
    /\ \A a \in Auths : (\A t \in Threads : CalmOn(call[t], a)) => Agree(a)

-----------------------------------------------------------------------------
(* Forms of calls *)

\* What the forms are, written out.
LEMMA FormsAre ==
  /\ Removal = <<"delete">>
  /\ Version = <<"put", "upsert", "register", "reconcile", "reread">>
  /\ Scheduled = <<"upsert", "register", "reconcile", "reread">>
  /\ ModelRegistration = <<"register", "reconcile", "reread">>
<1> DEFINE v == <<"put", "upsert", "register", "reconcile", "reread">>
           s == <<"upsert", "register", "reconcile", "reread">>
           m == <<"register", "reconcile", "reread">>
           pu == <<"put", "upsert">>
           u == <<"upsert">>
<1>1. /\ v \in Seq(Steps) /\ s \in Seq(Steps) /\ m \in Seq(Steps)
      /\ pu \in Seq(Steps) /\ u \in Seq(Steps)
  BY DEF Steps
<1>2. ModelRegistration = m
  BY DEF ModelRegistration
<1>3. /\ Len(v) = 5 /\ Len(s) = 4 /\ Len(m) = 3 /\ Len(pu) = 2 /\ Len(u) = 1
      /\ v[1] = pu[1] /\ v[2] = pu[2] /\ v[3] = m[1] /\ v[4] = m[2] /\ v[5] = m[3]
      /\ s[1] = u[1] /\ s[2] = m[1] /\ s[3] = m[2] /\ s[4] = m[3]
  OBVIOUS
<1>4. Version = pu \o m /\ Scheduled = u \o m
  BY <1>2 DEF Version, Scheduled
<1> HIDE DEF v, s, m, pu, u
<1>5. v = pu \o m
  <2>1. /\ pu \o m \in Seq(Steps) /\ Len(pu \o m) = 5
        /\ \A i \in 1..5 : (pu \o m)[i] = IF i <= 2 THEN pu[i] ELSE m[i - 2]
    <3>1. /\ pu \o m \in Seq(Steps) /\ Len(pu \o m) = Len(pu) + Len(m)
          /\ \A i \in 1..Len(pu) + Len(m) :
                (pu \o m)[i] = IF i <= Len(pu) THEN pu[i] ELSE m[i - Len(pu)]
      BY <1>1, ConcatProperties
    <3>2. Len(pu) + Len(m) = 5 /\ Len(pu) = 2
      BY <1>3
    <3> QED
      BY <3>1, <3>2
  <2>2. /\ (pu \o m)[1] = pu[1] /\ (pu \o m)[2] = pu[2]
        /\ (pu \o m)[3] = m[1] /\ (pu \o m)[4] = m[2] /\ (pu \o m)[5] = m[3]
    BY <2>1
  <2>3. \A i \in 1..5 : i = 1 \/ i = 2 \/ i = 3 \/ i = 4 \/ i = 5
    OBVIOUS
  <2>4. \A i \in 1..5 : v[i] = (pu \o m)[i]
    BY <1>3, <2>2, <2>3
  <2> QED
    BY <1>1, <1>3, <2>1, <2>4, SeqEqual, ZenonT(30)
<1>6. s = u \o m
  <2>1. /\ u \o m \in Seq(Steps) /\ Len(u \o m) = 4
        /\ \A i \in 1..4 : (u \o m)[i] = IF i <= 1 THEN u[i] ELSE m[i - 1]
    <3>1. /\ u \o m \in Seq(Steps) /\ Len(u \o m) = Len(u) + Len(m)
          /\ \A i \in 1..Len(u) + Len(m) :
                (u \o m)[i] = IF i <= Len(u) THEN u[i] ELSE m[i - Len(u)]
      BY <1>1, ConcatProperties
    <3>2. Len(u) + Len(m) = 4 /\ Len(u) = 1
      BY <1>3
    <3> QED
      BY <3>1, <3>2
  <2>2. /\ (u \o m)[1] = u[1] /\ (u \o m)[2] = m[1]
        /\ (u \o m)[3] = m[2] /\ (u \o m)[4] = m[3]
    BY <2>1
  <2>3. \A i \in 1..4 : i = 1 \/ i = 2 \/ i = 3 \/ i = 4
    OBVIOUS
  <2>4. \A i \in 1..4 : s[i] = (u \o m)[i]
    BY <1>3, <2>2, <2>3
  <2> QED
    BY <1>1, <1>3, <2>1, <2>4, SeqEqual
<1> QED
  BY <1>2, <1>4, <1>5, <1>6 DEF v, s, m, Removal

\* They differ, none of them is calm, and each is known by its first section.
LEMMA FormsDiffer ==
  /\ Removal # Version /\ Removal # Scheduled /\ Removal # ModelRegistration
  /\ Version # Scheduled /\ Version # ModelRegistration /\ Scheduled # ModelRegistration
  /\ Head(Removal) = "delete" /\ Head(Version) = "put"
  /\ Head(Scheduled) = "upsert" /\ Head(ModelRegistration) = "register"
  /\ Len(Removal) = 1 /\ Len(Version) = 5 /\ Len(Scheduled) = 4 /\ Len(ModelRegistration) = 3
  /\ Tail(Version) = Scheduled /\ Tail(Scheduled) = ModelRegistration
  /\ \A s \in Forms : ~Calm(s)
<1>1. /\ Head(Removal) = "delete" /\ Head(Version) = "put"
      /\ Head(Scheduled) = "upsert" /\ Head(ModelRegistration) = "register"
      /\ Len(Removal) = 1 /\ Len(Version) = 5 /\ Len(Scheduled) = 4
      /\ Len(ModelRegistration) = 3
  BY FormsAre
<1>4. Tail(Version) = Scheduled /\ Tail(Scheduled) = ModelRegistration
  BY FormsAre
<1>2. /\ Removal[1] = "delete" /\ Version[1] = "put"
      /\ Scheduled[2] = "register" /\ ModelRegistration[1] = "register"
  BY FormsAre
<1>3. \A s \in Forms : ~Calm(s)
  BY <1>1, <1>2 DEF Forms, Calm
<1> QED
  BY <1>1, <1>3, <1>4

\* Calm sequences make a calm sequence.
LEMMA CalmParts ==
  ASSUME NEW s \in Seq(Steps), NEW r \in Seq(Steps), Calm(s), Calm(r)
  PROVE  Calm(s \o r)
<1>1. /\ Len(s) \in Nat /\ Len(r) \in Nat /\ Len(s \o r) = Len(s) + Len(r)
      /\ \A i \in 1..Len(s) + Len(r) :
            (s \o r)[i] = IF i <= Len(s) THEN s[i] ELSE r[i - Len(s)]
  BY ConcatProperties, LenProperties
<1> QED
  BY <1>1 DEF Calm

\* The pieces that requests' calls are made of are calm.
LEMMA CalmPieces ==
  /\ Calm(<<>>) /\ Calm(Persist) /\ Calm(<<"upsert">>) /\ Calm(<<"refresh">>)
  /\ Calm(<<"resume">>) /\ Calm(<<"suspend">>) /\ Calm(<<"resume", "upsert">>)
  /\ Calm(<<"upsert", "reread">>) /\ Calm(<<"unschedule">>) /\ Calm(<<"rebuild">>)
  /\ Calm(<<"reconcile", "reread">>)
BY DEF Calm, Persist

\* What remains of a calm sequence is calm.
LEMMA CalmTail ==
  ASSUME NEW c \in CallRecords, c.todo # <<>>, Calm(c.todo), Len(c.todo) # 1
  PROVE  Calm(Tail(c.todo))
<1>1. c.todo \in Seq(Steps) /\ c.todo # <<>>
  BY DEF CallRecords
<1>2. /\ Len(Tail(c.todo)) = Len(c.todo) - 1 /\ Len(c.todo) \in Nat
      /\ \A i \in 1..Len(Tail(c.todo)) : Tail(c.todo)[i] = c.todo[i + 1]
  BY <1>1, HeadTailProperties, LenProperties
<1>3. \A i \in 1..Len(Tail(c.todo)) : i + 1 \in 1..Len(c.todo)
  BY <1>2
<1> QED
  BY <1>2, <1>3 DEF Calm

\* A calm call stays calm to its end.
LEMMA ContinueCalm ==
  ASSUME NEW c \in CallRecords, c.todo # <<>>, Calm(c.todo)
  PROVE  Continue(c) = Idle \/ Calm(Continue(c).todo)
<1>1. CASE Len(c.todo) = 1
  BY <1>1 DEF Continue
<1>2. CASE Len(c.todo) # 1
  <2>1. Calm(Tail(c.todo))
    BY <1>2, CalmTail
  <2>2. [c EXCEPT !.todo = Tail(@)].todo = Tail(c.todo)
    BY DEF CallRecords
  <2> QED
    BY <1>2, <2>1, <2>2 DEF Continue
<1> QED
  BY <1>1, <1>2

\* The sections of a result are calm.
LEMMA CalmMarked ==
  ASSUME NEW from, NEW to PROVE Calm(Marked(from, to))
<1> DEFINE p == IF from # "none" \/ to # "none" THEN Persist ELSE <<>>
           r == <<IF to = "none" THEN "resume" ELSE "suspend">>
<1>1. <<"upsert">> \in Seq(Steps) /\ p \in Seq(Steps) /\ r \in Seq(Steps)
  BY PersistType DEF Steps
<1>2. Calm(p) /\ Calm(r) /\ Calm(<<"upsert">>)
  BY CalmPieces
<1>3. Marked(from, to) = (<<"upsert">> \o p) \o r
  BY DEF Marked
<1> HIDE DEF p, r
<1> QED
  BY <1>1, <1>2, <1>3, CalmParts, ConcatProperties

\* And those that follow a deletion.
LEMMA CalmAfterDelete == Calm(AfterDelete)
<1>1. <<"unschedule">> \in Seq(Steps)
  BY DEF Steps
<1> QED
  BY <1>1, PersistType, CalmParts, CalmPieces DEF AfterDelete

-----------------------------------------------------------------------------
(* Steps *)

\* The call of u is left alone, but for the object it may hold.
SameCall(u) ==
    /\ call'[u] = Idle <=> call[u] = Idle
    /\ call[u] # Idle =>
         /\ call'[u].auth = call[u].auth /\ call'[u].todo = call[u].todo
         /\ ~call[u].live => ~call'[u].live /\ call'[u].snap = call[u].snap

\* The call of t stays calm, or goes on from the scheduler to the registry.
CalmMove(t) ==
    \/ /\ call[t] = Idle \/ Calm(call[t].todo)
       /\ call'[t] = Idle \/ Calm(call'[t].todo)
    \/ /\ call[t] # Idle /\ call[t].todo = Scheduled
       /\ call'[t] # Idle /\ call'[t].todo = ModelRegistration
       /\ call'[t].auth = call[t].auth

SameCredentials ==
    /\ registered' = registered
    /\ \A a \in Auths : auths'[a] = Absent <=> auths[a] = Absent

\* A call in progress is about a credential.
LEMMA CallAuth ==
  ASSUME TypeOK, NEW t \in Threads, call[t] # Idle
  PROVE  call[t] \in Calls /\ call[t] \in CallRecords /\ call[t].auth \in Auths
         /\ call[t].todo # <<>>
BY DEF TypeOK, Calls, CallRecords

\* Steps that put nothing in the map or the registry and take nothing out.
LEMMA CalmStep ==
  ASSUME TypeOK, RegistryInv, NEW t \in Threads, SameCredentials, CalmMove(t),
         \A u \in Threads \ {t} : SameCall(u)
  PROVE  RegistryInv'
<1>1. ASSUME NEW a \in Auths PROVE Agree(a)' <=> Agree(a)
  BY DEF Agree, SameCredentials
<1>2. ASSUME NEW u \in Threads PROVE CallInv(u)'
  <2>1. CASE u # t
    <3>1. SameCall(u) /\ CallInv(u)
      BY <2>1 DEF RegistryInv
    <3>2. CASE call[u] = Idle
      BY <3>1, <3>2 DEF SameCall, CallInv
    <3>3. CASE call[u] # Idle
      <4>1. call[u].auth \in Auths
        BY <3>3, CallAuth
      <4> QED
        BY <1>1, <3>1, <3>3, <4>1 DEF SameCall, CallInv, SameCredentials
    <3> QED
      BY <3>2, <3>3
  <2>2. CASE u = t /\ (call'[t] = Idle \/ Calm(call'[t].todo))
    BY <2>2, FormsDiffer DEF CallInv, Forms
  <2>3. CASE u = t /\ call[t] # Idle /\ call[t].todo = Scheduled
             /\ call'[t] # Idle /\ call'[t].todo = ModelRegistration
             /\ call'[t].auth = call[t].auth
    <3>1. CallInv(t) /\ call[t].auth \in Auths
      BY <2>3, CallAuth DEF RegistryInv
    <3>2. t \in Updaters /\ auths[call[t].auth] # Absent
      BY <2>3, <3>1, FormsDiffer DEF CallInv, Forms
    <3> QED
      BY <2>3, <3>1, <3>2, FormsDiffer DEF CallInv, Forms, SameCredentials
  <2> QED
    BY <2>1, <2>2, <2>3 DEF CalmMove
<1>3. ASSUME NEW a \in Auths, \A u \in Threads : CalmOn(call[u], a)'
      PROVE  Agree(a)'
  <2>1. ASSUME NEW u \in Threads PROVE CalmOn(call[u], a)
    <3>1. CalmOn(call'[u], a)
      BY <1>3
    <3>2. CASE u # t
      BY <3>1, <3>2 DEF SameCall, CalmOn
    <3>3. CASE u = t
      BY <3>1, <3>3, FormsDiffer DEF CalmMove, CalmOn, Forms
    <3> QED
      BY <3>2, <3>3
  <2> QED
    BY <1>1, <2>1 DEF RegistryInv
<1> QED
  BY <1>2, <1>3 DEF RegistryInv

\* While the updater acts, everybody else is calm.
LEMMA OthersCalm ==
  ASSUME OneUpdater, RegistryInv, NEW t \in Updaters, NEW u \in Threads \ {t}
  PROVE  call[u] = Idle \/ Calm(call[u].todo)
BY DEF OneUpdater, RegistryInv, CallInv

\* So what a credential is, is told by the updater's call alone.
LEMMA UpdaterStep ==
  ASSUME OneUpdater, TypeOK, RegistryInv, NEW t \in Updaters, t \in Threads,
         \A u \in Threads \ {t} : SameCall(u), CallInv(t)',
         \A a \in Auths : CalmOn(call'[t], a) => Agree(a)'
  PROVE  RegistryInv'
<1>1. ASSUME NEW u \in Threads \ {t}
      PROVE  call'[u] = Idle \/ Calm(call'[u].todo)
  BY OthersCalm DEF SameCall
<1>2. ASSUME NEW u \in Threads PROVE CallInv(u)'
  <2>1. CASE u # t
    BY <1>1, <2>1, FormsDiffer DEF CallInv, Forms
  <2> QED
    BY <2>1
<1>3. ASSUME NEW a \in Auths, \A u \in Threads : CalmOn(call[u], a)'
      PROVE  Agree(a)'
  <2>1. CalmOn(call'[t], a)
    BY <1>3
  <2> QED
    BY <2>1
<1> QED
  BY <1>2, <1>3 DEF RegistryInv

\* A credential that no call of the updater is about is where it belongs.
LEMMA AgreeElsewhere ==
  ASSUME OneUpdater, RegistryInv, NEW t \in Updaters, t \in Threads, NEW a \in Auths,
         CalmOn(call[t], a)
  PROVE  Agree(a)
<1>1. ASSUME NEW u \in Threads PROVE CalmOn(call[u], a)
  BY OthersCalm DEF CalmOn
<1> QED
  BY <1>1 DEF RegistryInv

\* Replacing or changing the object of a credential leaves calls as they are,
\* and those that do not hold it with the copy they have.
LEMMA TouchKeeps ==
  ASSUME NEW calls \in CallTable, NEW a \in Auths, NEW c \in Creds, NEW u \in Threads
  PROVE  LET d == Touch(calls, a, c)[u] IN
         /\ d = Idle <=> calls[u] = Idle
         /\ calls[u] # Idle =>
              /\ d.auth = calls[u].auth /\ d.todo = calls[u].todo /\ d.live = calls[u].live
              /\ ~calls[u].live => d.snap = calls[u].snap
<1>1. CASE calls[u] # Idle /\ calls[u].auth = a /\ calls[u].live
  <2> DEFINE e == [calls[u] EXCEPT !.snap = c]
  <2>1. calls[u] \in Calls
    BY <1>1 DEF CallTable
  <2>2. e \in Calls /\ e.auth = calls[u].auth /\ e.todo = calls[u].todo
        /\ e.live = calls[u].live
    BY <2>1 DEF Calls, CallRecords
  <2>3. e # Idle
    BY <2>2, MarksAssumption
  <2>4. Touch(calls, a, c)[u] = e
    BY <1>1 DEF Touch
  <2> HIDE DEF e
  <2> QED
    BY <1>1, <2>2, <2>3, <2>4
<1>2. CASE ~(calls[u] # Idle /\ calls[u].auth = a /\ calls[u].live)
  <2>1. Touch(calls, a, c)[u] = calls[u]
    BY <1>2 DEF Touch
  <2> QED
    BY <2>1
<1> QED
  BY <1>1, <1>2

\* A call that loses its object goes on with the copy it has.
LEMMA DetachKeeps ==
  ASSUME NEW calls \in CallTable, NEW a \in Auths, NEW u \in Threads
  PROVE  LET d == Detach(calls, a)[u] IN
         /\ d = Idle <=> calls[u] = Idle
         /\ calls[u] # Idle =>
              /\ d.auth = calls[u].auth /\ d.todo = calls[u].todo
              /\ d.snap = calls[u].snap /\ (~calls[u].live => ~d.live)
<1>1. CASE calls[u] # Idle /\ calls[u].auth = a
  <2> DEFINE e == [calls[u] EXCEPT !.live = FALSE]
  <2>1. calls[u] \in Calls
    BY <1>1 DEF CallTable
  <2>2. e \in Calls /\ e.auth = calls[u].auth /\ e.todo = calls[u].todo
        /\ e.snap = calls[u].snap /\ ~e.live
    BY <2>1 DEF Calls, CallRecords
  <2>3. e # Idle
    BY <2>2, MarksAssumption
  <2>4. Detach(calls, a)[u] = e
    BY <1>1 DEF Detach
  <2> HIDE DEF e
  <2> QED
    BY <1>1, <2>2, <2>3, <2>4
<1>2. CASE ~(calls[u] # Idle /\ calls[u].auth = a)
  <2>1. Detach(calls, a)[u] = calls[u]
    BY <1>2 DEF Detach
  <2> QED
    BY <2>1
<1> QED
  BY <1>1, <1>2

-----------------------------------------------------------------------------
(* Actions of requests *)

\* A call whose next section is none of these is calm.
LEMMA HeadCalm ==
  ASSUME TypeOK, RegistryInv, NEW t \in Threads, NEW step, At(t, step),
         step \notin {"delete", "put", "upsert", "register"}
  PROVE  Calm(call[t].todo)
<1>1. CallInv(t) /\ call[t] # Idle /\ Head(call[t].todo) = step
  BY DEF RegistryInv, At
<1> QED
  BY <1>1, FormsDiffer DEF CallInv, Forms

\* A section after which the call goes on with what it has still to do.
LEMMA AdvanceCalm ==
  ASSUME TypeOK, RegistryInv, NEW t \in Threads, call[t] # Idle, Calm(call[t].todo),
         NEW c \in CallRecords, c.todo = call[t].todo,
         call' = Advance(t, c), SameCredentials
  PROVE  RegistryInv'
<1>1. call' = [call EXCEPT ![t] = Continue(c)] /\ call \in CallTable
  BY DEF Advance, TypeOK, CallTable
<1>2. c.todo # <<>>
  BY CallAuth
<1>3. call'[t] = Idle \/ Calm(call'[t].todo)
  BY <1>1, <1>2, ContinueCalm DEF CallTable
<1>4. \A u \in Threads \ {t} : SameCall(u)
  BY <1>1 DEF CallTable, SameCall
<1> QED
  BY <1>3, <1>4, CalmStep DEF CalmMove

\* Every section that is not an updater's.
LEMMA SectionsCalm ==
  ASSUME TypeOK, RegistryInv, NEW t \in Threads,
         \/ Collect(t) \/ Save(t) \/ Suspend(t) \/ Resume(t) \/ Unschedule(t)
         \/ Reread(t) \/ RefreshFail(t) \/ Rebuild(t)
  PROVE  RegistryInv'
<1>1. SameCredentials
  BY DEF Collect, Save, Suspend, Resume, Unschedule, Reread, RefreshFail, Rebuild,
         SameCredentials
<1>2. call[t] # Idle /\ call[t] \in CallRecords /\ Calm(call[t].todo)
  <2>1. call[t] # Idle /\ Calm(call[t].todo)
    BY HeadCalm DEF Collect, Save, Suspend, Resume, Unschedule, Reread, RefreshFail,
                    Rebuild, At
  <2> QED
    BY <2>1, CallAuth
<1>3. CASE Collect(t)
  <2> DEFINE c == [call[t] EXCEPT !.records = [a \in Auths |-> Hold(a)]]
  <2>1. [a \in Auths |-> Hold(a)] \in [Auths -> Holds]
    BY DEF TypeOK, Hold, Creds, Holds
  <2>2. c \in CallRecords /\ c.todo = call[t].todo
    BY <1>2, <2>1 DEF CallRecords
  <2>3. call' = Advance(t, c)
    BY <1>3 DEF Collect
  <2> HIDE DEF c
  <2> QED
    BY <1>1, <1>2, <2>2, <2>3, AdvanceCalm
<1>4. CASE Save(t)
  <2> DEFINE c == [call[t] EXCEPT !.records = NoRecords]
  <2>1. NoRecords \in [Auths -> Holds]
    BY DEF NoRecords, Holds
  <2>2. c \in CallRecords /\ c.todo = call[t].todo
    BY <1>2, <2>1 DEF CallRecords
  <2>3. call' = Advance(t, c)
    BY <1>4 DEF Save
  <2> HIDE DEF c
  <2> QED
    BY <1>1, <1>2, <2>2, <2>3, AdvanceCalm
<1>5. CASE Suspend(t) \/ Resume(t) \/ Unschedule(t) \/ Rebuild(t)
  <2>1. call' = Advance(t, call[t])
    BY <1>5 DEF Suspend, Resume, Unschedule, Rebuild
  <2> QED
    BY <1>1, <1>2, <2>1, AdvanceCalm
<1>6. CASE Reread(t) \/ RefreshFail(t)
  <2>1. call'[t] = Idle \/ call'[t].todo = <<"upsert">>
    BY <1>2, <1>6 DEF Reread, RefreshFail, TypeOK, CallRecords
  <2>2. \A u \in Threads \ {t} : SameCall(u)
    BY <1>6 DEF Reread, RefreshFail, SameCall, TypeOK
  <2> QED
    BY <1>1, <1>2, <2>1, <2>2, CalmPieces, CalmStep DEF CalmMove
<1> QED
  BY <1>3, <1>4, <1>5, <1>6

\* The upsert of a version is followed by its registration.
LEMMA UpsertCalm ==
  ASSUME TypeOK, RegistryInv, NEW t \in Threads, Upsert(t)
  PROVE  RegistryInv'
<1> DEFINE c == [call[t] EXCEPT !.snap = Absent, !.live = FALSE]
<1>1. /\ call[t] # Idle /\ call[t] \in CallRecords /\ call[t].todo # <<>>
      /\ Head(call[t].todo) = "upsert" /\ SameCredentials
  BY CallAuth DEF Upsert, At, SameCredentials
<1>2. c \in CallRecords /\ c.todo = call[t].todo /\ c.auth = call[t].auth
  BY <1>1 DEF CallRecords
<1>3. call' = Advance(t, c)
  BY DEF Upsert
<1> HIDE DEF c
<1>4. CASE Calm(call[t].todo)
  BY <1>1, <1>2, <1>3, <1>4, AdvanceCalm
<1>5. CASE ~Calm(call[t].todo)
  <2>1. call[t].todo = Scheduled
    BY <1>1, <1>5, FormsDiffer DEF RegistryInv, CallInv, Forms
  <2>2. Continue(c) = [c EXCEPT !.todo = ModelRegistration]
    <3>1. Len(c.todo) = 4 /\ Tail(c.todo) = ModelRegistration
      BY <1>2, <2>1, FormsDiffer
    <3>2. Continue(c) = [c EXCEPT !.todo = Tail(c.todo)]
      BY <3>1 DEF Continue
    <3> QED
      BY <3>1, <3>2
  <2>3. call'[t] = [c EXCEPT !.todo = ModelRegistration]
    BY <1>3, <2>2 DEF Advance, TypeOK
  <2>4. call'[t].todo = ModelRegistration /\ call'[t].auth = call[t].auth
    BY <1>2, <2>3 DEF CallRecords
  <2>5. call'[t] # Idle
    <3>1. call'[t] \in Calls
      BY <1>2, <2>3, RegistrationType DEF Calls, CallRecords
    <3> QED
      BY <3>1, MarksAssumption
  <2>6. \A u \in Threads \ {t} : SameCall(u)
    BY <1>3 DEF Advance, SameCall, TypeOK
  <2> QED
    BY <1>1, <2>1, <2>4, <2>5, <2>6, CalmStep DEF CalmMove
<1> QED
  BY <1>4, <1>5

\* A new call that is calm, and changes its credential in place or not at all.
LEMMA NewCallCalm ==
  ASSUME TypeOK, RegistryInv, NEW t \in Threads, call[t] = Idle,
         NEW c \in Calls, Calm(c.todo), ~c.live, SameCredentials,
         \/ call' = Enter(t, c)
         \/ \E a \in Auths, new \in Creds : call' = Touch(Enter(t, c), a, new)
  PROVE  RegistryInv'
<1>1. Enter(t, c) \in CallTable /\ Enter(t, c)[t] = c
      /\ \A u \in Threads \ {t} : Enter(t, c)[u] = call[u]
  BY DEF Enter, TypeOK, CallTable
<1>2. c # Idle
  BY MarksAssumption
<1>3. /\ \A u \in Threads \ {t} : SameCall(u)
      /\ call'[t].todo = c.todo
  <2>1. CASE call' = Enter(t, c)
    BY <1>1, <2>1 DEF SameCall
  <2>2. ASSUME NEW a \in Auths, NEW new \in Creds, call' = Touch(Enter(t, c), a, new)
        PROVE  /\ \A u \in Threads \ {t} : SameCall(u)
               /\ call'[t].todo = c.todo
    BY <1>1, <1>2, <2>2, TouchKeeps DEF SameCall
  <2> QED
    BY <2>1, <2>2
<1> QED
  BY <1>3, CalmStep DEF CalmMove

\* MarkResult begins a calm call.
LEMMA MarkResultCalm ==
  ASSUME TypeOK, RegistryInv, TypeOK', NEW t \in Threads, NEW a \in Auths,
         NEW hold \in Holds, MarkResult(t, a, hold)
  PROVE  RegistryInv'
<1> DEFINE new == [hold |-> hold, done |-> auths[a].done + 1]
           c == NewCall(a, new, Marked(auths[a].hold, hold))
<1>1. /\ call[t] = Idle /\ auths[a] # Absent
      /\ auths' = [auths EXCEPT ![a] = new] /\ registered' = registered
      /\ call' = Touch(Enter(t, c), a, new)
  BY DEF MarkResult
<1>2. new \in Creds
  <2>1. auths'[a] = new /\ new # Absent
    <3>1. auths[a] \in Creds /\ auths[a].done < MaxResults
      BY <1>1 DEF TypeOK, MarkResult
    <3>2. new \in Creds
      BY <3>1, MaxResultsAssumption DEF Creds
    <3> QED
      BY <1>1, <3>2, MarksAssumption DEF TypeOK
  <2> QED
    BY <2>1 DEF TypeOK
<1>3. c \in Calls /\ c.todo = Marked(auths[a].hold, hold) /\ ~c.live
  <2>1. c \in Calls
    BY <1>2, MarkedType, NewCallType DEF Credentials
  <2> QED
    BY <2>1 DEF NewCall
<1>4. SameCredentials
  BY <1>1, <1>2, MarksAssumption DEF SameCredentials, TypeOK
<1> HIDE DEF new, c
<1> QED
  BY <1>1, <1>2, <1>3, <1>4, CalmMarked, NewCallCalm

\* So does ResetQuota, ...
LEMMA ResetQuotaCalm ==
  ASSUME TypeOK, RegistryInv, NEW t \in Threads, NEW a \in Auths, ResetQuota(t, a)
  PROVE  RegistryInv'
<1> DEFINE new == [auths[a] EXCEPT !.hold = "none"]
           p == IF auths[a].hold = "none" THEN <<>> ELSE Persist
           ru == <<"resume", "upsert">>
           todo == ru \o p
           c == NewCall(a, new, todo)
<1>1. /\ call[t] = Idle /\ auths[a] \in Creds
      /\ auths' = [auths EXCEPT ![a] = new] /\ registered' = registered
      /\ call' = Touch(Enter(t, c), a, new)
  BY DEF ResetQuota, TypeOK
<1>2. new \in Creds
  BY <1>1 DEF Creds, Holds
<1>3. todo \in Seq(Steps) /\ todo # <<>> /\ Calm(todo)
  <2>1. p \in Seq(Steps) /\ ru \in Seq(Steps) /\ Calm(p) /\ Calm(ru) /\ Len(ru) = 2
    BY PersistType, CalmPieces DEF Steps
  <2> HIDE DEF p, ru
  <2>2. todo \in Seq(Steps) /\ Calm(todo) /\ Len(todo) = 2 + Len(p) /\ Len(p) \in Nat
    <3>1. ru \o p \in Seq(Steps) /\ Len(ru \o p) = Len(ru) + Len(p)
      BY <2>1, ConcatProperties
    <3>2. Calm(ru \o p) /\ Len(p) \in Nat
      BY <2>1, CalmParts, LenProperties
    <3> QED
      BY <2>1, <3>1, <3>2
  <2>3. Len(todo) # 0
    BY <2>2
  <2> QED
    BY <2>2, <2>3, EmptySeq
<1> HIDE DEF todo
<1>4. c \in Calls /\ c.todo = todo /\ ~c.live
  <2>1. c \in Calls
    BY <1>2, <1>3, NewCallType DEF Credentials
  <2> QED
    BY <2>1 DEF NewCall
<1>5. SameCredentials
  BY <1>1, <1>2, MarksAssumption DEF SameCredentials, TypeOK
<1> HIDE DEF new, c
<1> QED
  BY <1>1, <1>2, <1>3, <1>4, <1>5, NewCallCalm

\* ... a token refresh, ...
LEMMA RefreshStartCalm ==
  ASSUME TypeOK, RegistryInv, NEW t \in Threads, NEW a \in Auths, RefreshStart(t, a)
  PROVE  RegistryInv'
<1> DEFINE c == [NewCall(a, auths[a], <<"refresh">>) EXCEPT !.refreshing = TRUE]
<1>1. /\ call[t] = Idle /\ auths[a] \in Creds /\ SameCredentials
      /\ call' = Enter(t, c)
  BY DEF RefreshStart, TypeOK, SameCredentials
<1>2. c.todo = <<"refresh">> /\ ~c.live
  BY DEF NewCall
<1>3. \A u \in Threads \ {t} : SameCall(u)
  BY <1>1 DEF Enter, SameCall, TypeOK
<1>4. call'[t].todo = <<"refresh">>
  BY <1>1, <1>2 DEF Enter, TypeOK
<1> QED
  BY <1>1, <1>3, <1>4, CalmPieces, CalmStep DEF CalmMove

\* ... and the resync of the scheduler.
LEMMA ResyncCalm ==
  ASSUME TypeOK, RegistryInv, NEW t \in Threads, Resync(t)
  PROVE  RegistryInv'
<1>1. /\ call[t] = Idle /\ SameCredentials
      /\ \A u \in Threads \ {t} : SameCall(u)
      /\ call'[t].todo = <<"rebuild">>
  BY DEF Resync, Enter, SameCall, TypeOK, SameCredentials, NewCall
<1> QED
  BY <1>1, CalmPieces, CalmStep DEF CalmMove

\* A reconcile writes the credential it found.
LEMMA ReconcileCalm ==
  ASSUME TypeOK, RegistryInv, NEW t \in Threads, Reconcile(t)
  PROVE  RegistryInv'
<1> DEFINE a == call[t].auth
           new == [auths[a] EXCEPT !.hold = "none"]
           c == [call[t] EXCEPT !.snap = new, !.todo = <<"upsert", "reread">>]
           calls == [call EXCEPT ![t] = c]
<1>1. call[t] # Idle /\ call[t] \in CallRecords /\ a \in Auths /\ Calm(call[t].todo)
  <2>1. call[t] # Idle /\ Calm(call[t].todo)
    BY HeadCalm DEF Reconcile, At
  <2> QED
    BY <2>1, CallAuth
<1>2. CASE auths[a] = Absent \/ auths[a].hold = "none"
  <2>1. call' = Advance(t, call[t]) /\ SameCredentials
    BY <1>2 DEF Reconcile, SameCredentials
  <2> QED
    BY <1>1, <2>1, AdvanceCalm
<1>3. CASE ~(auths[a] = Absent \/ auths[a].hold = "none")
  <2>1. /\ auths' = [auths EXCEPT ![a] = new] /\ registered' = registered
        /\ call' = Touch(calls, a, new)
    BY <1>3 DEF Reconcile
  <2>2. new \in Creds /\ SameCredentials
    <3>1. auths[a] \in Creds
      BY <1>1, <1>3 DEF TypeOK
    <3>2. new \in Creds
      BY <3>1 DEF Creds, Holds
    <3> QED
      BY <1>1, <2>1, <3>1, <3>2, MarksAssumption DEF SameCredentials, TypeOK
  <2> HIDE DEF new
  <2>3. c \in CallRecords /\ c.todo = <<"upsert", "reread">>
    <3>1. <<"upsert", "reread">> \in Seq(Steps)
      BY DEF Steps
    <3> QED
      BY <1>1, <2>2, <3>1 DEF CallRecords
  <2>4. c \in Calls
    <3>1. <<"upsert", "reread">> # <<>> /\ <<"upsert", "reread">> # <<"refresh">>
      OBVIOUS
    <3> HIDE DEF c
    <3> QED
      BY <2>3, <3>1 DEF Calls
  <2> HIDE DEF c
  <2>5. calls \in CallTable /\ calls[t] = c /\ \A u \in Threads \ {t} : calls[u] = call[u]
    BY <2>4 DEF TypeOK, CallTable
  <2> HIDE DEF calls
  <2>6. /\ \A u \in Threads \ {t} : SameCall(u)
        /\ call'[t].todo = <<"upsert", "reread">>
    BY <1>1, <2>1, <2>2, <2>3, <2>4, <2>5, TouchKeeps, MarksAssumption DEF SameCall
  <2> QED
    BY <1>1, <2>2, <2>6, CalmPieces, CalmStep DEF CalmMove
<1> QED
  BY <1>2, <1>3

\* What a refresh leaves of a credential that is there is a credential.
LEMMA RefreshDoneCalm ==
  ASSUME TypeOK, RegistryInv, NEW t \in Threads, RefreshDone(t)
  PROVE  RegistryInv'
<1> DEFINE a == call[t].auth
           resumes == call[t].snap.hold = "unauthorized"
           copy == IF resumes THEN [call[t].snap EXCEPT !.hold = "none"]
                   ELSE call[t].snap
           resume == IF resumes THEN <<"resume">> ELSE <<>>
           new == Merge(copy, auths[a])
           todo == <<"upsert">> \o resume
           c == [call[t] EXCEPT !.snap = new, !.live = TRUE, !.todo = todo]
<1>1. call[t] # Idle /\ call[t] \in CallRecords /\ a \in Auths /\ Calm(call[t].todo)
  <2>1. call[t] # Idle /\ Calm(call[t].todo)
    BY HeadCalm DEF RefreshDone, At
  <2> QED
    BY <2>1, CallAuth
<1>2. registered' = registered
  BY DEF RefreshDone
<1>3. Calm(resume)
  BY CalmPieces
<1>4. CASE auths[a] = Absent
  <2>1. /\ auths' = auths
        /\ call' = [call EXCEPT ![t] = IF resumes THEN [@ EXCEPT !.todo = resume] ELSE Idle]
    BY <1>4 DEF RefreshDone
  <2> HIDE DEF resume, resumes
  <2>2. call'[t] = Idle \/ call'[t] = [call[t] EXCEPT !.todo = resume]
    BY <2>1 DEF TypeOK
  <2>3. call'[t] = Idle \/ call'[t].todo = resume
    BY <1>1, <2>2 DEF CallRecords
  <2>4. \A u \in Threads \ {t} : SameCall(u)
    BY <2>1 DEF SameCall, TypeOK
  <2>5. SameCredentials
    BY <1>2, <2>1 DEF SameCredentials
  <2> QED
    BY <1>1, <1>3, <2>3, <2>4, <2>5, CalmStep DEF CalmMove
<1>5. CASE auths[a] # Absent
  <2>1. /\ auths' = [auths EXCEPT ![a] = new]
        /\ call' = [Detach(call, a) EXCEPT ![t] = c]
    BY <1>5 DEF RefreshDone
  <2>2. new \in Creds
    <3>1. copy \in Creds
      BY RefreshCarries DEF Creds, Holds, RefreshDone
    <3>2. auths[a] \in Creds
      BY <1>1, <1>5 DEF TypeOK
    <3> HIDE DEF copy
    <3> QED
      BY <3>1, <3>2, MergeType
  <2>3. todo \in Seq(Steps) /\ Calm(todo)
    <3>1. <<"upsert">> \in Seq(Steps) /\ resume \in Seq(Steps)
      <4>1. <<"upsert">> \in Seq(Steps) /\ <<"resume">> \in Seq(Steps) /\ <<>> \in Seq(Steps)
        BY DEF Steps
      <4> HIDE DEF resumes
      <4> QED
        BY <4>1
    <3>2. Calm(<<"upsert">>)
      BY CalmPieces
    <3> HIDE DEF resume
    <3> QED
      BY <1>3, <3>1, <3>2, CalmParts, ConcatProperties
  <2> HIDE DEF new, todo
  <2>4. c.todo = todo
    BY <1>1 DEF CallRecords
  <2> HIDE DEF c
  <2>5. call \in CallTable /\ DOMAIN Detach(call, a) = Threads
    BY DEF Detach, TypeOK, CallTable
  <2>6. call'[t] = c /\ \A u \in Threads \ {t} : call'[u] = Detach(call, a)[u]
    BY <2>1, <2>5
  <2>7. \A u \in Threads \ {t} : SameCall(u)
    BY <1>1, <2>5, <2>6, DetachKeeps DEF SameCall
  <2>8. SameCredentials
    BY <1>1, <1>2, <1>5, <2>1, <2>2, MarksAssumption DEF SameCredentials, TypeOK
  <2> QED
    BY <1>1, <2>3, <2>4, <2>6, <2>7, <2>8, CalmStep DEF CalmMove
<1> QED
  BY <1>4, <1>5

-----------------------------------------------------------------------------
(* Actions of the updater *)

\* A removal takes the credential out of the registry first, ...
LEMMA UnregisterStep ==
  ASSUME OneUpdater, TypeOK, RegistryInv, NEW t \in Threads, NEW a \in Auths,
         Unregister(t, a)
  PROVE  RegistryInv'
<1> DEFINE c == NewCall(a, Absent, Removal)
<1>1. /\ call[t] = Idle /\ t \in Updaters /\ auths' = auths
      /\ registered' = [registered EXCEPT ![a] = FALSE]
      /\ call' = [call EXCEPT ![t] = c]
  BY DEF Unregister, Enter, Removal
<1>2. c.auth = a /\ c.todo = Removal
  BY DEF NewCall
<1> HIDE DEF c
<1>3. call'[t] = c /\ \A u \in Threads \ {t} : SameCall(u)
  BY <1>1 DEF SameCall, TypeOK
<1>4. ~registered'[a] /\ \A b \in Auths \ {a} : Agree(b)' <=> Agree(b)
  BY <1>1 DEF Agree, TypeOK
<1>5. CallInv(t)'
  BY <1>1, <1>2, <1>3, <1>4, FormsDiffer DEF CallInv, Forms
<1>6. ASSUME NEW b \in Auths, CalmOn(call'[t], b) PROVE Agree(b)'
  <2>1. CASE b = a /\ c = Idle
    <3>1. c \in Calls
      <4>1. Removal \in Seq(Steps) /\ Removal # <<>>
        <5>1. Removal \in Seq(Steps) /\ Len(Removal) # 0
          BY DEF Removal, Steps
        <5> QED
          BY <5>1, EmptySeq
      <4> QED
        BY <4>1, NewCallType DEF Credentials, c
    <3> QED
      BY <2>1, <3>1, MarksAssumption
  <2>2. CASE b = a /\ c # Idle
    BY <1>2, <1>3, <1>6, <2>2, FormsDiffer DEF CalmOn, Forms
  <2>3. CASE b # a
    <3>1. Agree(b)
      BY <1>1, AgreeElsewhere DEF CalmOn
    <3> QED
      BY <1>4, <2>3, <3>1
  <2> QED
    BY <2>1, <2>2, <2>3
<1> QED
  BY <1>1, <1>3, <1>5, <1>6, UpdaterStep

\* A call at one of its sections has a form, and is the updater's.
LEMMA FormAt ==
  ASSUME TypeOK, RegistryInv, NEW t \in Threads
  PROVE  /\ At(t, "delete") => call[t].todo = Removal
         /\ At(t, "put") => call[t].todo = Version
         /\ At(t, "register") => call[t].todo = ModelRegistration
         /\ \A step \in {"delete", "put", "register"} : At(t, step) =>
               t \in Updaters /\ call[t] # Idle /\ ~Calm(call[t].todo)
<1> SUFFICES ASSUME NEW step \in {"delete", "put", "register"}, At(t, step)
             PROVE  /\ t \in Updaters /\ call[t] # Idle /\ ~Calm(call[t].todo)
                    /\ step = "delete" => call[t].todo = Removal
                    /\ step = "put" => call[t].todo = Version
                    /\ step = "register" => call[t].todo = ModelRegistration
  OBVIOUS
<1>1. CallInv(t) /\ call[t] # Idle /\ Head(call[t].todo) = step
  BY DEF RegistryInv, At
<1>2. ~Calm(call[t].todo)
  <2>1. call[t].todo # <<>> /\ (call[t].todo \in Seq(Steps) \/ call[t].todo = <<"refresh">>)
    BY <1>1, CallAuth DEF CallRecords
  <2>2. Head(<<"refresh">>) = "refresh"
    OBVIOUS
  <2>3. call[t].todo \in Seq(Steps)
    BY <1>1, <2>1, <2>2
  <2>4. Len(call[t].todo) \in Nat \ {0} /\ call[t].todo[1] = step
    BY <1>1, <2>1, <2>3, EmptySeq, LenProperties
  <2> QED
    BY <2>4 DEF Calm
<1> QED
  BY <1>1, <1>2, FormsDiffer DEF CallInv, Forms

\* ... and then out of the map.
LEMMA DeleteStep ==
  ASSUME OneUpdater, TypeOK, RegistryInv, NEW t \in Threads, Delete(t)
  PROVE  RegistryInv'
<1> DEFINE a == call[t].auth
<1>1. /\ call[t].todo = Removal /\ t \in Updaters /\ call[t] # Idle
      /\ a \in Auths /\ call[t] \in Calls /\ ~registered[a] /\ registered' = registered
  <2>1. call[t].todo = Removal /\ t \in Updaters /\ call[t] # Idle /\ registered' = registered
    BY FormAt DEF Delete
  <2> QED
    BY <2>1, CallAuth DEF RegistryInv, CallInv
<1>2. ASSUME NEW b \in Auths, b # a PROVE Agree(b)
  BY <1>1, <1>2, AgreeElsewhere DEF CalmOn
<1>3. CASE auths[a] = Absent
  <2>1. /\ auths' = auths /\ call' = Advance(t, call[t])
    BY <1>3 DEF Delete
  <2>2. call'[t] = Idle
    BY <1>1, <2>1, FormsDiffer DEF Advance, Continue, TypeOK
  <2>3. \A u \in Threads \ {t} : SameCall(u)
    BY <2>1 DEF Advance, SameCall, TypeOK
  <2>4. \A b \in Auths : Agree(b)'
    BY <1>1, <1>2, <1>3, <2>1 DEF Agree
  <2> QED
    BY <1>1, <2>2, <2>3, <2>4, UpdaterStep DEF CallInv
<1>4. CASE auths[a] # Absent
  <2> DEFINE c == [call[t] EXCEPT !.todo = AfterDelete]
             calls == [call EXCEPT ![t] = c]
  <2>1. auths' = [auths EXCEPT ![a] = Absent] /\ call' = Detach(calls, a)
    BY <1>4 DEF Delete
  <2>2. c \in Calls /\ c.todo = AfterDelete
    BY <1>1, AfterDeleteType DEF Calls, CallRecords
  <2> HIDE DEF c
  <2>3. calls \in CallTable /\ calls[t] = c /\ \A u \in Threads \ {t} : calls[u] = call[u]
    BY <2>2 DEF TypeOK, CallTable
  <2> HIDE DEF calls
  <2>4. /\ \A u \in Threads \ {t} : SameCall(u)
        /\ call'[t].todo = AfterDelete
    BY <1>1, <2>1, <2>2, <2>3, DetachKeeps, MarksAssumption DEF SameCall
  <2>5. CallInv(t)'
    BY <2>4, CalmAfterDelete, FormsDiffer DEF CallInv, Forms
  <2>6. \A b \in Auths : Agree(b)'
    BY <1>1, <1>2, <2>1 DEF Agree, TypeOK
  <2> QED
    BY <1>1, <2>4, <2>5, <2>6, UpdaterStep
<1> QED
  BY <1>3, <1>4

\* An addition begins with the new version, ...
LEMMA ApplyStep ==
  ASSUME OneUpdater, TypeOK, RegistryInv, NEW t \in Threads, NEW a \in Auths, Apply(t, a)
  PROVE  RegistryInv'
<1> DEFINE c == NewCall(a, auths[a], Version)
<1>1. /\ call[t] = Idle /\ t \in Updaters /\ auths' = auths /\ registered' = registered
      /\ call' = [call EXCEPT ![t] = c]
  BY DEF Apply, Enter, Version
<1>2. c.auth = a /\ c.todo = Version /\ ~c.live /\ c.snap = auths[a]
  BY DEF NewCall
<1> HIDE DEF c
<1>3. call'[t] = c /\ \A u \in Threads \ {t} : SameCall(u)
  BY <1>1 DEF SameCall, TypeOK
<1>4. \A b \in Auths : Agree(b) /\ Agree(b)'
  <2>1. \A b \in Auths : Agree(b)
    BY <1>1, AgreeElsewhere DEF CalmOn
  <2> QED
    BY <1>1, <2>1 DEF Agree
<1>5. CallInv(t)'
  BY <1>1, <1>2, <1>3, <1>4, FormsDiffer DEF CallInv, Forms
<1> QED
  BY <1>1, <1>3, <1>4, <1>5, UpdaterStep

\* The version is of a credential that is where it was when it was read: the
\* map has one afterwards, whether it was added or replaced.
LEMMA PutStep ==
  ASSUME OneUpdater, TypeOK, RegistryInv, NEW t \in Threads, Put(t)
  PROVE  RegistryInv'
<1> DEFINE a == call[t].auth
           read == call[t].snap
           new == IF read = Absent THEN Fresh ELSE Merge(read, auths[a])
           d == [call[t] EXCEPT !.snap = new, !.live = TRUE]
<1>1. /\ call[t].todo = Version /\ t \in Updaters /\ call[t] # Idle
      /\ a \in Auths /\ call[t] \in Calls /\ read \in Credentials
      /\ read = Absent <=> auths[a] = Absent
      /\ registered' = registered
  <2>1. call[t].todo = Version /\ t \in Updaters /\ call[t] # Idle /\ registered' = registered
    BY FormAt DEF Put
  <2>2. a \in Auths /\ call[t] \in Calls /\ read \in Credentials
    BY <2>1, CallAuth DEF CallRecords, Credentials
  <2> QED
    BY <2>1, <2>2 DEF RegistryInv, CallInv
<1>2. /\ auths' = [auths EXCEPT ![a] = new]
      /\ call' = [Detach(call, a) EXCEPT ![t] = Continue(d)]
  BY <1>1 DEF Put
<1>3. new \in Creds
  <2>1. Fresh \in Creds
    BY MaxResultsAssumption DEF Fresh, Creds, Holds
  <2>2. read # Absent => read \in Creds /\ auths[a] \in Creds
    BY <1>1 DEF TypeOK, Credentials
  <2> QED
    BY <2>1, <2>2, MergeType
<1> HIDE DEF new
<1>4. d \in CallRecords /\ d.todo = Version /\ d.auth = a
  BY <1>1, <1>3 DEF Calls, CallRecords
<1> HIDE DEF d
<1>5. Continue(d) = [d EXCEPT !.todo = Scheduled]
  <2>1. Len(d.todo) = 5 /\ Tail(d.todo) = Scheduled
    BY <1>4, FormsDiffer
  <2>2. Continue(d) = [d EXCEPT !.todo = Tail(d.todo)]
    BY <2>1 DEF Continue
  <2> QED
    BY <2>1, <2>2
<1>6. Continue(d).todo = Scheduled /\ Continue(d).auth = a
  BY <1>4, <1>5 DEF CallRecords
<1>7. call \in CallTable /\ DOMAIN Detach(call, a) = Threads
  BY DEF Detach, TypeOK, CallTable
<1>8. call'[t] = Continue(d) /\ \A u \in Threads \ {t} : call'[u] = Detach(call, a)[u]
  BY <1>2, <1>7
<1>9. \A u \in Threads \ {t} : SameCall(u)
  BY <1>1, <1>7, <1>8, DetachKeeps DEF SameCall
<1>10. auths'[a] # Absent
  BY <1>1, <1>2, <1>3, MarksAssumption DEF TypeOK
<1>11. CallInv(t)'
  BY <1>1, <1>6, <1>8, <1>10, FormsDiffer DEF CallInv, Forms
<1>12. ASSUME NEW b \in Auths, CalmOn(call'[t], b) PROVE Agree(b)'
  <2>1. call'[t] # Idle
    <3>1. call'[t] \in Calls \cup {Idle} /\ Len(d.todo) # 1
      BY <1>4, <1>8, ContinueType, FormsDiffer
    <3>2. [d EXCEPT !.todo = Scheduled] \in Calls
      <4>1. Scheduled \in Seq(Steps) /\ Scheduled # <<>> /\ Scheduled # <<"refresh">>
        <5>1. Scheduled \in Seq(Steps) /\ Len(Scheduled) = 4
          BY FormsAre DEF Steps
        <5> QED
          BY <5>1, EmptySeq, StepsAreNotRefresh
      <4> QED
        BY <1>4, <4>1 DEF Calls, CallRecords
    <3> QED
      BY <1>5, <1>8, <3>2, MarksAssumption
  <2>2. b # a
    BY <1>6, <1>8, <1>12, <2>1, FormsDiffer DEF CalmOn, Forms
  <2>3. Agree(b)
    BY <1>1, <2>2, AgreeElsewhere DEF CalmOn
  <2> QED
    BY <1>1, <1>2, <2>2, <2>3 DEF Agree, TypeOK
<1> QED
  BY <1>1, <1>9, <1>11, <1>12, UpdaterStep

\* ... which is in the map by the time it is registered.
LEMMA RegisterStep ==
  ASSUME OneUpdater, TypeOK, RegistryInv, NEW t \in Threads, Register(t)
  PROVE  RegistryInv'
<1> DEFINE a == call[t].auth
<1>1. /\ call[t].todo = ModelRegistration /\ t \in Updaters /\ call[t] # Idle
      /\ a \in Auths /\ call[t] \in CallRecords
      /\ auths[a] # Absent /\ auths' = auths
      /\ registered' = [registered EXCEPT ![a] = TRUE]
      /\ call' = Advance(t, call[t])
  <2>1. call[t].todo = ModelRegistration /\ t \in Updaters /\ call[t] # Idle
    BY FormAt DEF Register
  <2>2. a \in Auths /\ call[t] \in CallRecords /\ auths[a] # Absent
    BY <2>1, CallAuth DEF RegistryInv, CallInv
  <2> QED
    BY <2>1, <2>2 DEF Register
<1>2. call'[t] = [call[t] EXCEPT !.todo = Tail(ModelRegistration)]
  <2>1. Len(call[t].todo) # 1
    BY <1>1, FormsDiffer
  <2>2. Continue(call[t]) = [call[t] EXCEPT !.todo = Tail(call[t].todo)]
    BY <2>1 DEF Continue
  <2> QED
    BY <1>1, <2>2 DEF Advance, TypeOK
<1>3. Calm(call'[t].todo)
  <2>1. Tail(ModelRegistration) = <<"reconcile", "reread">>
    BY FormsAre
  <2>2. call'[t].todo = Tail(ModelRegistration)
    BY <1>1, <1>2 DEF CallRecords
  <2> QED
    BY <2>1, <2>2, CalmPieces
<1>4. \A u \in Threads \ {t} : SameCall(u)
  BY <1>1 DEF Advance, SameCall, TypeOK
<1>5. CallInv(t)'
  BY <1>3, FormsDiffer DEF CallInv, Forms
<1>6. ASSUME NEW b \in Auths PROVE Agree(b)'
  <2>1. CASE b = a
    BY <1>1, <2>1 DEF Agree, TypeOK
  <2>2. CASE b # a
    <3>1. Agree(b)
      BY <1>1, <2>2, AgreeElsewhere DEF CalmOn
    <3> QED
      BY <1>1, <2>2, <3>1 DEF Agree, TypeOK
  <2> QED
    BY <2>1, <2>2
<1> QED
  BY <1>1, <1>4, <1>5, <1>6, UpdaterStep

-----------------------------------------------------------------------------
\* At the start every credential is where it belongs.
LEMMA RegistryInit == Init => RegistryInv
<1> SUFFICES ASSUME Init PROVE RegistryInv
  OBVIOUS
<1>1. Fresh \in Creds
  BY MaxResultsAssumption DEF Fresh, Creds, Holds
<1> QED
  BY <1>1, MarksAssumption DEF Init, RegistryInv, CallInv, Agree

\* No step leaves one where it does not.
LEMMA RegistryStep ==
  ASSUME OneUpdater, TypeOK, TypeOK', RegistryInv, [Next]_vars
  PROVE  RegistryInv'
<1>1. CASE UNCHANGED vars
  <2>1. call' = call /\ auths' = auths /\ registered' = registered
    BY <1>1 DEF vars
  <2> QED
    BY <2>1 DEF RegistryInv, CallInv, CalmOn, Agree
<1>2. ASSUME NEW t \in Threads, Resync(t) PROVE RegistryInv'
  BY <1>2, ResyncCalm
<1>3. ASSUME NEW t \in Threads, Section(t) PROVE RegistryInv'
  BY <1>3, UpsertCalm, SectionsCalm, DeleteStep, PutStep, RegisterStep, ReconcileCalm,
     RefreshDoneCalm DEF Section
<1>4. ASSUME NEW t \in Threads, NEW a \in Auths, Begin(t, a) PROVE RegistryInv'
  BY <1>4, MarkResultCalm, ResetQuotaCalm, UnregisterStep, ApplyStep, RefreshStartCalm
     DEF Begin
<1> QED
  BY <1>1, <1>2, <1>3, <1>4 DEF Next

\* Between two configuration changes the registry has models for exactly the
\* credentials of the map, whatever requests, resets, refreshes and reconciles
\* were under way meanwhile (service.go, applyCoreAuthAddOrUpdate and
\* applyCoreAuthRemoval), provided one goroutine applies the changes.
THEOREM RegistryAndMapAgree == ASSUME OneUpdater PROVE Spec => []RegistryFollowsMap
<1>1. TypeOK /\ TypeOK' /\ RegistryInv /\ [Next]_vars => RegistryInv'
  BY RegistryStep
<1>2. RegistryInv => RegistryFollowsMap
  <2> SUFFICES ASSUME RegistryInv, \A u \in Updaters : call[u] = Idle, NEW a \in Auths
               PROVE  registered[a] <=> auths[a] # Absent
    BY DEF RegistryFollowsMap
  <2>1. ASSUME NEW t \in Threads PROVE CalmOn(call[t], a)
    BY DEF RegistryInv, CallInv, CalmOn
  <2> QED
    BY <2>1 DEF RegistryInv, Agree
<1> QED
  BY TypeCorrect, RegistryInit, <1>1, <1>2, PTL DEF Spec

-----------------------------------------------------------------------------
(* Removed credentials and the scheduler *)

\* A removal that has left the registry and not yet the scheduler.
Leaving(a) ==
    \E u \in Updaters :
        /\ call[u] # Idle /\ call[u].auth = a
        /\ \/ call[u].todo = Removal /\ auths[a] # Absent
           \/ call[u].todo = AfterDelete

\* What the scheduler offers has its models in the registry, or is about to go.
OfferInv ==
    \A a \in Auths : offered[a] => registered[a] \/ Leaving(a)

\* A step that begins or ends a call of t leaves the others as they are.
LEMMA OthersSame ==
  ASSUME TypeOK, NEW t \in Threads, NEW u \in Threads \ {t},
         Resync(t) \/ Section(t) \/ \E a \in Auths : Begin(t, a)
  PROVE  SameCall(u)
<1>1. call \in CallTable
  BY DEF TypeOK, CallTable
<1>2. CASE call'[u] = call[u]
  BY <1>2 DEF SameCall
<1>3. ASSUME NEW a \in Auths, NEW new \in Creds, NEW c,
             call' = Touch([call EXCEPT ![t] = c], a, new)
      PROVE  SameCall(u)
  <2>1. call'[u] = Touch(call, a, new)[u]
    BY <1>1, <1>3 DEF Touch, CallTable
  <2> QED
    BY <1>1, <2>1, TouchKeeps DEF SameCall
<1>4. ASSUME NEW a \in Auths, call'[u] = Detach(call, a)[u] PROVE SameCall(u)
  BY <1>1, <1>4, DetachKeeps DEF SameCall
<1>5. CASE \/ Upsert(t) \/ Collect(t) \/ Save(t) \/ Suspend(t) \/ Resume(t)
           \/ Unschedule(t) \/ Register(t) \/ Rebuild(t)
  <2>1. \E c : call' = Advance(t, c)
    BY <1>5 DEF Upsert, Collect, Save, Suspend, Resume, Unschedule, Register,
                Rebuild
  <2> QED
    BY <1>1, <1>2, <2>1 DEF Advance, CallTable
<1>6. CASE Reread(t) \/ RefreshFail(t) \/ Resync(t)
  <2>1. \E c : call' = [call EXCEPT ![t] = c]
    BY <1>1, <1>6 DEF Reread, RefreshFail, Resync, Enter, CallTable
  <2> QED
    BY <1>1, <1>2, <2>1 DEF CallTable
<1>7. ASSUME NEW a \in Auths,
             Unregister(t, a) \/ Apply(t, a) \/ RefreshStart(t, a)
      PROVE  SameCall(u)
  <2>1. \E c : call' = [call EXCEPT ![t] = c]
    BY <1>7 DEF Unregister, Apply, RefreshStart, Enter
  <2> QED
    BY <1>1, <1>2, <2>1 DEF CallTable
<1>8. ASSUME NEW a \in Auths, NEW hold \in Holds, MarkResult(t, a, hold)
      PROVE  SameCall(u)
  <2>1. PICK new, c : /\ new = [hold |-> hold, done |-> auths[a].done + 1]
                      /\ call' = Touch([call EXCEPT ![t] = c], a, new)
    BY <1>8 DEF MarkResult, Enter
  <2>2. auths[a] \in Creds /\ auths[a].done < MaxResults
    BY <1>8 DEF MarkResult, TypeOK
  <2>3. new \in Creds
    BY <2>1, <2>2, MaxResultsAssumption DEF Creds
  <2> QED
    BY <1>3, <2>1, <2>3
<1>9. ASSUME NEW a \in Auths, ResetQuota(t, a) PROVE SameCall(u)
  <2>1. PICK new, c : /\ new = [auths[a] EXCEPT !.hold = "none"]
                      /\ call' = Touch([call EXCEPT ![t] = c], a, new)
    BY <1>9 DEF ResetQuota, Enter
  <2>2. auths[a] \in Creds
    BY <1>9 DEF ResetQuota, TypeOK
  <2>3. new \in Creds
    BY <2>1, <2>2 DEF Creds, Holds
  <2> QED
    BY <1>3, <2>1, <2>3
<1>10. CASE Delete(t) \/ Put(t) \/ Reconcile(t) \/ RefreshDone(t)
  <2> DEFINE a == call[t].auth
  <2>1. a \in Auths /\ call[t] # Idle
    BY <1>10, CallAuth DEF Delete, Put, Reconcile, RefreshDone, At
  <2>2. CASE Delete(t)
    <3>1. \/ call' = Advance(t, call[t])
          \/ call' = Detach([call EXCEPT ![t].todo = AfterDelete], a)
      BY <2>2 DEF Delete
    <3>2. CASE call' = Advance(t, call[t])
      BY <1>1, <1>2, <3>2 DEF Advance, CallTable
    <3>3. CASE call' = Detach([call EXCEPT ![t].todo = AfterDelete], a)
      <4>1. call'[u] = Detach(call, a)[u]
        BY <1>1, <3>3 DEF Detach, CallTable
      <4> QED
        BY <1>4, <2>1, <4>1
    <3> QED
      BY <3>1, <3>2, <3>3
  <2>3. CASE Put(t) \/ RefreshDone(t)
    <3>1. \/ \E c : call' = [call EXCEPT ![t] = c]
          \/ \E c : call' = [Detach(call, a) EXCEPT ![t] = c]
      BY <1>1, <2>3 DEF Put, RefreshDone, CallTable
    <3>2. DOMAIN Detach(call, a) = Threads
      BY DEF Detach
    <3>3. call'[u] = call[u] \/ call'[u] = Detach(call, a)[u]
      BY <1>1, <3>1, <3>2 DEF CallTable
    <3> QED
      BY <1>2, <1>4, <2>1, <3>3
  <2>4. CASE Reconcile(t)
    <3>1. CASE auths[a] = Absent \/ auths[a].hold = "none"
      <4>1. call' = Advance(t, call[t])
        BY <2>4, <3>1 DEF Reconcile
      <4> QED
        BY <1>1, <1>2, <4>1 DEF Advance, CallTable
    <3>2. CASE ~(auths[a] = Absent \/ auths[a].hold = "none")
      <4>1. PICK new, c : /\ new = [auths[a] EXCEPT !.hold = "none"]
                          /\ call' = Touch([call EXCEPT ![t] = c], a, new)
        BY <2>4, <3>2 DEF Reconcile
      <4>2. auths[a] \in Creds
        BY <2>1, <3>2 DEF TypeOK
      <4>3. new \in Creds
        BY <4>1, <4>2 DEF Creds, Holds
      <4> QED
        BY <1>3, <2>1, <4>1, <4>3
    <3> QED
      BY <3>1, <3>2
  <2> QED
    BY <1>10, <2>2, <2>3, <2>4
<1> QED
  BY <1>5, <1>6, <1>7, <1>8, <1>9, <1>10 DEF Section, Begin

\* Only a deletion takes a credential out of the map.
LEMMA AuthsStay ==
  ASSUME TypeOK, NEW t \in Threads, NEW b \in Auths, auths[b] # Absent,
         Resync(t) \/ Section(t) \/ \E a \in Auths : Begin(t, a), ~Delete(t)
  PROVE  auths'[b] # Absent
<1>1. ASSUME NEW a \in Auths, NEW new \in Creds,
             auths' = [auths EXCEPT ![a] = new]
      PROVE  auths'[b] # Absent
  BY <1>1, MarksAssumption DEF TypeOK
<1>2. CASE auths' = auths
  BY <1>2
<1>3. ASSUME NEW a \in Auths, NEW hold \in Holds, MarkResult(t, a, hold)
      PROVE  auths'[b] # Absent
  <2>1. PICK new : /\ new = [hold |-> hold, done |-> auths[a].done + 1]
                   /\ auths' = [auths EXCEPT ![a] = new]
    BY <1>3 DEF MarkResult
  <2>2. auths[a] \in Creds /\ auths[a].done < MaxResults
    BY <1>3 DEF MarkResult, TypeOK
  <2>3. new \in Creds
    BY <2>1, <2>2, MaxResultsAssumption DEF Creds
  <2> QED
    BY <1>1, <2>1, <2>3
<1>4. ASSUME NEW a \in Auths, auths[a] # Absent,
             auths' = [auths EXCEPT ![a] = [auths[a] EXCEPT !.hold = "none"]]
      PROVE  auths'[b] # Absent
  <2>1. PICK new : new = [auths[a] EXCEPT !.hold = "none"]
    OBVIOUS
  <2>2. auths[a] \in Creds
    BY <1>4 DEF TypeOK
  <2>3. new \in Creds
    BY <2>1, <2>2 DEF Creds, Holds
  <2> QED
    BY <1>1, <1>4, <2>1, <2>3
<1>5. CASE Put(t)
  <2> DEFINE a == call[t].auth
             read == call[t].snap
  <2>1. a \in Auths /\ read \in Creds \cup {Absent}
    BY <1>5, CallAuth DEF Put, At, CallRecords
  <2>2. CASE auths' = auths
    BY <2>2
  <2>3. CASE auths' # auths
    <3>1. PICK new : /\ new = IF read = Absent THEN Fresh
                               ELSE Merge(read, auths[a])
                     /\ auths' = [auths EXCEPT ![a] = new]
                     /\ read = Absent \/ auths[a] # Absent
      BY <1>5, <2>3 DEF Put
    <3>2. Fresh \in Creds
      BY MaxResultsAssumption DEF Fresh, Creds, Holds
    <3>3. auths[a] \in Creds \cup {Absent}
      BY <2>1 DEF TypeOK
    <3>4. new \in Creds
      BY <2>1, <3>1, <3>2, <3>3, MergeType
    <3> QED
      BY <1>1, <2>1, <3>1, <3>4
  <2> QED
    BY <2>2, <2>3
<1>6. CASE RefreshDone(t)
  <2> DEFINE a == call[t].auth
  <2>1. a \in Auths /\ call[t].snap \in Creds
    BY <1>6, CallAuth, RefreshCarries DEF RefreshDone, At
  <2>2. CASE auths' = auths
    BY <2>2
  <2>3. CASE auths' # auths
    <3>1. PICK copy : /\ copy = IF call[t].snap.hold = "unauthorized"
                                THEN [call[t].snap EXCEPT !.hold = "none"]
                                ELSE call[t].snap
                      /\ auths' = [auths EXCEPT ![a] = Merge(copy, auths[a])]
                      /\ auths[a] # Absent
      BY <1>6, <2>3 DEF RefreshDone
    <3>2. auths[a] \in Creds
      BY <2>1, <3>1 DEF TypeOK
    <3>3. copy \in Creds
      BY <2>1, <3>1 DEF Creds, Holds
    <3>4. Merge(copy, auths[a]) \in Creds
      BY <3>2, <3>3, MergeType
    <3> QED
      BY <1>1, <2>1, <3>1, <3>4
  <2> QED
    BY <2>2, <2>3
<1>7. CASE Reconcile(t)
  <2> DEFINE a == call[t].auth
  <2>1. a \in Auths
    BY <1>7, CallAuth DEF Reconcile, At
  <2>2. \/ auths' = auths
        \/ /\ auths[a] # Absent
           /\ auths' = [auths EXCEPT ![a] = [auths[a] EXCEPT !.hold = "none"]]
    BY <1>7 DEF Reconcile
  <2> QED
    BY <1>2, <1>4, <2>1, <2>2
<1>8. ASSUME NEW a \in Auths, ResetQuota(t, a) PROVE auths'[b] # Absent
  BY <1>4, <1>8 DEF ResetQuota
<1>9. CASE Resync(t) \/ (Section(t) /\ ~Put(t) /\ ~RefreshDone(t)
                          /\ ~Reconcile(t))
           \/ \E a \in Auths : Unregister(t, a) \/ Apply(t, a)
                               \/ RefreshStart(t, a)
  <2>1. auths' = auths
    BY <1>9 DEF Resync, Section, Upsert, Collect, Save, Suspend, Resume,
         Unschedule, Register, Reread, RefreshFail, Rebuild, Unregister,
         Apply, RefreshStart
  <2> QED
    BY <2>1
<1> QED
  BY <1>3, <1>5, <1>6, <1>7, <1>8, <1>9 DEF Begin

\* A step that offers only what is registered, takes nothing out of the map or
\* the registry and is not a removal's.
LEMMA OfferKept ==
  ASSUME TypeOK, OfferInv, NEW t \in Threads,
         Resync(t) \/ Section(t) \/ \E a \in Auths : Begin(t, a), ~Delete(t),
         \A a \in Auths : registered[a] => registered'[a],
         \A a \in Auths : offered'[a] => offered[a] \/ registered[a],
         call[t] = Idle \/ call[t].todo \notin {Removal, AfterDelete}
  PROVE  OfferInv'
<1> SUFFICES ASSUME NEW a \in Auths, offered'[a], ~registered'[a]
             PROVE  Leaving(a)'
  BY DEF OfferInv
<1>1. Leaving(a)
  BY DEF OfferInv
<1>2. PICK u \in Updaters : /\ call[u] # Idle /\ call[u].auth = a
                            /\ \/ call[u].todo = Removal /\ auths[a] # Absent
                               \/ call[u].todo = AfterDelete
  BY <1>1 DEF Leaving
<1>3. u \in Threads \ {t}
  BY <1>2 DEF Threads
<1>4. SameCall(u)
  BY <1>3, OthersSame
<1>5. auths[a] # Absent => auths'[a] # Absent
  BY AuthsStay
<1> QED
  BY <1>2, <1>4, <1>5 DEF Leaving, SameCall

\* What the removal has left to do once the credential is out of the map.
LEMMA AfterDeleteHead == Head(AfterDelete) = "unschedule"
<1> DEFINE u == <<"unschedule">>
<1>1. /\ u \in Seq(Steps) /\ Len(u) = 1 /\ u[1] = "unschedule"
      /\ Len(Persist) \in Nat /\ Persist \in Seq(Steps)
  BY PersistType, LenProperties DEF Steps
<1>2. AfterDelete = u \o Persist
  BY DEF AfterDelete
<1> HIDE DEF u
<1>3. /\ Len(u \o Persist) = Len(u) + Len(Persist)
      /\ \A i \in 1..Len(u) + Len(Persist) :
            (u \o Persist)[i] = IF i <= Len(u) THEN u[i] ELSE Persist[i - Len(u)]
  BY <1>1, ConcatProperties
<1>4. (u \o Persist)[1] = "unschedule"
  BY <1>1, <1>3
<1>5. AfterDelete \in Seq(Steps) /\ AfterDelete # <<>>
  BY AfterDeleteType
<1> QED
  BY <1>2, <1>4, <1>5, HeadTailProperties

\* Sections but the two of a removal.
LEMMA SectionsOffer ==
  ASSUME TypeOK, OfferInv, NEW t \in Threads, Section(t), ~Delete(t),
         ~Unschedule(t)
  PROVE  OfferInv'
<1>1. \A a \in Auths : registered[a] => registered'[a]
  BY DEF Section, Upsert, Collect, Save, Suspend, Resume, Put, Register,
         Reconcile, Reread, RefreshDone, RefreshFail, Rebuild, TypeOK
<1>2. \A a \in Auths : offered'[a] => offered[a] \/ registered[a]
  BY DEF Section, Upsert, Collect, Save, Suspend, Resume, Put, Register,
         Reconcile, Reread, RefreshDone, RefreshFail, Rebuild, TypeOK
<1>3. PICK step : At(t, step) /\ step \notin {"delete", "unschedule"}
  BY DEF Section, Upsert, Collect, Save, Suspend, Resume, Put, Register,
         Reconcile, Reread, RefreshDone, RefreshFail, Rebuild
<1>4. call[t].todo \notin {Removal, AfterDelete}
  BY <1>3, FormsDiffer, AfterDeleteHead DEF At
<1> QED
  BY <1>1, <1>2, <1>4, OfferKept

\* Once its models are out of the registry a credential of the map is for the
\* removal to take out of the scheduler, ...
LEMMA UnregisterOffer ==
  ASSUME OneUpdater, TypeOK, RegistryInv, OfferInv, NEW t \in Threads,
         NEW a \in Auths, Unregister(t, a)
  PROVE  OfferInv'
<1> DEFINE c == NewCall(a, Absent, Removal)
<1>1. /\ call[t] = Idle /\ t \in Updaters /\ auths' = auths
      /\ offered' = offered /\ registered' = [registered EXCEPT ![a] = FALSE]
      /\ call' = [call EXCEPT ![t] = c]
  BY DEF Unregister, Enter, Removal
<1>2. \A b \in Auths : ~Leaving(b)
  BY <1>1 DEF Leaving, OneUpdater
<1>3. Agree(a)
  BY <1>1, AgreeElsewhere DEF CalmOn
<1>4. c # Idle /\ c.auth = a /\ c.todo = Removal
  <2>1. Removal \in Seq(Steps) /\ Removal # <<>>
    <3>1. Removal \in Seq(Steps) /\ Len(Removal) # 0
      BY DEF Removal, Steps
    <3> QED
      BY <3>1, EmptySeq
  <2>2. c \in Calls
    BY <2>1, NewCallType DEF Credentials
  <2> QED
    BY <2>2, MarksAssumption DEF NewCall
<1> HIDE DEF c
<1>5. call'[t] = c
  BY <1>1 DEF TypeOK
<1> SUFFICES ASSUME NEW b \in Auths, offered'[b], ~registered'[b]
             PROVE  Leaving(b)'
  BY DEF OfferInv
<1>6. registered[b]
  BY <1>1, <1>2 DEF OfferInv
<1>7. b = a /\ auths'[a] # Absent
  BY <1>1, <1>3, <1>6 DEF Agree, TypeOK
<1> QED
  BY <1>1, <1>4, <1>5, <1>7 DEF Leaving

\* ... which it does after the map ...
LEMMA DeleteOffer ==
  ASSUME OneUpdater, TypeOK, RegistryInv, OfferInv, NEW t \in Threads, Delete(t)
  PROVE  OfferInv'
<1> DEFINE a == call[t].auth
<1>1. /\ call[t].todo = Removal /\ t \in Updaters /\ call[t] # Idle
      /\ call[t] \in Calls /\ offered' = offered /\ registered' = registered
  BY FormAt, CallAuth DEF Delete
<1> SUFFICES ASSUME NEW b \in Auths, offered'[b], ~registered'[b]
             PROVE  Leaving(b)'
  BY DEF OfferInv
<1>2. Leaving(b)
  BY <1>1 DEF OfferInv
<1>3. b = a /\ auths[a] # Absent
  <2>1. Removal # AfterDelete
    BY FormsDiffer, AfterDeleteHead
  <2> QED
    BY <1>1, <1>2, <2>1 DEF Leaving, OneUpdater
<1> DEFINE c == [call[t] EXCEPT !.todo = AfterDelete]
           calls == [call EXCEPT ![t] = c]
<1>4. call' = Detach(calls, a)
  BY <1>3 DEF Delete
<1>5. c \in Calls /\ c.todo = AfterDelete /\ c.auth = a
  BY <1>1, AfterDeleteType DEF Calls, CallRecords
<1> HIDE DEF c
<1>6. calls \in CallTable /\ calls[t] = c
  BY <1>5 DEF TypeOK, CallTable
<1> HIDE DEF calls
<1>7. call'[t] # Idle /\ call'[t].auth = a /\ call'[t].todo = AfterDelete
  BY <1>3, <1>4, <1>5, <1>6, DetachKeeps, MarksAssumption
<1> QED
  BY <1>1, <1>3, <1>7 DEF Leaving

\* ... and before anything else.
LEMMA UnscheduleOffer ==
  ASSUME TypeOK, OfferInv, NEW t \in Threads, Unschedule(t)
  PROVE  OfferInv'
<1> DEFINE a == call[t].auth
<1>1. /\ offered' = [offered EXCEPT ![a] = FALSE] /\ registered' = registered
      /\ auths' = auths
  BY DEF Unschedule
<1> SUFFICES ASSUME NEW b \in Auths, offered'[b], ~registered'[b]
             PROVE  Leaving(b)'
  BY DEF OfferInv
<1>2. b # a /\ offered[b]
  BY <1>1 DEF TypeOK
<1>3. Leaving(b)
  BY <1>1, <1>2 DEF OfferInv
<1>4. PICK u \in Updaters : /\ call[u] # Idle /\ call[u].auth = b
                            /\ \/ call[u].todo = Removal /\ auths[b] # Absent
                               \/ call[u].todo = AfterDelete
  BY <1>3 DEF Leaving
<1>5. u \in Threads \ {t}
  BY <1>2, <1>4 DEF Threads
<1>6. SameCall(u)
  BY <1>5, OthersSame DEF Section
<1> QED
  BY <1>1, <1>4, <1>6 DEF Leaving, SameCall

\* No step offers a credential that is not registered.
LEMMA OfferStep ==
  ASSUME OneUpdater, TypeOK, RegistryInv, OfferInv, [Next]_vars
  PROVE  OfferInv'
<1>1. CASE UNCHANGED vars
  BY <1>1 DEF vars, OfferInv, Leaving
<1>2. ASSUME NEW t \in Threads, Resync(t) PROVE OfferInv'
  <2>1. call[t] = Idle /\ registered' = registered /\ offered' = offered
    BY <1>2 DEF Resync
  <2>2. ~Delete(t)
    BY <2>1 DEF Delete, At
  <2> QED
    BY <1>2, <2>1, <2>2, OfferKept
<1>3. ASSUME NEW t \in Threads, Section(t) PROVE OfferInv'
  BY <1>3, SectionsOffer, DeleteOffer, UnscheduleOffer
<1>4. ASSUME NEW t \in Threads, NEW a \in Auths, Begin(t, a) PROVE OfferInv'
  <2>1. CASE Unregister(t, a)
    BY <2>1, UnregisterOffer
  <2>2. CASE ~Unregister(t, a)
    <3>1. call[t] = Idle /\ registered' = registered /\ offered' = offered
      BY <1>4, <2>2 DEF Begin, MarkResult, ResetQuota, Apply, RefreshStart
    <3>2. ~Delete(t)
      BY <3>1 DEF Delete, At
    <3> QED
      BY <1>4, <3>1, <3>2, OfferKept
  <2> QED
    BY <2>1, <2>2
<1> QED
  BY <1>1, <1>2, <1>3, <1>4 DEF Next

\* Between two configuration changes the scheduler picks a removed credential
\* for no model, however late the upserts, rebuilds and refreshes that read it
\* before its removal come (scheduler.go, supportedModelSetForAuth; service.go,
\* applyCoreAuthRemoval), provided one goroutine applies the changes.
THEOREM RemovedCredentialIsNotOffered ==
  ASSUME OneUpdater PROVE Spec => []RemovedIsNotOffered
<1>1. Init => OfferInv
  BY DEF Init, OfferInv
<1>2. TypeOK /\ TypeOK' /\ RegistryInv /\ [Next]_vars => RegistryInv'
  BY RegistryStep
<1>3. TypeOK /\ RegistryInv /\ OfferInv /\ [Next]_vars => OfferInv'
  BY OfferStep
<1>4. RegistryInv /\ OfferInv => RemovedIsNotOffered
  <2> SUFFICES ASSUME RegistryInv, OfferInv,
                      \A u \in Updaters : call[u] = Idle,
                      NEW a \in Auths, auths[a] = Absent
               PROVE  ~offered[a]
    BY DEF RemovedIsNotOffered
  <2>1. ASSUME NEW t \in Threads PROVE CalmOn(call[t], a)
    BY DEF RegistryInv, CallInv, CalmOn
  <2>2. ~registered[a]
    BY <2>1 DEF RegistryInv, Agree
  <2> QED
    BY <2>2 DEF OfferInv, Leaving
<1> QED
  BY TypeCorrect, RegistryInit, <1>1, <1>2, <1>3, <1>4, PTL DEF Spec

-----------------------------------------------------------------------------
(* Without overlap *)

\* The sections a call has still to pass, as a set, none of them twice.
Left(s) == {s[i] : i \in 1..Len(s)}
Once(s) == \A i, j \in 1..Len(s) : s[i] = s[j] => i = j

Rereading   == <<"reread">>
Reconciling == <<"reconcile", "reread">>
Reconciled  == <<"upsert", "reread">>

\* The holds are collected before they are saved.
Collected(s) ==
    \A i, j \in 1..Len(s) : s[i] = "save" /\ s[j] = "collect" => j < i

\* The sections of a new version come in their order and with no others, and
\* some sections are the only one.
Ordered(s) ==
    /\ Collected(s)
    /\ "put" \in Left(s) => s = Version
    /\ "register" \in Left(s) => s \in {Version, Scheduled, ModelRegistration}
    /\ "reconcile" \in Left(s) =>
          s \in {Version, Scheduled, ModelRegistration, Reconciling}
    /\ "reread" \in Left(s) =>
          s \in {Version, Scheduled, ModelRegistration, Reconciling, Rereading, Reconciled}
    /\ \A only \in {"delete", "refresh", "rebuild"} : only \in Left(s) => Len(s) = 1

\* A hold comes from a result.
HoldsCounted ==
    \A a \in Auths : auths[a] # Absent /\ auths[a].hold # "none" => HasState(auths[a])

Settled(a) ==
    /\ sched[a] = auths[a]
    /\ registered[a] <=> auths[a] # Absent
    /\ suspended[a] <=> Hold(a) # "none"
    /\ Hold(a) # "none" => file[a] = Hold(a)

\* What is not settled about the credential a of call c is among the sections
\* L that it has left, ...
Repairs(a, L) ==
    /\ "upsert" \in L \/ "unschedule" \in L \/ sched[a] = auths[a]
    /\ \/ "delete" \in L \/ "register" \in L
       \/ registered[a] <=> auths[a] # Absent
    /\ \/ "suspend" \in L \/ "resume" \in L \/ "delete" \in L
       \/ "reconcile" \in L /\ "register" \notin L
       \/ suspended[a] <=> Hold(a) # "none"
    /\ "save" \in L \/ (Hold(a) # "none" => file[a] = Hold(a))

\* ... and these will repair it: what they carry is what the map says.
Carries(c, a, L) ==
    /\ "put" \in L \/ "upsert" \in L \/ "refresh" \in L => c.snap = auths[a]
    /\ "unschedule" \in L => auths[a] = Absent
    /\ "delete" \in L => ~registered[a] /\ ~suspended[a]
    /\ "register" \in L /\ "put" \notin L => auths[a] # Absent
    /\ "register" \in L /\ ~registered[a] => ~suspended[a]
    /\ "reconcile" \in L /\ "register" \notin L => ~suspended[a]
    /\ "suspend" \in L => Hold(a) # "none"
    /\ "resume" \in L => Hold(a) = "none"
    /\ "save" \in L /\ "collect" \notin L => c.records = [b \in Auths |-> Hold(b)]
    /\ "rebuild" \in L => c.all = auths

Owing(c) ==
    /\ Once(c.todo) /\ Ordered(c.todo)
    /\ Repairs(c.auth, Left(c.todo))
    /\ Carries(c, c.auth, Left(c.todo))
    /\ \A b \in Auths \ {c.auth} : Settled(b)

\* Without overlap only one call is in progress, and everything but what it
\* still owes is settled.
SerialInv ==
    ~overlapped =>
        /\ HoldsCounted
        /\ \A t, u \in Threads : call[t] # Idle /\ call[u] # Idle => t = u
        /\ Quiet => \A a \in Auths : Settled(a)
        /\ \A t \in Threads : call[t] # Idle => Owing(call[t])
-----------------------------------------------------------------------------
(* Sections left *)

AllSteps == Steps \cup {"refresh"}

\* What a call has left after its first section, ...
LEMMA LeftTail ==
  ASSUME NEW s \in Seq(AllSteps), s # <<>>, Once(s)
  PROVE  /\ Head(s) \in Left(s)
         /\ Len(s) = 1 => Left(s) = {Head(s)}
         /\ Len(s) # 1 =>
              /\ Tail(s) \in Seq(AllSteps) /\ Tail(s) # <<>> /\ Once(Tail(s))
              /\ Left(Tail(s)) = Left(s) \ {Head(s)}
              /\ Collected(s) => Collected(Tail(s))
<1>1. Len(s) \in Nat /\ Len(s) # 0 /\ Head(s) = s[1]
  BY LenProperties, EmptySeq
<1>2. Head(s) \in Left(s) /\ (Len(s) = 1 => Left(s) = {Head(s)})
  BY <1>1 DEF Left
<1>3. ASSUME Len(s) # 1
      PROVE  /\ Tail(s) \in Seq(AllSteps) /\ Tail(s) # <<>> /\ Once(Tail(s))
             /\ Left(Tail(s)) = Left(s) \ {Head(s)}
             /\ Collected(s) => Collected(Tail(s))
  <2> DEFINE r == Tail(s)
  <2>1. /\ r \in Seq(AllSteps) /\ Len(r) = Len(s) - 1
        /\ \A i \in 1..Len(r) : r[i] = s[i + 1]
    BY HeadTailProperties
  <2> HIDE DEF r
  <2>2. r # <<>>
    BY <1>1, <1>3, <2>1, EmptySeq
  <2>3. \A i \in 1..Len(r) : i + 1 \in 1..Len(s)
    BY <1>1, <2>1
  <2>4. \A i \in 1..Len(s) : i # 1 => i - 1 \in 1..Len(r) /\ r[i - 1] = s[i]
    BY <1>1, <2>1
  <2>5. Once(r)
    BY <2>1, <2>3 DEF Once
  <2>6. ASSUME NEW x \in Left(r) PROVE x \in Left(s) /\ x # s[1]
    <3>1. PICK i \in 1..Len(r) : x = r[i]
      BY <2>6 DEF Left
    <3>2. i + 1 \in 1..Len(s) /\ x = s[i + 1] /\ i + 1 # 1 /\ 1 \in 1..Len(s)
      BY <1>1, <2>1, <2>3, <3>1
    <3> QED
      BY <3>2 DEF Once, Left
  <2>7. ASSUME NEW x \in Left(s), x # s[1] PROVE x \in Left(r)
    <3>1. PICK i \in 1..Len(s) : x = s[i]
      BY <2>7 DEF Left
    <3> QED
      BY <2>4, <2>7, <3>1 DEF Left
  <2>8. Left(r) = Left(s) \ {Head(s)}
    BY <1>1, <2>6, <2>7
  <2>9. Collected(s) => Collected(r)
    BY <2>1, <2>3, SMTT(20) DEF Collected
  <2> QED
    BY <2>1, <2>2, <2>5, <2>8, <2>9 DEF r
<1> QED
  BY <1>2, <1>3

\* ... and what calls made of two parts have left.
LEMMA LeftConcat ==
  ASSUME NEW s \in Seq(AllSteps), NEW r \in Seq(AllSteps),
         Once(s), Once(r), Left(s) \cap Left(r) = {}, Collected(s), Collected(r),
         "save" \notin Left(s) \/ "collect" \notin Left(r)
  PROVE  /\ s \o r \in Seq(AllSteps) /\ Left(s \o r) = Left(s) \cup Left(r)
         /\ Once(s \o r) /\ Collected(s \o r)
<1> DEFINE q == s \o r
<1>1. /\ q \in Seq(AllSteps) /\ Len(q) = Len(s) + Len(r)
      /\ Len(s) \in Nat /\ Len(r) \in Nat
      /\ \A i \in 1..Len(s) + Len(r) : q[i] = IF i <= Len(s) THEN s[i] ELSE r[i - Len(s)]
  BY ConcatProperties, LenProperties
<1> HIDE DEF q
<1>2. \A i \in 1..Len(s) : i \in 1..Len(q) /\ q[i] = s[i]
  BY <1>1
<1>3. ASSUME NEW i \in 1..Len(r) PROVE i + Len(s) \in 1..Len(q) /\ q[i + Len(s)] = r[i]
  <2>1. /\ i + Len(s) \in 1..Len(s) + Len(r) /\ ~(i + Len(s) <= Len(s))
        /\ (i + Len(s)) - Len(s) = i
    BY <1>1
  <2>2. q[i + Len(s)] = r[(i + Len(s)) - Len(s)]
    BY <1>1, <2>1
  <2> QED
    BY <1>1, <2>1, <2>2
<1>4. ASSUME NEW i \in 1..Len(q)
      PROVE  \/ i \in 1..Len(s) /\ q[i] = s[i] /\ q[i] \in Left(s)
             \/ /\ i > Len(s) /\ i - Len(s) \in 1..Len(r) /\ q[i] = r[i - Len(s)]
                /\ q[i] \in Left(r)
  BY <1>1 DEF Left
<1>5. Left(q) = Left(s) \cup Left(r)
  <2>1. ASSUME NEW x \in Left(q) PROVE x \in Left(s) \cup Left(r)
    <3>1. PICK i \in 1..Len(q) : x = q[i]
      BY <2>1 DEF Left
    <3> QED
      BY <1>4, <3>1
  <2>2. ASSUME NEW x \in Left(s) PROVE x \in Left(q)
    BY <1>2, <2>2 DEF Left
  <2>3. ASSUME NEW x \in Left(r) PROVE x \in Left(q)
    <3>1. PICK i \in 1..Len(r) : x = r[i]
      BY <2>3 DEF Left
    <3> QED
      BY <1>3, <3>1 DEF Left
  <2> QED
    BY <2>1, <2>2, <2>3
<1>6. Once(q)
  <2> SUFFICES ASSUME NEW i \in 1..Len(q), NEW j \in 1..Len(q), q[i] = q[j]
               PROVE  i = j
    BY DEF Once
  <2>1. CASE i \in 1..Len(s) /\ j \in 1..Len(s)
    BY <1>2, <2>1 DEF Once
  <2>2. CASE i \notin 1..Len(s) /\ j \notin 1..Len(s)
    <3>1. i - Len(s) \in 1..Len(r) /\ j - Len(s) \in 1..Len(r)
          /\ r[i - Len(s)] = r[j - Len(s)]
      BY <1>4, <2>2
    <3>2. i - Len(s) = j - Len(s)
      BY <3>1 DEF Once
    <3> QED
      BY <1>1, <3>2
  <2>3. CASE ~(i \in 1..Len(s) <=> j \in 1..Len(s))
    BY <1>1, <1>4, <2>3
  <2> QED
    BY <2>1, <2>2, <2>3
<1>7. Collected(q)
  <2> SUFFICES ASSUME NEW i \in 1..Len(q), NEW j \in 1..Len(q),
                      q[i] = "save", q[j] = "collect"
               PROVE  j < i
    BY DEF Collected
  <2>1. CASE i \in 1..Len(s) /\ j \in 1..Len(s)
    BY <1>2, <2>1 DEF Collected
  <2>2. CASE i \notin 1..Len(s) /\ j \in 1..Len(s)
    BY <1>1, <2>2
  <2>3. CASE i \notin 1..Len(s) /\ j \notin 1..Len(s)
    <3>1. /\ i - Len(s) \in 1..Len(r) /\ r[i - Len(s)] = "save"
          /\ j - Len(s) \in 1..Len(r) /\ r[j - Len(s)] = "collect"
      BY <1>4, <2>3
    <3>2. j - Len(s) < i - Len(s)
      BY <3>1 DEF Collected
    <3> QED
      BY <1>1, <3>2
  <2>4. CASE i \in 1..Len(s) /\ j \notin 1..Len(s)
    <3>1. "save" \in Left(s) /\ "collect" \in Left(r)
      BY <1>1, <1>4, <2>4
    <3> QED
      BY <3>1
  <2> QED
    BY <2>1, <2>2, <2>3, <2>4
<1> QED
  BY <1>1, <1>5, <1>6, <1>7 DEF q

\* What the parts are.
LEMMA LeftSingle ==
  ASSUME NEW x \in AllSteps
  PROVE  <<x>> \in Seq(AllSteps) /\ Left(<<x>>) = {x} /\ Once(<<x>>) /\ Collected(<<x>>)
<1>1. <<x>> \in Seq(AllSteps) /\ Len(<<x>>) = 1 /\ <<x>>[1] = x
  OBVIOUS
<1> QED
  BY <1>1 DEF Left, Once, Collected

\* Two different sections, ...
LEMMA LeftPair ==
  ASSUME NEW x \in AllSteps, NEW y \in AllSteps, x # y, y # "collect" \/ x # "save"
  PROVE  /\ <<x, y>> \in Seq(AllSteps) /\ Left(<<x, y>>) = {x, y}
         /\ Once(<<x, y>>) /\ Collected(<<x, y>>)
<1> DEFINE s == <<x, y>>
<1>1. s \in Seq(AllSteps) /\ Len(s) = 2 /\ s[1] = x /\ s[2] = y
  OBVIOUS
<1> HIDE DEF s
<1> QED
  BY <1>1 DEF Left, Once, Collected, s

\* ... those that save the holds, ...
LEMMA LeftPersist ==
  /\ Persist \in Seq(AllSteps) /\ Left(Persist) = {"collect", "save"}
  /\ Once(Persist) /\ Collected(Persist)
BY LeftPair DEF Persist, AllSteps, Steps

\* ... and none.
LEMMA LeftEmpty ==
  <<>> \in Seq(AllSteps) /\ Left(<<>>) = {} /\ Once(<<>>) /\ Collected(<<>>)
BY DEF Left, Once, Collected

\* The sections of a new version, and what each has left.
LEMMA LeftVersion ==
  /\ Left(Version) = {"put", "upsert", "register", "reconcile", "reread"}
  /\ Left(Scheduled) = {"upsert", "register", "reconcile", "reread"}
  /\ Left(ModelRegistration) = {"register", "reconcile", "reread"}
  /\ Left(Reconciling) = {"reconcile", "reread"}
  /\ Left(Reconciled) = {"upsert", "reread"}
  /\ Left(Rereading) = {"reread"}
<1>1. /\ \A i \in 1..5 : i \in {1, 2, 3, 4, 5}
      /\ \A i \in 1..4 : i \in {1, 2, 3, 4}
      /\ \A i \in 1..3 : i \in {1, 2, 3}
  OBVIOUS
<1>2. Left(Version) = {"put", "upsert", "register", "reconcile", "reread"}
  <2> DEFINE s == Version
  <2>1. Len(s) = 5 /\ s[1] = "put" /\ s[2] = "upsert" /\ s[3] = "register"
        /\ s[4] = "reconcile" /\ s[5] = "reread"
    BY FormsAre
  <2> HIDE DEF s
  <2> QED
    BY <1>1, <2>1 DEF Left, s
<1>3. Left(Scheduled) = {"upsert", "register", "reconcile", "reread"}
  <2> DEFINE s == Scheduled
  <2>1. Len(s) = 4 /\ s[1] = "upsert" /\ s[2] = "register"
        /\ s[3] = "reconcile" /\ s[4] = "reread"
    BY FormsAre
  <2> HIDE DEF s
  <2> QED
    BY <1>1, <2>1 DEF Left, s
<1>4. Left(ModelRegistration) = {"register", "reconcile", "reread"}
  <2> DEFINE s == ModelRegistration
  <2>1. Len(s) = 3 /\ s[1] = "register" /\ s[2] = "reconcile" /\ s[3] = "reread"
    BY FormsAre
  <2> HIDE DEF s
  <2> QED
    BY <1>1, <2>1 DEF Left, s
<1>5. Left(Reconciling) = {"reconcile", "reread"} /\ Left(Reconciled) = {"upsert", "reread"}
      /\ Left(Rereading) = {"reread"}
  BY LeftPair, LeftSingle DEF Reconciling, Reconciled, Rereading, AllSteps, Steps
<1> QED
  BY <1>2, <1>3, <1>4, <1>5

\* A call's sections are a sequence.
LEMMA TodoSeq ==
  ASSUME NEW c \in CallRecords PROVE c.todo \in Seq(AllSteps)
<1>1. c.todo \in Seq(Steps) \/ c.todo = <<"refresh">>
  BY DEF CallRecords
<1>2. \A s \in Seq(Steps) : s \in Seq(AllSteps)
  BY SeqMonotonic DEF AllSteps
<1>3. <<"refresh">> \in Seq(AllSteps)
  BY LeftSingle DEF AllSteps
<1> QED
  BY <1>1, <1>2, <1>3

\* After its first section a version's call has the sections that follow.
LEMMA OrderedTail ==
  ASSUME NEW s \in Seq(AllSteps), s # <<>>, Once(s), Ordered(s), Len(s) # 1
  PROVE  Ordered(Tail(s))
<1> DEFINE r == Tail(s)
<1>1. /\ Left(r) \subseteq Left(s) /\ Head(s) \notin Left(r) /\ Collected(r)
  BY LeftTail DEF Ordered
<1>2. /\ s = Version => r = Scheduled
      /\ s = Scheduled => r = ModelRegistration
      /\ s = ModelRegistration => r = Reconciling
      /\ s = Reconciling => r = Rereading
      /\ s = Reconciled => r = Rereading
  <2>1. Tail(Reconciling) = Rereading /\ Tail(Reconciled) = Rereading
    BY DEF Reconciling, Rereading, Reconciled
  <2>2. Tail(ModelRegistration) = Reconciling
    BY FormsAre DEF Reconciling
  <2> QED
    BY <2>1, <2>2, FormsDiffer
<1>3. /\ s = Version => Head(s) = "put"
      /\ s = ModelRegistration => Head(s) = "register"
      /\ s = Reconciling => Head(s) = "reconcile"
      /\ s # Rereading
  BY FormsDiffer DEF Reconciling, Rereading
<1> HIDE DEF r
<1>4. "put" \notin Left(r)
  BY <1>1, <1>3 DEF Ordered
<1>5. ASSUME "register" \in Left(r)
      PROVE  r \in {Version, Scheduled, ModelRegistration}
  BY <1>1, <1>2, <1>3, <1>5 DEF Ordered
<1>6. ASSUME "reconcile" \in Left(r)
      PROVE  r \in {Version, Scheduled, ModelRegistration, Reconciling}
  BY <1>1, <1>2, <1>3, <1>6 DEF Ordered
<1>7. ASSUME "reread" \in Left(r)
      PROVE  r \in {Version, Scheduled, ModelRegistration, Reconciling, Rereading, Reconciled}
  BY <1>1, <1>2, <1>3, <1>7 DEF Ordered
<1>8. \A only \in {"delete", "refresh", "rebuild"} : only \notin Left(r)
  BY <1>1 DEF Ordered
<1> QED
  BY <1>1, <1>4, <1>5, <1>6, <1>7, <1>8 DEF Ordered, r

\* What the next section says of the sections that are left.
LEMMA HeadOf ==
  ASSUME NEW s \in Seq(AllSteps), s # <<>>, Once(s), Ordered(s)
  PROVE  LET h == Head(s)
             L == Left(s)
         IN  /\ h \in L
             /\ "put" \in L \/ h = "put" => s = Version /\ h = "put"
             /\ h = "register" => s = ModelRegistration
             /\ h = "reconcile" => s = Reconciling
             /\ h = "reread" => s = Rereading
             /\ h = "save" => "collect" \notin L
             /\ \A only \in {"delete", "refresh", "rebuild"} :
                   only \in L => Len(s) = 1 /\ L = {only} /\ h = only
<1>1. Head(s) \in Left(s) /\ (Len(s) = 1 => Left(s) = {Head(s)})
  BY LeftTail
<1>2. /\ Head(Version) = "put" /\ Head(Scheduled) = "upsert"
      /\ Head(ModelRegistration) = "register" /\ Head(Reconciling) = "reconcile"
      /\ Head(Reconciled) = "upsert" /\ Head(Rereading) = "reread"
  BY FormsDiffer DEF Reconciling, Reconciled, Rereading
<1>3. ASSUME Head(s) = "save" PROVE "collect" \notin Left(s)
  <2>1. SUFFICES ASSUME NEW j \in 1..Len(s), s[j] = "collect" PROVE FALSE
    BY DEF Left
  <2>2. Len(s) \in Nat /\ Len(s) # 0 /\ Head(s) = s[1]
    BY LenProperties, EmptySeq
  <2>3. 1 \in 1..Len(s) /\ s[1] = "save"
    BY <1>3, <2>2
  <2>4. j < 1
    BY <2>1, <2>3 DEF Ordered, Collected
  <2> QED
    BY <2>2, <2>4
<1>4. \A only \in {"delete", "refresh", "rebuild"} :
         only \in Left(s) => Len(s) = 1 /\ Left(s) = {only} /\ Head(s) = only
  BY <1>1 DEF Ordered
<1>5. /\ "put" \in Left(s) => s = Version /\ Head(s) = "put"
      /\ Head(s) = "register" => s = ModelRegistration
      /\ Head(s) = "reconcile" => s = Reconciling
      /\ Head(s) = "reread" => s = Rereading
  BY <1>1, <1>2 DEF Ordered
<1> QED
  BY <1>1, <1>3, <1>4, <1>5

-----------------------------------------------------------------------------
(* Steps without overlap *)

\* A credential whose calls have no section left is settled.
LEMMA RepairsNone ==
  ASSUME NEW a PROVE Repairs(a, {}) <=> Settled(a)
BY DEF Repairs, Settled

\* The same after a step.
LEMMA RepairsNoneNext ==
  ASSUME NEW a PROVE Repairs(a, {})' <=> Settled(a)'
BY DEF Repairs, Settled

\* A step after which t is in call c, or in none, and everybody else in none.
LEMMA SerialAfter ==
  ASSUME NEW t \in Threads, NEW c \in Calls \cup {Idle}, HoldsCounted',
         \A u \in Threads : call'[u] = IF u = t THEN c ELSE Idle,
         \/ c = Idle /\ \A a \in Auths : Settled(a)'
         \/ c # Idle /\ Owing(c)'
  PROVE  SerialInv'
<1>1. \A u, v \in Threads : call'[u] # Idle /\ call'[v] # Idle => u = v
  OBVIOUS
<1>2. ASSUME \A u \in Threads : call'[u] = Idle
      PROVE  \A a \in Auths : Settled(a)'
  BY <1>2
<1>3. ASSUME NEW u \in Threads, call'[u] # Idle PROVE Owing(call[u])'
  <2>1. u = t /\ call'[u] = c
    BY <1>3
  <2>2. Owing(c)'
    BY <2>1, <1>3
  <2> QED
    BY <2>1, <2>2
<1> QED
  BY <1>1, <1>2, <1>3 DEF SerialInv, Quiet

\* Before a step without overlap, only the call that takes it is in progress.
LEMMA Sole ==
  ASSUME TypeOK, SerialInv, ~overlapped, NEW t \in Threads, call[t] # Idle
  PROVE  /\ HoldsCounted /\ Owing(call[t])
         /\ \A u \in Threads : u # t => call[u] = Idle
         /\ call[t] \in Calls /\ call[t] \in CallRecords /\ call[t].auth \in Auths
         /\ call[t].todo # <<>> /\ call[t].todo \in Seq(AllSteps)
BY CallAuth, TodoSeq DEF SerialInv

\* A section after which the call goes on with what it has still to do, or is
\* over: what is left then repairs what there is to repair.
LEMMA AdvanceSerial ==
  ASSUME TypeOK, SerialInv, ~overlapped, NEW t \in Threads, NEW step, At(t, step),
         NEW c \in CallRecords, c.auth = call[t].auth, c.todo = call[t].todo,
         call' = Advance(t, c), HoldsCounted',
         \A b \in Auths \ {c.auth} : Settled(b)',
         Repairs(c.auth, Left(c.todo) \ {step})',
         Carries(c, c.auth, Left(c.todo) \ {step})'
  PROVE  SerialInv'
<1>1. /\ Owing(call[t]) /\ \A u \in Threads : u # t => call[u] = Idle
      /\ call[t].todo # <<>> /\ call[t].todo \in Seq(AllSteps) /\ c.auth \in Auths
  BY Sole DEF At
<1>2. Once(c.todo) /\ Ordered(c.todo) /\ Head(c.todo) = step
  BY <1>1 DEF Owing, At
<1>3. Continue(c) \in Calls \cup {Idle}
  BY <1>1, ContinueType
<1>4. \A u \in Threads : call'[u] = IF u = t THEN Continue(c) ELSE Idle
  BY <1>1 DEF Advance, TypeOK
<1>5. CASE Len(c.todo) = 1
  <2>1. Continue(c) = Idle /\ Left(c.todo) \ {step} = {}
    BY <1>1, <1>2, <1>5, LeftTail DEF Continue
  <2>2. Settled(c.auth)'
    BY <2>1, RepairsNoneNext
  <2>3. \A a \in Auths : Settled(a)'
    BY <2>2
  <2> QED
    BY <1>3, <1>4, <2>1, <2>3, SerialAfter
<1>6. CASE Len(c.todo) # 1
  <2> DEFINE d == [c EXCEPT !.todo = Tail(c.todo)]
             L == Left(c.todo) \ {step}
  <2>1. Continue(c) = d /\ d.todo = Tail(c.todo) /\ d.auth = c.auth
        /\ d.snap = c.snap /\ d.records = c.records /\ d.all = c.all
    BY <1>6 DEF Continue, CallRecords
  <2> HIDE DEF d
  <2>2. Left(d.todo) = L /\ Once(d.todo) /\ Ordered(d.todo)
    BY <1>1, <1>2, <1>6, <2>1, LeftTail, OrderedTail
  <2>3. Carries(d, c.auth, L)'
    BY <2>1 DEF Carries
  <2>4. Owing(d)'
    BY <2>1, <2>2, <2>3 DEF Owing
  <2>5. d # Idle
    BY <1>1, <1>6, ContinueCall, MarksAssumption DEF d
  <2> QED
    BY <1>3, <1>4, <2>1, <2>4, <2>5, SerialAfter
<1> QED
  BY <1>5, <1>6

\* A section in which nothing is put in the map or the registry.
LEMMA SameMap ==
  ASSUME auths' = auths, registered' = registered, HoldsCounted
  PROVE  /\ HoldsCounted'
         /\ \A a \in Auths : Hold(a)' = Hold(a)
BY DEF HoldsCounted, Hold

\* What a call that enters a section has to do, and finds.
LEMMA Entered ==
  ASSUME TypeOK, SerialInv, ~overlapped, NEW t \in Threads, NEW step, At(t, step),
         NEW c \in CallRecords, c = call[t]
  PROVE  LET L == Left(c.todo) IN
         /\ HoldsCounted /\ c.auth \in Auths /\ c \in Calls
         /\ Repairs(c.auth, L) /\ Carries(c, c.auth, L)
         /\ \A b \in Auths \ {c.auth} : Settled(b)
         /\ step \in L
         /\ "put" \in L \/ step = "put" => c.todo = Version /\ step = "put"
         /\ step = "register" => c.todo = ModelRegistration
         /\ step = "reconcile" => c.todo = Reconciling
         /\ step = "reread" => c.todo = Rereading
         /\ step = "save" => "collect" \notin L
         /\ \A only \in {"delete", "refresh", "rebuild"} :
               only \in L => Len(c.todo) = 1 /\ L = {only} /\ step = only
<1>1. /\ Owing(c) /\ HoldsCounted /\ c.auth \in Auths /\ c \in Calls
      /\ c.todo # <<>> /\ c.todo \in Seq(AllSteps) /\ Head(c.todo) = step
  BY Sole DEF At
<1>2. Once(c.todo) /\ Ordered(c.todo)
  BY <1>1 DEF Owing
<1> QED
  BY <1>1, <1>2, HeadOf DEF Owing

\* The snapshot that reaches the scheduler is what the map has.
LEMMA UpsertSerial ==
  ASSUME TypeOK, SerialInv, ~overlapped, NEW t \in Threads,
         NEW c \in CallRecords, c = call[t], Upsert(t)
  PROVE  SerialInv'
<1> DEFINE a == c.auth
           d == [c EXCEPT !.snap = Absent, !.live = FALSE]
           L == Left(c.todo)
           K == L \ {"upsert"}
<1>1. At(t, "upsert")
  BY DEF Upsert
<1>2. HoldsCounted /\ a \in Auths
  BY <1>1, Entered
<1>3. "upsert" \in L /\ "put" \notin L /\ "refresh" \notin L
  BY <1>1, Entered
<1>4. Repairs(a, L) /\ Carries(c, a, L) /\ \A b \in Auths \ {a} : Settled(b)
  BY <1>1, Entered
<1>5. d \in CallRecords /\ d.auth = a /\ d.todo = c.todo
      /\ d.records = c.records /\ d.all = c.all
  BY DEF CallRecords
<1>6. /\ call' = Advance(t, d) /\ sched' = [sched EXCEPT ![a] = c.snap]
      /\ UNCHANGED <<auths, file, registered, suspended>>
  BY DEF Upsert
<1> HIDE DEF d
<1>7. HoldsCounted' /\ \A b \in Auths : Hold(b)' = Hold(b)
  BY <1>2, <1>6, SameMap
<1>8. \A b \in Auths \ {a} : Settled(b)'
  BY <1>4, <1>6, <1>7 DEF Settled, TypeOK
<1>9. sched'[a] = auths'[a]
  BY <1>2, <1>3, <1>4, <1>6 DEF Carries, TypeOK
<1> HIDE DEF L
<1>10. Repairs(a, K)'
  BY <1>2, <1>4, <1>6, <1>7, <1>9 DEF Repairs
<1>11. Carries(d, a, K)'
  BY <1>2, <1>3, <1>4, <1>5, <1>6, <1>7 DEF Carries
<1> QED
  BY <1>1, <1>5, <1>6, <1>7, <1>8, <1>10, <1>11, AdvanceSerial DEF L

\* The records that are saved are those of the map, ...
LEMMA CollectSerial ==
  ASSUME TypeOK, SerialInv, ~overlapped, NEW t \in Threads,
         NEW c \in CallRecords, c = call[t], Collect(t)
  PROVE  SerialInv'
<1> DEFINE a == c.auth
           holds == [b \in Auths |-> Hold(b)]
           L == Left(c.todo)
           K == L \ {"collect"}
<1>1. At(t, "collect")
  BY DEF Collect
<1>2. HoldsCounted /\ a \in Auths
  BY <1>1, Entered
<1>3. Repairs(a, L) /\ Carries(c, a, L) /\ \A b \in Auths \ {a} : Settled(b)
  BY <1>1, Entered
<1>4. /\ call' = Advance(t, [c EXCEPT !.records = holds])
      /\ UNCHANGED <<auths, sched, file, registered, suspended>>
  BY DEF Collect
<1>5. holds \in [Auths -> Holds]
  BY DEF TypeOK, Hold, Creds, Holds
<1> HIDE DEF holds
<1>6. PICK d \in CallRecords : d = [c EXCEPT !.records = holds]
  BY <1>5 DEF CallRecords
<1>7. d.auth = a /\ d.todo = c.todo /\ d.snap = c.snap /\ d.all = c.all /\ d.records = holds
  BY <1>6 DEF CallRecords
<1>8. HoldsCounted' /\ \A b \in Auths : Hold(b)' = Hold(b)
  BY <1>2, <1>4, SameMap
<1>9. \A b \in Auths \ {a} : Settled(b)'
  BY <1>3, <1>4, <1>8 DEF Settled
<1>10. d.records = [b \in Auths |-> Hold(b)]
  BY <1>7 DEF holds
<1> HIDE DEF L
<1>11. Repairs(a, K)'
  BY <1>2, <1>3, <1>4, <1>8 DEF Repairs
<1>12. Carries(d, a, K)'
  BY <1>2, <1>3, <1>4, <1>7, <1>8, <1>10 DEF Carries
<1> QED
  BY <1>1, <1>4, <1>6, <1>7, <1>8, <1>9, <1>11, <1>12, AdvanceSerial DEF L

\* ... for every credential.
LEMMA SaveSerial ==
  ASSUME TypeOK, SerialInv, ~overlapped, NEW t \in Threads,
         NEW c \in CallRecords, c = call[t], Save(t)
  PROVE  SerialInv'
<1> DEFINE a == c.auth
           d == [c EXCEPT !.records = NoRecords]
           L == Left(c.todo)
           K == L \ {"save"}
<1>1. At(t, "save")
  BY DEF Save
<1>2. HoldsCounted /\ a \in Auths /\ "save" \in L /\ "collect" \notin L
  BY <1>1, Entered
<1>3. Repairs(a, L) /\ Carries(c, a, L) /\ \A b \in Auths \ {a} : Settled(b)
  BY <1>1, Entered
<1>4. /\ call' = Advance(t, d) /\ file' = c.records
      /\ UNCHANGED <<auths, sched, registered, suspended>>
  BY DEF Save
<1>5. d \in CallRecords /\ d.auth = a /\ d.todo = c.todo
      /\ d.snap = c.snap /\ d.all = c.all
  BY DEF CallRecords, NoRecords, Holds
<1> HIDE DEF d
<1>6. HoldsCounted' /\ \A b \in Auths : Hold(b)' = Hold(b)
  BY <1>2, <1>4, SameMap
<1>7. \A b \in Auths : file'[b] = Hold(b)
  BY <1>2, <1>3, <1>4 DEF Carries
<1>8. \A b \in Auths \ {a} : Settled(b)'
  BY <1>3, <1>4, <1>6, <1>7 DEF Settled
<1> HIDE DEF L
<1>9. Repairs(a, K)'
  BY <1>2, <1>3, <1>4, <1>6, <1>7 DEF Repairs
<1>10. Carries(d, a, K)'
  BY <1>2, <1>3, <1>4, <1>5, <1>6 DEF Carries
<1> QED
  BY <1>1, <1>4, <1>5, <1>6, <1>8, <1>9, <1>10, AdvanceSerial DEF L

\* A hold is announced and withdrawn as the map has it.
LEMMA SuspendSerial ==
  ASSUME TypeOK, SerialInv, ~overlapped, NEW t \in Threads,
         NEW c \in CallRecords, c = call[t],
         NEW step \in {"suspend", "resume"}, At(t, step), call' = Advance(t, c),
         suspended' = [suspended EXCEPT ![c.auth] = (step = "suspend")],
         UNCHANGED <<auths, sched, file, registered>>
  PROVE  SerialInv'
<1> DEFINE a == c.auth
           L == Left(c.todo)
           K == L \ {step}
<1>1. HoldsCounted /\ a \in Auths /\ step \in L
  BY Entered
<1>2. Repairs(a, L) /\ Carries(c, a, L) /\ \A b \in Auths \ {a} : Settled(b)
  BY Entered
<1>3. "delete" \notin L /\ (step = "suspend" <=> Hold(a) # "none")
  <2>1. "delete" \in L => step = "delete"
    BY Entered
  <2> QED
    BY <1>1, <1>2, <2>1 DEF Carries
<1>4. HoldsCounted' /\ \A b \in Auths : Hold(b)' = Hold(b)
  BY <1>1, SameMap
<1>5. suspended'[a] <=> Hold(a) # "none"
  BY <1>1, <1>3 DEF TypeOK
<1>6. \A b \in Auths \ {a} : Settled(b)'
  BY <1>2, <1>4 DEF Settled, TypeOK
<1>7. ~("suspend" \in L /\ "resume" \in L)
  BY <1>2 DEF Carries
<1>8. "register" \notin L /\ "reconcile" \notin L
  <2>1. /\ "register" \notin L /\ "reconcile" \notin L
        \/ c.todo \in {Version, Scheduled, ModelRegistration, Reconciling}
    BY Sole DEF Owing, Ordered, At
  <2>2. c.todo \notin {Version, Scheduled, ModelRegistration, Reconciling}
    BY <1>1, LeftVersion
  <2> QED
    BY <2>1, <2>2
<1> HIDE DEF L
<1>9. Repairs(a, K)'
  BY <1>1, <1>2, <1>4, <1>5 DEF Repairs
<1>10. Carries(c, a, K)'
  BY <1>1, <1>2, <1>3, <1>4, <1>8 DEF Carries
<1> QED
  BY <1>4, <1>6, <1>9, <1>10, AdvanceSerial DEF L

\* A removed credential leaves the scheduler.
LEMMA UnscheduleSerial ==
  ASSUME TypeOK, SerialInv, ~overlapped, NEW t \in Threads,
         NEW c \in CallRecords, c = call[t], Unschedule(t)
  PROVE  SerialInv'
<1> DEFINE a == c.auth
           L == Left(c.todo)
           K == L \ {"unschedule"}
<1>1. At(t, "unschedule")
  BY DEF Unschedule
<1>2. HoldsCounted /\ a \in Auths /\ "unschedule" \in L
  BY <1>1, Entered
<1>3. Repairs(a, L) /\ Carries(c, a, L) /\ \A b \in Auths \ {a} : Settled(b)
  BY <1>1, Entered
<1>4. /\ call' = Advance(t, c) /\ sched' = [sched EXCEPT ![a] = Absent]
      /\ UNCHANGED <<auths, file, registered, suspended>>
  BY DEF Unschedule
<1>5. HoldsCounted' /\ \A b \in Auths : Hold(b)' = Hold(b)
  BY <1>2, <1>4, SameMap
<1>6. \A b \in Auths \ {a} : Settled(b)'
  BY <1>3, <1>4, <1>5 DEF Settled, TypeOK
<1>7. sched'[a] = auths'[a]
  BY <1>2, <1>3, <1>4 DEF Carries, TypeOK
<1> HIDE DEF L
<1>8. Repairs(a, K)'
  BY <1>2, <1>3, <1>4, <1>5, <1>7 DEF Repairs
<1>9. Carries(c, a, K)'
  BY <1>2, <1>3, <1>4, <1>5 DEF Carries
<1> QED
  BY <1>1, <1>4, <1>5, <1>6, <1>8, <1>9, AdvanceSerial DEF L

\* A call that goes on with other sections than those it had left.
LEMMA TurnSerial ==
  ASSUME TypeOK, SerialInv, ~overlapped, NEW t \in Threads, call[t] # Idle,
         NEW c \in Calls, \A u \in Threads : call'[u] = IF u = t THEN c ELSE Idle,
         HoldsCounted', \A b \in Auths \ {c.auth} : Settled(b)',
         Once(c.todo), Ordered(c.todo),
         Repairs(c.auth, Left(c.todo))', Carries(c, c.auth, Left(c.todo))'
  PROVE  SerialInv'
<1>1. Owing(c)'
  BY DEF Owing
<1> QED
  BY <1>1, SerialAfter, MarksAssumption

\* A call that is over leaves everything settled.
LEMMA OverSerial ==
  ASSUME NEW t \in Threads, \A u \in Threads : call'[u] = Idle,
         HoldsCounted', \A b \in Auths : Settled(b)'
  PROVE  SerialInv'
BY SerialAfter

\* Other objects than those of the call that takes the step are none's.
LEMMA TouchAlone ==
  ASSUME NEW calls \in CallTable, NEW t \in Threads, \A u \in Threads \ {t} : calls[u] = Idle,
         NEW a \in Auths, NEW new \in Creds, calls[t] # Idle, calls[t].snap = new
  PROVE  \A u \in Threads : Touch(calls, a, new)[u] = IF u = t THEN calls[t] ELSE Idle
<1>1. [calls[t] EXCEPT !.snap = new] = calls[t]
  <2>1. calls[t] \in Calls
    BY DEF CallTable
  <2> QED
    BY <2>1 DEF Calls, CallRecords
<1> QED
  BY <1>1 DEF Touch

\* Rereading finds what the map has, and upserts it once more.
LEMMA RereadSerial ==
  ASSUME TypeOK, SerialInv, ~overlapped, NEW t \in Threads,
         NEW c \in CallRecords, c = call[t], Reread(t)
  PROVE  SerialInv'
<1> DEFINE a == c.auth
<1>1. At(t, "reread") /\ call[t] # Idle
  BY DEF Reread, At
<1>2. HoldsCounted /\ a \in Auths /\ c \in Calls
  BY <1>1, Entered
<1>3. c.todo = Rereading /\ Left(c.todo) = {"reread"}
  BY <1>1, Entered, LeftVersion
<1>4. Repairs(a, {"reread"}) /\ Carries(c, a, {"reread"}) /\ \A b \in Auths \ {a} : Settled(b)
  BY <1>1, <1>3, Entered, SMTT(20)
<1>5. \A u \in Threads : u # t => call[u] = Idle
  BY <1>1, Sole
<1>6. UNCHANGED <<auths, sched, file, registered, suspended>>
  BY DEF Reread
<1>7. HoldsCounted' /\ \A b \in Auths : Hold(b)' = Hold(b)
  BY <1>2, <1>6, SameMap
<1>8. Settled(a)
  BY <1>4 DEF Repairs, Settled
<1>9. \A b \in Auths : Settled(b)'
  BY <1>4, <1>6, <1>7, <1>8 DEF Settled
<1>10. CASE auths[a] = Absent
  <2>1. \A u \in Threads : call'[u] = Idle
    BY <1>5, <1>10 DEF Reread, TypeOK
  <2> QED
    BY <1>7, <1>9, <2>1, OverSerial
<1>11. CASE auths[a] # Absent
  <2>1. /\ <<"upsert">> \in Seq(Steps) /\ <<"upsert">> # <<>> /\ <<"upsert">> # <<"refresh">>
        /\ auths[a] \in Credentials
    BY <1>2 DEF Steps, TypeOK, Credentials
  <2>0. PICK d : d = [c EXCEPT !.snap = auths[a], !.todo = <<"upsert">>]
    OBVIOUS
  <2>2. d \in Calls /\ d.auth = a /\ d.todo = <<"upsert">> /\ d.snap = auths[a]
    BY <1>2, <2>0, <2>1 DEF Calls, CallRecords, Credentials
  <2>3. call' = [call EXCEPT ![t] = d]
    BY <1>11, <2>0 DEF Reread
  <2>4. \A u \in Threads : call'[u] = IF u = t THEN d ELSE Idle
    BY <1>5, <2>3 DEF TypeOK
  <2>5. Left(d.todo) = {"upsert"} /\ Once(d.todo) /\ Collected(d.todo)
    BY <2>2, LeftSingle DEF AllSteps, Steps
  <2>6. Ordered(d.todo)
    BY <2>5 DEF Ordered
  <2>7. Repairs(a, {"upsert"})' /\ Carries(d, a, {"upsert"})'
    BY <1>2, <1>6, <1>9, <2>2 DEF Repairs, Carries, Settled
  <2>8. \A b \in Auths \ {d.auth} : Settled(b)'
    BY <1>9
  <2> QED
    BY <1>1, <1>7, <2>2, <2>4, <2>5, <2>6, <2>7, <2>8, TurnSerial
<1> QED
  BY <1>10, <1>11

\* A scheduler that is rebuilt gets what the map has.
LEMMA RebuildSerial ==
  ASSUME TypeOK, SerialInv, ~overlapped, NEW t \in Threads,
         NEW c \in CallRecords, c = call[t], Rebuild(t)
  PROVE  SerialInv'
<1> DEFINE a == c.auth
<1>1. At(t, "rebuild")
  BY DEF Rebuild
<1>2. HoldsCounted /\ a \in Auths
  BY <1>1, Entered
<1>3. Left(c.todo) = {"rebuild"}
  BY <1>1, Entered
<1>4. Repairs(a, {"rebuild"}) /\ Carries(c, a, {"rebuild"}) /\ \A b \in Auths \ {a} : Settled(b)
  BY <1>1, <1>3, Entered, SMTT(20)
<1>5. /\ call' = Advance(t, c) /\ sched' = c.all
      /\ UNCHANGED <<auths, file, registered, suspended>>
  BY DEF Rebuild
<1>6. HoldsCounted' /\ \A b \in Auths : Hold(b)' = Hold(b)
  BY <1>2, <1>5, SameMap
<1>7. sched' = auths'
  BY <1>4, <1>5 DEF Carries
<1>8. \A b \in Auths \ {a} : Settled(b)'
  BY <1>4, <1>5, <1>6, <1>7 DEF Settled
<1>9. Repairs(a, {})'
  BY <1>2, <1>4, <1>5, <1>6, <1>7 DEF Repairs
<1>10. Carries(c, a, {})'
  BY DEF Carries
<1>11. Left(c.todo) \ {"rebuild"} = {}
  BY <1>3
<1> QED
  BY <1>1, <1>5, <1>6, <1>8, <1>9, <1>10, <1>11, AdvanceSerial

\* A refresh that fails leaves the map as it is.
LEMMA RefreshFailSerial ==
  ASSUME TypeOK, SerialInv, ~overlapped, NEW t \in Threads,
         NEW c \in CallRecords, c = call[t], RefreshFail(t)
  PROVE  SerialInv'
<1> DEFINE a == c.auth
<1>1. At(t, "refresh") /\ call[t] # Idle
  BY DEF RefreshFail, At
<1>2. HoldsCounted /\ a \in Auths
  BY <1>1, Entered
<1>3. Left(c.todo) = {"refresh"}
  BY <1>1, Entered
<1>4. Repairs(a, {"refresh"}) /\ \A b \in Auths \ {a} : Settled(b)
  BY <1>1, <1>3, Entered
<1>5. /\ call' = [call EXCEPT ![t] = Idle] /\ UNCHANGED <<auths, file, registered, suspended>>
      /\ sched' = IF auths[a] = Absent THEN sched ELSE [sched EXCEPT ![a] = auths[a]]
  BY DEF RefreshFail
<1>6. HoldsCounted' /\ \A b \in Auths : Hold(b)' = Hold(b)
  BY <1>2, <1>5, SameMap
<1>7. \A b \in Auths : Settled(b)
  BY <1>4 DEF Repairs, Settled
<1>8. sched' = sched
  BY <1>2, <1>5, <1>7 DEF Settled, TypeOK
<1>9. \A b \in Auths : Settled(b)'
  BY <1>5, <1>6, <1>7, <1>8 DEF Settled
<1>10. \A u \in Threads : call'[u] = Idle
  BY <1>1, <1>5, Sole DEF TypeOK
<1> QED
  BY <1>6, <1>9, <1>10, OverSerial

\* A removal leaves what has still to go.
LEMMA DeleteSerial ==
  ASSUME TypeOK, SerialInv, ~overlapped, NEW t \in Threads,
         NEW c \in CallRecords, c = call[t], Delete(t)
  PROVE  SerialInv'
<1> DEFINE a == c.auth
<1>1. At(t, "delete") /\ call[t] # Idle
  BY DEF Delete, At
<1>2. HoldsCounted /\ a \in Auths /\ c \in Calls
  BY <1>1, Entered
<1>3. Left(c.todo) = {"delete"}
  BY <1>1, Entered
<1>4. Repairs(a, {"delete"}) /\ Carries(c, a, {"delete"}) /\ \A b \in Auths \ {a} : Settled(b)
  BY <1>1, <1>3, Entered
<1>5. UNCHANGED <<sched, offered, file, registered, suspended>> /\ ~registered[a] /\ ~suspended[a]
  BY <1>4 DEF Delete, Carries
<1>6. \A u \in Threads : u # t => call[u] = Idle
  BY <1>1, Sole
<1>7. CASE auths[a] = Absent
  <2>1. call' = Advance(t, c) /\ auths' = auths
    BY <1>7 DEF Delete
  <2>2. HoldsCounted' /\ \A b \in Auths : Hold(b)' = Hold(b)
    BY <1>2, <1>5, <2>1, SameMap
  <2>3. \A b \in Auths \ {a} : Settled(b)'
    BY <1>4, <1>5, <2>1, <2>2 DEF Settled
  <2>4. Hold(a) = "none"
    BY <1>7 DEF Hold
  <2>5. Repairs(a, {})'
    BY <1>2, <1>4, <1>5, <1>7, <2>1, <2>2, <2>4 DEF Repairs
  <2>6. Carries(c, a, {})' /\ Left(c.todo) \ {"delete"} = {}
    BY <1>3 DEF Carries
  <2> QED
    BY <1>1, <2>1, <2>2, <2>3, <2>5, <2>6, AdvanceSerial
<1>8. CASE auths[a] # Absent
  <2>1. PICK d : d = [c EXCEPT !.todo = AfterDelete]
    OBVIOUS
  <2>2. d \in Calls /\ d.auth = a /\ d.todo = AfterDelete
    BY <1>2, <2>1, AfterDeleteType DEF Calls, CallRecords
  <2> DEFINE calls == [call EXCEPT ![t] = d]
  <2>3. auths' = [auths EXCEPT ![a] = Absent] /\ call' = Detach(calls, a)
    BY <1>8, <2>1 DEF Delete
  <2>4. calls \in CallTable /\ calls[t] = d /\ \A u \in Threads : u # t => calls[u] = Idle
    BY <1>6, <2>2 DEF TypeOK, CallTable
  <2> HIDE DEF calls
  <2>5. PICK e : e = [d EXCEPT !.live = FALSE]
    OBVIOUS
  <2>6. e \in Calls /\ e.auth = a /\ e.todo = AfterDelete
    BY <2>2, <2>5 DEF Calls, CallRecords
  <2>7. \A u \in Threads : call'[u] = IF u = t THEN e ELSE Idle
    BY <2>2, <2>3, <2>4, <2>5, MarksAssumption DEF Detach
  <2>8. /\ Left(e.todo) = {"unschedule", "collect", "save"} /\ Once(e.todo)
        /\ Collected(e.todo)
    <3> DEFINE u == <<"unschedule">>
    <3>1. Left(u) = {"unschedule"} /\ Once(u) /\ Collected(u) /\ u \in Seq(AllSteps)
      BY LeftSingle DEF AllSteps, Steps
    <3>2. e.todo = u \o Persist
      BY <2>6 DEF AfterDelete
    <3> HIDE DEF u
    <3>3. Left(u) \cap Left(Persist) = {}
      BY <3>1, LeftPersist
    <3>4. Left(u \o Persist) = Left(u) \cup Left(Persist)
          /\ Once(u \o Persist) /\ Collected(u \o Persist)
      BY <3>1, <3>3, LeftPersist, LeftConcat
    <3> QED
      BY <3>1, <3>2, <3>4, LeftPersist
  <2>9. Ordered(e.todo)
    BY <2>8 DEF Ordered
  <2>10. auths'[a] = Absent /\ \A b \in Auths : b # a => auths'[b] = auths[b]
    BY <1>2, <2>3 DEF TypeOK
  <2>11. Hold(a)' = "none" /\ \A b \in Auths : b # a => Hold(b)' = Hold(b)
    BY <1>2, <2>10 DEF Hold
  <2>12. HoldsCounted'
    BY <1>2, <2>10 DEF HoldsCounted
  <2>13. \A b \in Auths \ {a} : Settled(b)'
    BY <1>4, <1>5, <2>10, <2>11 DEF Settled
  <2>14. Repairs(a, {"unschedule", "collect", "save"})'
    BY <1>2, <1>5, <2>10, <2>11 DEF Repairs
  <2>15. Carries(e, a, {"unschedule", "collect", "save"})'
    BY <1>2, <1>5, <2>10, <2>11 DEF Carries
  <2> QED
    BY <1>1, <2>6, <2>7, <2>8, <2>9, <2>12, <2>13, <2>14, <2>15, TurnSerial
<1> QED
  BY <1>7, <1>8

\* The version put in the map is the one read before, or a fresh one.
LEMMA PutSerial ==
  ASSUME TypeOK, SerialInv, ~overlapped, NEW t \in Threads,
         NEW c \in CallRecords, c = call[t], Put(t)
  PROVE  SerialInv'
<1> DEFINE a == c.auth
           M == {"upsert", "register", "reconcile", "reread"}
<1>1. At(t, "put") /\ call[t] # Idle
  BY DEF Put, At
<1>2. HoldsCounted /\ a \in Auths /\ c \in Calls
  BY <1>1, Entered
<1>3. c.todo = Version /\ Left(c.todo) = M \cup {"put"}
  BY <1>1, Entered, LeftVersion
<1>4. Repairs(a, M \cup {"put"}) /\ Carries(c, a, M \cup {"put"})
      /\ \A b \in Auths \ {a} : Settled(b)
  BY <1>1, <1>3, Entered
<1>5. c.snap = auths[a] /\ (~registered[a] => ~suspended[a])
  BY <1>4 DEF Carries
<1>6. UNCHANGED <<sched, offered, file, registered, suspended>>
  BY DEF Put
<1>7. \A u \in Threads : u # t => call[u] = Idle
  BY <1>1, Sole
<1>8. PICK new : new = IF c.snap = Absent THEN Fresh ELSE Merge(c.snap, auths[a])
  OBVIOUS
<1>9. /\ auths' = [auths EXCEPT ![a] = new]
      /\ call' = [Detach(call, a) EXCEPT ![t] =
                     Continue([c EXCEPT !.snap = new, !.live = TRUE])]
  BY <1>5, <1>8 DEF Put
<1>10. new \in Creds /\ (c.snap # Absent => new.hold = auths[a].hold /\ new.done = auths[a].done)
       /\ (c.snap = Absent => new.hold = "none" /\ new.done = 0)
  <2>1. auths[a] \in Credentials
    BY <1>2 DEF TypeOK, Credentials
  <2>2. CASE c.snap = Absent
    BY <1>8, <2>2, MaxResultsAssumption DEF Fresh, Creds, Holds
  <2>3. CASE c.snap # Absent
    BY <1>5, <1>8, <2>1, <2>3 DEF Merge, Creds, Credentials
  <2> QED
    BY <2>2, <2>3
<1>11. new # Absent
  BY <1>10, MarksAssumption
<1>12. auths'[a] = new /\ \A b \in Auths : b # a => auths'[b] = auths[b]
  BY <1>2, <1>9 DEF TypeOK
<1>13. Hold(a)' = Hold(a) /\ \A b \in Auths : b # a => Hold(b)' = Hold(b)
  BY <1>2, <1>5, <1>10, <1>11, <1>12 DEF Hold
<1>14. HoldsCounted'
  <2>1. \A b \in Auths : b # a =>
           (auths'[b] # Absent /\ auths'[b].hold # "none" => HasState(auths'[b]))
    BY <1>2, <1>12 DEF HoldsCounted
  <2>2. auths'[a].hold # "none" => HasState(auths'[a])
    BY <1>2, <1>5, <1>10, <1>12 DEF HoldsCounted, HasState
  <2> QED
    BY <2>1, <2>2 DEF HoldsCounted
<1>15. PICK d \in Calls : d.auth = a /\ d.todo = Scheduled /\ d.snap = new
         /\ d = Continue([c EXCEPT !.snap = new, !.live = TRUE])
  <2>1. PICK e : e = [c EXCEPT !.snap = new, !.live = TRUE]
    OBVIOUS
  <2>2. e \in CallRecords /\ e.auth = a /\ e.todo = Version /\ e.snap = new
    BY <1>3, <1>10, <2>1 DEF CallRecords
  <2>3. Len(Version) # 1 /\ Version # <<>> /\ Tail(Version) = Scheduled
    BY FormsDiffer, FormsAre
  <2>4. [e EXCEPT !.todo = Tail(@)] \in Calls
    BY <2>2, <2>3, ContinueCall
  <2>5. Continue(e) = [e EXCEPT !.todo = Tail(@)]
    BY <2>2, <2>3 DEF Continue
  <2>6. /\ Continue(e).auth = a /\ Continue(e).todo = Scheduled /\ Continue(e).snap = new
    BY <2>2, <2>3, <2>5 DEF CallRecords
  <2> QED
    BY <2>1, <2>4, <2>5, <2>6
<1>16. \A u \in Threads : call'[u] = IF u = t THEN d ELSE Idle
  BY <1>7, <1>9, <1>15 DEF Detach
<1>17. Left(d.todo) = M /\ Once(d.todo) /\ Ordered(d.todo)
  <2>1. /\ Owing(c) /\ c.todo # <<>> /\ c.todo \in Seq(AllSteps)
    BY <1>1, Sole
  <2>2. /\ Once(Version) /\ Ordered(Version) /\ Len(Version) # 1 /\ Head(Version) = "put"
        /\ Tail(Version) = Scheduled /\ Version \in Seq(AllSteps) /\ Version # <<>>
    BY <1>3, <2>1, FormsDiffer DEF Owing
  <2>3. Once(Scheduled)
    BY <2>2, LeftTail
  <2>4. Ordered(Scheduled)
    BY <2>2, OrderedTail
  <2> QED
    BY <1>15, <2>3, <2>4, LeftVersion
<1>18. \A b \in Auths \ {a} : Settled(b)'
  BY <1>4, <1>6, <1>12, <1>13 DEF Settled
<1>19. /\ suspended[a] <=> Hold(a) # "none"
       /\ Hold(a) # "none" => file[a] = Hold(a)
  BY <1>4 DEF Repairs
<1>20. Repairs(a, M)'
  BY <1>6, <1>13, <1>19 DEF Repairs
<1>21. Carries(d, a, M)'
  BY <1>5, <1>6, <1>11, <1>12, <1>15 DEF Carries
<1> QED
  BY <1>1, <1>14, <1>15, <1>16, <1>17, <1>18, <1>20, <1>21, TurnSerial

\* The registry has models again for a credential of the map.
LEMMA RegisterSerial ==
  ASSUME TypeOK, SerialInv, ~overlapped, NEW t \in Threads,
         NEW c \in CallRecords, c = call[t], Register(t)
  PROVE  SerialInv'
<1> DEFINE a == c.auth
<1>1. At(t, "register")
  BY DEF Register
<1>2. HoldsCounted /\ a \in Auths
  BY <1>1, Entered
<1>3. Left(c.todo) = {"register", "reconcile", "reread"}
  BY <1>1, Entered, LeftVersion
<1>4. /\ Repairs(a, {"register", "reconcile", "reread"})
      /\ Carries(c, a, {"register", "reconcile", "reread"})
      /\ \A b \in Auths \ {a} : Settled(b)
  BY <1>1, <1>3, Entered
<1>5. /\ call' = Advance(t, c) /\ UNCHANGED <<auths, sched, file>>
      /\ registered' = [registered EXCEPT ![a] = TRUE]
      /\ suspended' = [suspended EXCEPT ![a] = suspended[a] /\ ~registered[a]]
  BY DEF Register
<1>6. HoldsCounted' /\ \A b \in Auths : Hold(b)' = Hold(b)
  BY <1>2, <1>5 DEF HoldsCounted, Hold
<1>7. /\ registered'[a] /\ ~suspended'[a] /\ auths[a] # Absent
      /\ \A b \in Auths : b # a => registered'[b] = registered[b] /\ suspended'[b] = suspended[b]
  <2>1. auths[a] # Absent /\ (~registered[a] => ~suspended[a])
    BY <1>4 DEF Carries
  <2>2. suspended'[a] = (suspended[a] /\ ~registered[a])
    BY <1>2, <1>5 DEF TypeOK
  <2> QED
    BY <1>2, <1>5, <2>1, <2>2 DEF TypeOK
<1>8. \A b \in Auths \ {a} : Settled(b)'
  BY <1>4, <1>5, <1>6, <1>7 DEF Settled
<1>9. Repairs(a, {"reconcile", "reread"})'
  BY <1>2, <1>4, <1>5, <1>6, <1>7 DEF Repairs
<1>10. Carries(c, a, {"reconcile", "reread"})'
  BY <1>5, <1>7 DEF Carries
<1>11. Left(c.todo) \ {"register"} = {"reconcile", "reread"}
  BY <1>3
<1> QED
  BY <1>1, <1>5, <1>6, <1>8, <1>9, <1>10, <1>11, AdvanceSerial

\* Reconciling drops a hold of a credential that is not suspended.
LEMMA ReconcileSerial ==
  ASSUME TypeOK, SerialInv, ~overlapped, NEW t \in Threads,
         NEW c \in CallRecords, c = call[t], Reconcile(t)
  PROVE  SerialInv'
<1> DEFINE a == c.auth
<1>1. At(t, "reconcile") /\ call[t] # Idle
  BY DEF Reconcile, At
<1>2. HoldsCounted /\ a \in Auths /\ c \in Calls
  BY <1>1, Entered
<1>3. Left(c.todo) = {"reconcile", "reread"}
  BY <1>1, Entered, LeftVersion
<1>4. /\ Repairs(a, {"reconcile", "reread"}) /\ Carries(c, a, {"reconcile", "reread"})
      /\ \A b \in Auths \ {a} : Settled(b)
  BY <1>1, <1>3, Entered
<1>5. /\ UNCHANGED <<sched, offered, file, registered, suspended>> /\ ~suspended[a]
  BY <1>4 DEF Reconcile, Carries
<1>6. \A u \in Threads : u # t => call[u] = Idle
  BY <1>1, Sole
<1>7. CASE auths[a] = Absent \/ auths[a].hold = "none"
  <2>1. call' = Advance(t, c) /\ auths' = auths
    BY <1>7 DEF Reconcile
  <2>2. HoldsCounted' /\ \A b \in Auths : Hold(b)' = Hold(b)
    BY <1>2, <1>5, <2>1, SameMap
  <2>3. \A b \in Auths \ {a} : Settled(b)'
    BY <1>4, <1>5, <2>1, <2>2 DEF Settled
  <2>4. Hold(a) = "none"
    BY <1>7 DEF Hold
  <2>5. Repairs(a, {"reread"})'
    BY <1>2, <1>4, <1>5, <2>1, <2>2, <2>4 DEF Repairs
  <2>6. Carries(c, a, {"reread"})' /\ Left(c.todo) \ {"reconcile"} = {"reread"}
    BY <1>3 DEF Carries
  <2> QED
    BY <1>1, <2>1, <2>2, <2>3, <2>5, <2>6, AdvanceSerial
<1>8. CASE ~(auths[a] = Absent \/ auths[a].hold = "none")
  <2>1. PICK new : new = [auths[a] EXCEPT !.hold = "none"]
    OBVIOUS
  <2>2. new \in Creds /\ new.hold = "none" /\ new # Absent
    BY <1>2, <1>8, <2>1, MarksAssumption DEF TypeOK, Creds, Holds
  <2>3. PICK d : d = [c EXCEPT !.snap = new, !.todo = Reconciled]
    OBVIOUS
  <2>4. /\ Reconciled \in Seq(Steps) /\ Reconciled # <<>> /\ Reconciled # <<"refresh">>
        /\ Left(Reconciled) = {"upsert", "reread"} /\ Once(Reconciled) /\ Collected(Reconciled)
    <3>1. Reconciled \in Seq(Steps) /\ Len(Reconciled) = 2
      BY DEF Reconciled, Steps
    <3> QED
      BY <3>1, EmptySeq, StepsAreNotRefresh, LeftPair DEF Reconciled, AllSteps, Steps
  <2>5. d \in Calls /\ d.auth = a /\ d.todo = Reconciled /\ d.snap = new
    BY <1>2, <2>2, <2>3, <2>4 DEF Calls, CallRecords
  <2> DEFINE calls == [call EXCEPT ![t] = d]
  <2>6. auths' = [auths EXCEPT ![a] = new] /\ call' = Touch(calls, a, new)
    BY <1>8, <2>1, <2>3 DEF Reconcile, Reconciled
  <2>7. calls \in CallTable /\ calls[t] = d /\ \A u \in Threads : u # t => calls[u] = Idle
    BY <1>6, <2>5 DEF TypeOK, CallTable
  <2> HIDE DEF calls
  <2>8. \A u \in Threads : call'[u] = IF u = t THEN d ELSE Idle
    BY <1>2, <2>2, <2>5, <2>6, <2>7, TouchAlone, MarksAssumption
  <2>9. Ordered(d.todo)
    BY <2>4, <2>5 DEF Ordered
  <2>10. auths'[a] = new /\ \A b \in Auths : b # a => auths'[b] = auths[b]
    BY <1>2, <2>6 DEF TypeOK
  <2>11. Hold(a)' = "none" /\ \A b \in Auths : b # a => Hold(b)' = Hold(b)
    BY <1>2, <2>2, <2>10 DEF Hold
  <2>12. HoldsCounted'
    BY <1>2, <2>2, <2>10 DEF HoldsCounted
  <2>13. \A b \in Auths \ {a} : Settled(b)'
    BY <1>4, <1>5, <2>10, <2>11 DEF Settled
  <2>14. registered[a]
    BY <1>4, <1>8 DEF Repairs
  <2>15. Repairs(a, {"upsert", "reread"})'
    BY <1>2, <1>5, <2>2, <2>10, <2>11, <2>14 DEF Repairs
  <2>16. Carries(d, a, {"upsert", "reread"})'
    BY <1>2, <1>5, <2>5, <2>10, <2>11 DEF Carries
  <2> QED
    BY <1>1, <2>4, <2>5, <2>8, <2>9, <2>12, <2>13, <2>15, <2>16, TurnSerial
<1> QED
  BY <1>7, <1>8

\* A refreshed credential is the one read before, without the hold of a 401.
LEMMA RefreshDoneSerial ==
  ASSUME TypeOK, SerialInv, ~overlapped, NEW t \in Threads,
         NEW c \in CallRecords, c = call[t], RefreshDone(t)
  PROVE  SerialInv'
<1> DEFINE a == c.auth
           resumes == c.snap.hold = "unauthorized"
           copy == IF resumes THEN [c.snap EXCEPT !.hold = "none"] ELSE c.snap
           resume == IF resumes THEN <<"resume">> ELSE <<>>
           L == {"upsert"} \cup (IF resumes THEN {"resume"} ELSE {})
<1>1. At(t, "refresh") /\ call[t] # Idle
  BY DEF RefreshDone, At
<1>2. HoldsCounted /\ a \in Auths /\ c \in Calls /\ c.snap \in Creds
  BY <1>1, Entered, RefreshCarries
<1>3. Left(c.todo) = {"refresh"}
  BY <1>1, Entered
<1>4. /\ Repairs(a, {"refresh"}) /\ Carries(c, a, {"refresh"})
      /\ \A b \in Auths \ {a} : Settled(b)
  BY <1>1, <1>3, Entered
<1>5. /\ UNCHANGED <<sched, offered, file, registered, suspended>>
      /\ c.snap = auths[a] /\ auths[a] # Absent
  BY <1>2, <1>4, MarksAssumption DEF RefreshDone, Carries
<1>6. \A u \in Threads : u # t => call[u] = Idle
  BY <1>1, Sole
<1>7. PICK new : new = Merge(copy, auths[a])
  OBVIOUS
<1>8. PICK d : d = [c EXCEPT !.snap = new, !.live = TRUE, !.todo = <<"upsert">> \o resume]
  OBVIOUS
<1>9. /\ auths' = [auths EXCEPT ![a] = new]
      /\ call' = [Detach(call, a) EXCEPT ![t] = d]
  BY <1>5, <1>7, <1>8 DEF RefreshDone
<1>10. new \in Creds /\ new.done = auths[a].done
       /\ new.hold = IF resumes THEN "none" ELSE auths[a].hold
  <2>1. /\ copy \in Creds /\ copy.done = auths[a].done
        /\ copy.hold = IF resumes THEN "none" ELSE auths[a].hold
    BY <1>2, <1>5 DEF Creds, Holds
  <2>2. resumes => HasState(copy)
    BY <1>2, <1>5, <2>1 DEF HoldsCounted, HasState
  <2> HIDE DEF copy, resumes
  <2>3. auths[a] \in Creds
    BY <1>2, <1>5
  <2>4. new = [hold |-> IF HasState(copy) THEN copy.hold ELSE auths[a].hold,
               done |-> auths[a].done]
    BY <1>7 DEF Merge
  <2> QED
    BY <2>1, <2>2, <2>3, <2>4 DEF Creds, Holds
<1>11. new # Absent
  BY <1>10, MarksAssumption
<1>12. auths'[a] = new /\ \A b \in Auths : b # a => auths'[b] = auths[b]
  BY <1>2, <1>9 DEF TypeOK
<1>13. /\ Hold(a)' = IF resumes THEN "none" ELSE Hold(a)
       /\ \A b \in Auths : b # a => Hold(b)' = Hold(b)
  BY <1>2, <1>5, <1>10, <1>11, <1>12 DEF Hold
<1>14. HoldsCounted'
  <2>1. \A b \in Auths : b # a =>
           (auths'[b] # Absent /\ auths'[b].hold # "none" => HasState(auths'[b]))
    BY <1>2, <1>12 DEF HoldsCounted
  <2>2. auths'[a].hold # "none" => HasState(auths'[a])
    BY <1>2, <1>5, <1>10, <1>12 DEF HoldsCounted, HasState
  <2> QED
    BY <2>1, <2>2 DEF HoldsCounted
<1>15. /\ <<"upsert">> \o resume \in Seq(Steps) /\ <<"upsert">> \o resume # <<>>
       /\ Left(<<"upsert">> \o resume) = L /\ Once(<<"upsert">> \o resume)
       /\ Collected(<<"upsert">> \o resume)
  <2>0. <<"upsert">> \in Seq(Steps) /\ resume \in Seq(Steps)
    <3>1. <<"upsert">> \in Seq(Steps) /\ <<"resume">> \in Seq(Steps) /\ <<>> \in Seq(Steps)
      BY DEF Steps
    <3> QED
      BY <3>1
  <2>1. /\ <<"upsert">> \in Seq(AllSteps) /\ Left(<<"upsert">>) = {"upsert"}
        /\ Once(<<"upsert">>) /\ Collected(<<"upsert">>)
    BY LeftSingle DEF Steps, AllSteps
  <2>2. /\ resume \in Seq(AllSteps) /\ Left(resume) = IF resumes THEN {"resume"} ELSE {}
        /\ Once(resume) /\ Collected(resume)
    BY LeftSingle, LeftEmpty DEF Steps, AllSteps
  <2> HIDE DEF resume, resumes
  <2>3. <<"upsert">> \o resume \in Seq(Steps)
    BY <2>0, ConcatProperties
  <2>4. Left(<<"upsert">> \o resume) = L /\ Once(<<"upsert">> \o resume)
        /\ Collected(<<"upsert">> \o resume)
    BY <2>1, <2>2, LeftConcat
  <2>5. "upsert" \in Left(<<"upsert">> \o resume)
    BY <2>4
  <2>6. <<"upsert">> \o resume # <<>>
    BY <2>5, LeftEmpty
  <2> QED
    BY <2>3, <2>4, <2>6
<1> HIDE DEF resume
<1>16. d \in Calls /\ d.auth = a /\ d.snap = new /\ d.todo = <<"upsert">> \o resume
  <2>1. <<"upsert">> \o resume # <<"refresh">>
    BY <1>15, StepsAreNotRefresh
  <2> QED
    BY <1>2, <1>8, <1>10, <1>15, <2>1 DEF Calls, CallRecords
<1>17. \A u \in Threads : call'[u] = IF u = t THEN d ELSE Idle
  BY <1>6, <1>9 DEF Detach
<1>18. Left(d.todo) = L /\ Once(d.todo) /\ Ordered(d.todo)
  <2>1. Left(d.todo) = L /\ Once(d.todo) /\ Collected(d.todo)
    BY <1>15, <1>16
  <2>2. \A step \in {"put", "register", "reconcile", "reread", "delete", "refresh", "rebuild"} :
           step \notin L
    OBVIOUS
  <2> HIDE DEF L
  <2> QED
    BY <2>1, <2>2 DEF Ordered
<1>19. \A b \in Auths \ {a} : Settled(b)'
  BY <1>4, <1>5, <1>12, <1>13 DEF Settled
<1>20. /\ registered[a] <=> auths[a] # Absent
       /\ suspended[a] <=> Hold(a) # "none"
       /\ Hold(a) # "none" => file[a] = Hold(a)
  BY <1>4 DEF Repairs
<1> HIDE DEF resumes
<1>21. Repairs(a, L)'
  BY <1>5, <1>11, <1>12, <1>13, <1>20 DEF Repairs
<1>22. Carries(d, a, L)'
  BY <1>5, <1>12, <1>13, <1>16 DEF Carries
<1> QED
  BY <1>1, <1>14, <1>16, <1>17, <1>18, <1>19, <1>21, <1>22, TurnSerial

-----------------------------------------------------------------------------
(* Beginnings without overlap *)

\* A call that begins when nothing else is under way finds all settled.
LEMMA BeginSettled ==
  ASSUME SerialInv, Overlap, ~overlapped'
  PROVE  /\ HoldsCounted /\ \A a \in Auths : Settled(a)
         /\ \A t \in Threads : call[t] = Idle
BY DEF SerialInv, Overlap, Quiet

\* The call it is from then on owes what it has changed.
LEMMA BegunSerial ==
  ASSUME NEW t \in Threads, NEW c \in Calls,
         \A u \in Threads : call'[u] = IF u = t THEN c ELSE Idle,
         HoldsCounted', \A b \in Auths \ {c.auth} : Settled(b)',
         Once(c.todo), Ordered(c.todo),
         Repairs(c.auth, Left(c.todo))', Carries(c, c.auth, Left(c.todo))'
  PROVE  SerialInv'
<1>1. Owing(c)'
  BY DEF Owing
<1> QED
  BY <1>1, SerialAfter, MarksAssumption

\* A sequence in which no section of a new version comes, nor one that comes
\* alone.
LEMMA OrderedOther ==
  ASSUME NEW s, Collected(s),
         \A step \in {"put", "register", "reconcile", "reread", "delete", "refresh", "rebuild"} :
            step \notin Left(s)
  PROVE  Ordered(s)
BY DEF Ordered

\* What a result has to do.
LEMMA LeftMarked ==
  ASSUME NEW from, NEW to
  PROVE  LET s == Marked(from, to)
             p == IF from # "none" \/ to # "none" THEN {"collect", "save"} ELSE {}
             r == IF to = "none" THEN "resume" ELSE "suspend"
         IN  Left(s) = {"upsert", r} \cup p /\ Once(s) /\ Ordered(s)
<1> DEFINE r == IF to = "none" THEN "resume" ELSE "suspend"
           P == IF from # "none" \/ to # "none" THEN Persist ELSE <<>>
           p == IF from # "none" \/ to # "none" THEN {"collect", "save"} ELSE {}
           u == <<"upsert">>
<1>1. /\ u \in Seq(AllSteps) /\ Left(u) = {"upsert"} /\ Once(u) /\ Collected(u)
  BY LeftSingle DEF AllSteps, Steps
<1>2. /\ <<r>> \in Seq(AllSteps) /\ Left(<<r>>) = {r} /\ Once(<<r>>) /\ Collected(<<r>>)
      /\ r \in {"resume", "suspend"}
  BY LeftSingle DEF AllSteps, Steps
<1>3. P \in Seq(AllSteps) /\ Left(P) = p /\ Once(P) /\ Collected(P)
      /\ p \subseteq {"collect", "save"}
  BY LeftPersist, LeftEmpty
<1>4. Marked(from, to) = u \o (P \o <<r>>)
  <2>1. Marked(from, to) = (u \o P) \o <<r>>
    BY DEF Marked
  <2> HIDE DEF P, r, u
  <2> QED
    BY <1>1, <1>2, <1>3, <2>1, ConcatAssociative
<1> HIDE DEF P, p, r, u
<1>5. \/ p = {}
      \/ p = {"collect", "save"}
  BY DEF p
<1> DEFINE q == P \o <<r>>
<1>6. q \in Seq(AllSteps) /\ Left(q) = p \cup {r} /\ Once(q) /\ Collected(q)
  <2>1. Left(<<r>>) \cap Left(P) = {}
    BY <1>2, <1>3
  <2>2. CASE p = {}
    BY <1>2, <1>3, <2>1, <2>2, LeftConcat
  <2>3. CASE p # {}
    BY <1>2, <1>3, <2>1, <2>3, LeftConcat
  <2> QED
    BY <2>2, <2>3
<1> HIDE DEF q
<1>7. Left(u \o q) = {"upsert"} \cup p \cup {r} /\ Once(u \o q) /\ Collected(u \o q)
  BY <1>1, <1>2, <1>3, <1>6, LeftConcat
<1>8. Ordered(u \o q)
  BY <1>2, <1>3, <1>7, OrderedOther
<1> QED
  BY <1>4, <1>7, <1>8 DEF q, p, r

\* What a reset has to do.
LEMMA LeftReset ==
  ASSUME NEW P \in {<<>>, Persist}
  PROVE  LET s == <<"resume", "upsert">> \o P
             p == IF P = Persist THEN {"collect", "save"} ELSE {}
         IN  /\ s \in Seq(Steps) /\ s # <<>>
             /\ Left(s) = {"resume", "upsert"} \cup p /\ Once(s) /\ Ordered(s)
<1> DEFINE u == <<"resume", "upsert">>
           s == u \o P
           p == IF P = Persist THEN {"collect", "save"} ELSE {}
<1>1. /\ u \in Seq(AllSteps) /\ Left(u) = {"resume", "upsert"} /\ Once(u) /\ Collected(u)
  BY LeftPair DEF AllSteps, Steps
<1>2. u \in Seq(Steps) /\ P \in Seq(Steps)
  <2>1. u \in Seq(Steps) /\ <<>> \in Seq(Steps)
    BY DEF Steps
  <2> QED
    BY <2>1, PersistType
<1>3. P \in Seq(AllSteps) /\ Left(P) = p /\ Once(P) /\ Collected(P)
  <2>1. <<>> # Persist
    BY LeftEmpty, LeftPersist
  <2> QED
    BY <2>1, LeftPersist, LeftEmpty
<1>4. p \subseteq {"collect", "save"}
  OBVIOUS
<1> HIDE DEF p, u
<1>5. Left(s) = {"resume", "upsert"} \cup p /\ Once(s) /\ Collected(s)
  BY <1>1, <1>3, <1>4, LeftConcat
<1>6. s \in Seq(Steps)
  BY <1>2, ConcatProperties
<1> HIDE DEF s
<1>7. Ordered(s)
  BY <1>4, <1>5, OrderedOther
<1>8. s # <<>>
  BY <1>5, LeftEmpty
<1> QED
  BY <1>5, <1>6, <1>7, <1>8 DEF s, p, u

\* A result is counted, and the rest follows.
LEMMA MarkResultSerial ==
  ASSUME TypeOK, SerialInv, NEW t \in Threads, NEW a \in Auths, NEW hold \in Holds,
         MarkResult(t, a, hold), ~overlapped'
  PROVE  SerialInv'
<1>1. HoldsCounted /\ (\A b \in Auths : Settled(b)) /\ \A u \in Threads : call[u] = Idle
  BY BeginSettled DEF MarkResult
<1>2. PICK from : from = auths[a].hold
  OBVIOUS
<1>3. PICK new : new = [hold |-> hold, done |-> auths[a].done + 1]
  OBVIOUS
<1>4. auths[a] \in Creds /\ auths[a] # Absent /\ auths[a].done < MaxResults
  BY DEF MarkResult, TypeOK
<1>5. new \in Creds /\ new # Absent /\ new.hold = hold /\ new.done > 0
  <2>1. new \in Creds /\ new.hold = hold /\ new.done > 0
    BY <1>3, <1>4, MaxResultsAssumption DEF Creds
  <2> QED
    BY <2>1, MarksAssumption
<1> DEFINE todo == Marked(from, hold)
           p == IF from # "none" \/ hold # "none" THEN {"collect", "save"} ELSE {}
           r == IF hold = "none" THEN "resume" ELSE "suspend"
           L == {"upsert", r} \cup p
           c == NewCall(a, new, todo)
<1>6. Left(todo) = L /\ Once(todo) /\ Ordered(todo)
  BY LeftMarked
<1>7. todo \in Seq(Steps) /\ todo # <<>>
  BY MarkedType
<1>8. /\ auths' = [auths EXCEPT ![a] = new] /\ call' = Touch(Enter(t, c), a, new)
      /\ UNCHANGED <<sched, offered, file, registered, suspended>>
  BY <1>2, <1>3 DEF MarkResult
<1> HIDE DEF todo
<1>9. c \in Calls /\ c.auth = a /\ c.todo = todo /\ c.snap = new
  <2>1. new \in Credentials
    BY <1>5 DEF Credentials
  <2> QED
    BY <1>7, <2>1, NewCallType DEF NewCall
<1> HIDE DEF c
<1>10. /\ Enter(t, c) \in CallTable /\ Enter(t, c)[t] = c /\ c # Idle
       /\ \A u \in Threads \ {t} : Enter(t, c)[u] = Idle
  BY <1>1, <1>9, MarksAssumption DEF Enter, TypeOK, CallTable
<1>11. \A u \in Threads : call'[u] = IF u = t THEN c ELSE Idle
  BY <1>5, <1>8, <1>9, <1>10, TouchAlone
<1>12. auths'[a] = new /\ \A b \in Auths : b # a => auths'[b] = auths[b]
  BY <1>8 DEF TypeOK
<1>13. Hold(a)' = hold /\ \A b \in Auths : b # a => Hold(b)' = Hold(b)
  BY <1>5, <1>12 DEF Hold
<1>14. HoldsCounted'
  BY <1>1, <1>5, <1>12 DEF HoldsCounted, HasState
<1>15. \A b \in Auths \ {a} : Settled(b)'
  BY <1>1, <1>8, <1>12, <1>13 DEF Settled
<1>16. registered[a] /\ (hold # "none" => "save" \in L /\ "collect" \in L)
       /\ ("save" \in L => "collect" \in L) /\ ("suspend" \in L \/ "resume" \in L)
       /\ ("suspend" \in L => hold # "none") /\ ("resume" \in L => hold = "none")
       /\ "upsert" \in L
       /\ \A step \in {"put", "register", "reconcile", "reread", "delete", "refresh",
                       "rebuild", "unschedule"} : step \notin L
  BY <1>1, <1>4 DEF Settled
<1> HIDE DEF L
<1>17. Repairs(a, L)'
  BY <1>8, <1>5, <1>12, <1>13, <1>16 DEF Repairs
<1>18. Carries(c, a, L)'
  BY <1>9, <1>12, <1>13, <1>16 DEF Carries
<1> QED
  BY <1>6, <1>9, <1>11, <1>14, <1>15, <1>17, <1>18, BegunSerial DEF L

\* So with a reset.
LEMMA ResetQuotaSerial ==
  ASSUME TypeOK, SerialInv, NEW t \in Threads, NEW a \in Auths,
         ResetQuota(t, a), ~overlapped'
  PROVE  SerialInv'
<1>1. HoldsCounted /\ (\A b \in Auths : Settled(b)) /\ \A u \in Threads : call[u] = Idle
  BY BeginSettled DEF ResetQuota
<1>2. PICK P \in {<<>>, Persist} : P = IF auths[a].hold = "none" THEN <<>> ELSE Persist
  OBVIOUS
<1>3. PICK new : new = [auths[a] EXCEPT !.hold = "none"]
  OBVIOUS
<1>4. auths[a] \in Creds /\ auths[a] # Absent
  BY DEF ResetQuota, TypeOK
<1>5. new \in Creds /\ new # Absent /\ new.hold = "none"
  <2>1. new \in Creds /\ new.hold = "none"
    BY <1>3, <1>4 DEF Creds, Holds
  <2> QED
    BY <2>1, MarksAssumption
<1> DEFINE todo == <<"resume", "upsert">> \o P
           p == IF P = Persist THEN {"collect", "save"} ELSE {}
           L == {"resume", "upsert"} \cup p
           c == NewCall(a, new, todo)
<1>6. Left(todo) = L /\ Once(todo) /\ Ordered(todo)
  BY LeftReset
<1>7. todo \in Seq(Steps) /\ todo # <<>>
  BY LeftReset
<1>8. /\ auths' = [auths EXCEPT ![a] = new] /\ call' = Touch(Enter(t, c), a, new)
      /\ UNCHANGED <<sched, offered, file, registered, suspended>>
  BY <1>2, <1>3 DEF ResetQuota
<1> HIDE DEF todo
<1>9. c \in Calls /\ c.auth = a /\ c.todo = todo /\ c.snap = new
  <2>1. new \in Credentials
    BY <1>5 DEF Credentials
  <2> QED
    BY <1>7, <2>1, NewCallType DEF NewCall
<1> HIDE DEF c
<1>10. /\ Enter(t, c) \in CallTable /\ Enter(t, c)[t] = c /\ c # Idle
       /\ \A u \in Threads \ {t} : Enter(t, c)[u] = Idle
  BY <1>1, <1>9, MarksAssumption DEF Enter, TypeOK, CallTable
<1>11. \A u \in Threads : call'[u] = IF u = t THEN c ELSE Idle
  BY <1>5, <1>8, <1>9, <1>10, TouchAlone
<1>12. auths'[a] = new /\ \A b \in Auths : b # a => auths'[b] = auths[b]
  BY <1>8 DEF TypeOK
<1>13. Hold(a)' = "none" /\ \A b \in Auths : b # a => Hold(b)' = Hold(b)
  BY <1>5, <1>12 DEF Hold
<1>14. HoldsCounted'
  BY <1>1, <1>5, <1>12 DEF HoldsCounted
<1>15. \A b \in Auths \ {a} : Settled(b)'
  BY <1>1, <1>8, <1>12, <1>13 DEF Settled
<1>16. /\ registered[a] /\ "upsert" \in L /\ "resume" \in L
       /\ ("save" \in L => "collect" \in L)
       /\ \A step \in {"put", "register", "reconcile", "reread", "delete", "refresh",
                       "rebuild", "unschedule", "suspend"} : step \notin L
  BY <1>1, <1>4 DEF Settled
<1> HIDE DEF L
<1>17. Repairs(a, L)'
  BY <1>5, <1>8, <1>12, <1>13, <1>16 DEF Repairs
<1>18. Carries(c, a, L)'
  BY <1>9, <1>12, <1>13, <1>16 DEF Carries
<1> QED
  BY <1>6, <1>9, <1>11, <1>14, <1>15, <1>17, <1>18, BegunSerial DEF L

\* A removal begins in the registry, ...
LEMMA UnregisterSerial ==
  ASSUME TypeOK, SerialInv, NEW t \in Threads, NEW a \in Auths, Unregister(t, a), ~overlapped'
  PROVE  SerialInv'
<1>1. HoldsCounted /\ (\A b \in Auths : Settled(b)) /\ \A u \in Threads : call[u] = Idle
  BY BeginSettled DEF Unregister
<1> DEFINE c == NewCall(a, Absent, <<"delete">>)
<1>2. /\ call' = [call EXCEPT ![t] = c] /\ UNCHANGED <<auths, sched, file>>
      /\ registered' = [registered EXCEPT ![a] = FALSE]
      /\ suspended' = [suspended EXCEPT ![a] = suspended[a] /\ ~registered[a]]
  BY DEF Unregister, Enter
<1>3. /\ <<"delete">> \in Seq(Steps) /\ <<"delete">> # <<>> /\ Len(<<"delete">>) = 1
      /\ Left(<<"delete">>) = {"delete"} /\ Once(<<"delete">>) /\ Collected(<<"delete">>)
  BY LeftSingle DEF Steps, AllSteps
<1>4. c \in Calls /\ c.auth = a /\ c.todo = <<"delete">>
  <2>1. Absent \in Credentials
    BY DEF Credentials
  <2> QED
    BY <1>3, <2>1, NewCallType DEF NewCall
<1> HIDE DEF c
<1>5. \A u \in Threads : call'[u] = IF u = t THEN c ELSE Idle
  BY <1>1, <1>2 DEF TypeOK
<1>6. HoldsCounted' /\ \A b \in Auths : Hold(b)' = Hold(b)
  BY <1>1, <1>2 DEF HoldsCounted, Hold
<1>7. /\ \A b \in Auths : b # a => registered'[b] = registered[b] /\ suspended'[b] = suspended[b]
      /\ ~registered'[a] /\ suspended'[a] = (suspended[a] /\ ~registered[a])
  BY <1>2 DEF TypeOK
<1>8. \A b \in Auths \ {a} : Settled(b)'
  BY <1>1, <1>2, <1>6, <1>7 DEF Settled
<1>9. ~suspended'[a]
  <2>1. ~registered[a] => auths[a] = Absent
    BY <1>1 DEF Settled
  <2>2. auths[a] = Absent => Hold(a) = "none"
    BY DEF Hold
  <2>3. Hold(a) = "none" => ~suspended[a]
    BY <1>1 DEF Settled
  <2> QED
    BY <1>7, <2>1, <2>2, <2>3
<1>10. sched[a] = auths[a] /\ (Hold(a) # "none" => file[a] = Hold(a))
  BY <1>1 DEF Settled
<1>11. Repairs(a, {"delete"})'
  BY <1>2, <1>6, <1>10 DEF Repairs
<1>12. Carries(c, a, {"delete"})'
  BY <1>7, <1>9 DEF Carries
<1>13. Ordered(<<"delete">>)
  BY <1>3 DEF Ordered
<1> QED
  BY <1>3, <1>4, <1>5, <1>6, <1>8, <1>11, <1>12, <1>13, BegunSerial

\* ... an addition with the version read, ...
LEMMA ApplySerial ==
  ASSUME TypeOK, SerialInv, NEW t \in Threads, NEW a \in Auths, Apply(t, a), ~overlapped'
  PROVE  SerialInv'
<1>1. HoldsCounted /\ (\A b \in Auths : Settled(b)) /\ \A u \in Threads : call[u] = Idle
  BY BeginSettled DEF Apply
<1> DEFINE L == {"put", "upsert", "register", "reconcile", "reread"}
<1>2. PICK c : c = NewCall(a, auths[a], Version)
  OBVIOUS
<1>3. /\ call' = [call EXCEPT ![t] = c]
      /\ UNCHANGED <<auths, sched, file, registered, suspended>>
  BY <1>2 DEF Apply, Enter, Version
<1>4. Version \in Seq(Steps) /\ Version # <<>> /\ Version \in Seq(AllSteps)
      /\ Left(Version) = L /\ Once(Version) /\ Ordered(Version)
  <2> DEFINE v == Version
             pu == <<"put", "upsert">>
             re == <<"reconcile", "reread">>
             m == ModelRegistration
  <2>1. /\ pu \in Seq(AllSteps) /\ Left(pu) = {"put", "upsert"} /\ Once(pu) /\ Collected(pu)
    BY LeftPair DEF AllSteps, Steps
  <2>2. m \in Seq(AllSteps)
    BY RegistrationType, SeqMonotonic DEF AllSteps
  <2>3. Left(m) = {"register", "reconcile", "reread"} /\ Left(v) = L
    BY LeftVersion
  <2>4. Once(m) /\ Collected(m)
    <3>1. Len(m) = 3 /\ m[1] = "register" /\ m[2] = "reconcile" /\ m[3] = "reread"
      BY FormsAre
    <3> HIDE DEF m
    <3> QED
      BY <3>1 DEF Once, Collected
  <2>5. v = pu \o m
    BY DEF Version
  <2> HIDE DEF v, pu, m
  <2>6. Once(v) /\ Collected(v) /\ v \in Seq(AllSteps)
    BY <2>1, <2>2, <2>3, <2>4, <2>5, LeftConcat
  <2>7. v = Version
    BY DEF v
  <2>8. Ordered(v)
    BY <2>3, <2>6, <2>7 DEF Ordered
  <2>9. v # <<>>
    BY <2>3, LeftEmpty
  <2>10. v \in Seq(Steps)
    <3>1. pu \in Seq(Steps) /\ m \in Seq(Steps)
      BY RegistrationType DEF pu, m, Steps
    <3> QED
      BY <2>5, <3>1, ConcatProperties
  <2> QED
    BY <2>3, <2>6, <2>7, <2>8, <2>9, <2>10
<1>5. c \in Calls /\ c.auth = a /\ c.todo = Version /\ c.snap = auths[a]
  <2>1. auths[a] \in Credentials
    BY DEF TypeOK, Credentials
  <2> QED
    BY <1>2, <1>4, <2>1, NewCallType DEF NewCall
<1>6. \A u \in Threads : call'[u] = IF u = t THEN c ELSE Idle
  BY <1>1, <1>3 DEF TypeOK
<1>7. HoldsCounted' /\ \A b \in Auths : Hold(b)' = Hold(b)
  BY <1>1, <1>3, SameMap
<1>8. \A b \in Auths : Settled(b)'
  BY <1>1, <1>3, <1>7 DEF Settled
<1>9. ~registered[a] => ~suspended[a]
  BY <1>1 DEF Settled, Hold
<1>10. Repairs(a, L)'
  BY <1>8 DEF Repairs, Settled
<1>11. Carries(c, a, L)'
  BY <1>3, <1>5, <1>9 DEF Carries
<1> QED
  BY <1>4, <1>5, <1>6, <1>7, <1>8, <1>10, <1>11, BegunSerial

\* ... a refresh with the credential read, ...
LEMMA RefreshStartSerial ==
  ASSUME TypeOK, SerialInv, NEW t \in Threads, NEW a \in Auths, RefreshStart(t, a), ~overlapped'
  PROVE  SerialInv'
<1>1. HoldsCounted /\ (\A b \in Auths : Settled(b)) /\ \A u \in Threads : call[u] = Idle
  BY BeginSettled DEF RefreshStart
<1>2. PICK c : c = [NewCall(a, auths[a], <<"refresh">>) EXCEPT !.refreshing = TRUE]
  OBVIOUS
<1>3. /\ call' = [call EXCEPT ![t] = c] /\ auths[a] # Absent
      /\ UNCHANGED <<auths, sched, file, registered, suspended>>
  BY <1>2 DEF RefreshStart, Enter
<1>4. /\ Left(<<"refresh">>) = {"refresh"} /\ Once(<<"refresh">>) /\ Collected(<<"refresh">>)
      /\ Len(<<"refresh">>) = 1 /\ <<"refresh">> # <<>>
  BY LeftSingle DEF AllSteps
<1>5. c \in Calls /\ c.auth = a /\ c.todo = <<"refresh">> /\ c.snap = auths[a]
  <2>1. auths[a] \in Creds
    BY <1>3 DEF TypeOK
  <2>2. NoRecords \in [Auths -> Holds] /\ NoSnapshots \in [Auths -> Creds \cup {Absent}]
    BY DEF NoRecords, NoSnapshots, Holds
  <2> QED
    BY <1>2, <1>4, <2>1, <2>2 DEF NewCall, Calls, CallRecords
<1>6. \A u \in Threads : call'[u] = IF u = t THEN c ELSE Idle
  BY <1>1, <1>3 DEF TypeOK
<1>7. HoldsCounted' /\ \A b \in Auths : Hold(b)' = Hold(b)
  BY <1>1, <1>3, SameMap
<1>8. \A b \in Auths : Settled(b)'
  BY <1>1, <1>3, <1>7 DEF Settled
<1>9. Repairs(a, {"refresh"})'
  BY <1>8 DEF Repairs, Settled
<1>10. Carries(c, a, {"refresh"})'
  BY <1>3, <1>5 DEF Carries
<1>11. Ordered(<<"refresh">>)
  BY <1>4 DEF Ordered
<1> QED
  BY <1>4, <1>5, <1>6, <1>7, <1>8, <1>9, <1>10, <1>11, BegunSerial

\* ... and a rebuild with all of them.
LEMMA ResyncSerial ==
  ASSUME TypeOK, SerialInv, NEW t \in Threads, Resync(t), ~overlapped'
  PROVE  SerialInv'
<1>1. HoldsCounted /\ (\A b \in Auths : Settled(b)) /\ \A u \in Threads : call[u] = Idle
  BY BeginSettled DEF Resync
<1>2. PICK a : a = CHOOSE b \in Auths : TRUE
  OBVIOUS
<1>3. a \in Auths
  BY <1>2 DEF Resync
<1>4. PICK c : c = [NewCall(a, Absent, <<"rebuild">>) EXCEPT !.all = auths]
  OBVIOUS
<1>5. /\ call' = [call EXCEPT ![t] = c]
      /\ UNCHANGED <<auths, sched, file, registered, suspended>>
  BY <1>2, <1>4 DEF Resync, Enter
<1>6. /\ Left(<<"rebuild">>) = {"rebuild"} /\ Once(<<"rebuild">>) /\ Collected(<<"rebuild">>)
      /\ Len(<<"rebuild">>) = 1 /\ <<"rebuild">> # <<>> /\ <<"rebuild">> \in Seq(Steps)
  BY LeftSingle DEF AllSteps, Steps
<1>7. c \in Calls /\ c.auth = a /\ c.todo = <<"rebuild">> /\ c.all = auths
  <2> DEFINE n == NewCall(a, Absent, <<"rebuild">>)
  <2>1. n \in Calls
    BY <1>3, <1>6, NewCallType DEF Credentials
  <2>2. n.auth = a /\ n.todo = <<"rebuild">> /\ n \in CallRecords
    BY <2>1 DEF NewCall, Calls
  <2> HIDE DEF n
  <2>3. auths \in [Auths -> Creds \cup {Absent}] /\ c = [n EXCEPT !.all = auths]
    BY <1>4 DEF TypeOK, n
  <2> QED
    BY <2>1, <2>2, <2>3 DEF Calls, CallRecords
<1>8. \A u \in Threads : call'[u] = IF u = t THEN c ELSE Idle
  BY <1>1, <1>5 DEF TypeOK
<1>9. HoldsCounted' /\ \A b \in Auths : Hold(b)' = Hold(b)
  BY <1>1, <1>5, SameMap
<1>10. \A b \in Auths : Settled(b)'
  BY <1>1, <1>5, <1>9 DEF Settled
<1>11. Repairs(a, {"rebuild"})'
  BY <1>3, <1>10 DEF Repairs, Settled
<1>12. Carries(c, a, {"rebuild"})'
  BY <1>5, <1>7 DEF Carries
<1>13. Ordered(<<"rebuild">>)
  BY <1>6 DEF Ordered
<1> QED
  BY <1>6, <1>7, <1>8, <1>9, <1>10, <1>11, <1>12, <1>13, BegunSerial

-----------------------------------------------------------------------------

\* Everything is settled at the start.
LEMMA SerialInit == ASSUME MaxResults \in Nat, Init PROVE SerialInv
<1>1. \A a \in Auths : auths[a] = Fresh /\ Fresh # Absent
  <2>1. Fresh \in Creds
    BY DEF Fresh, Creds, Holds
  <2> QED
    BY <2>1, MarksAssumption DEF Init
<1>2. HoldsCounted
  BY <1>1 DEF HoldsCounted, Fresh
<1>3. \A a \in Auths : Settled(a)
  BY <1>1 DEF Settled, Hold, Init, NoRecords, Fresh
<1> QED
  BY <1>2, <1>3 DEF SerialInv, Init

\* Every section leaves what is owed to the sections after it.
LEMMA SectionSerial ==
  ASSUME TypeOK, SerialInv, ~overlapped, NEW t \in Threads, Section(t)
  PROVE  SerialInv'
<1>1. call[t] # Idle
  BY DEF Section, Upsert, Collect, Save, Suspend, Resume, Delete, Unschedule, Put, Register,
         Reconcile, Reread, RefreshDone, RefreshFail, Rebuild, At
<1>2. PICK c \in CallRecords : c = call[t]
  BY <1>1, CallAuth
<1>3. ASSUME Suspend(t) PROVE SerialInv'
  <2>1. /\ At(t, "suspend") /\ call' = Advance(t, c)
        /\ suspended' = [suspended EXCEPT ![c.auth] = ("suspend" = "suspend")]
        /\ UNCHANGED <<auths, sched, file, registered>>
    BY <1>2, <1>3 DEF Suspend
  <2> QED
    BY <1>2, <2>1, SuspendSerial
<1>4. ASSUME Resume(t) PROVE SerialInv'
  <2>1. /\ At(t, "resume") /\ call' = Advance(t, c)
        /\ suspended' = [suspended EXCEPT ![c.auth] = ("resume" = "suspend")]
        /\ UNCHANGED <<auths, sched, file, registered>>
    BY <1>2, <1>4 DEF Resume
  <2> QED
    BY <1>2, <2>1, SuspendSerial
<1> QED
  BY <1>2, <1>3, <1>4, UpsertSerial, CollectSerial, SaveSerial, DeleteSerial,
     UnscheduleSerial, PutSerial, RegisterSerial, ReconcileSerial, RereadSerial,
     RefreshDoneSerial, RefreshFailSerial, RebuildSerial DEF Section

\* No step leaves anything unsettled that its call does not owe.
LEMMA SerialStep ==
  ASSUME TypeOK, SerialInv, [Next]_vars PROVE SerialInv'
<1>1. CASE UNCHANGED vars
  <2>1. UNCHANGED <<auths, sched, file, registered, suspended, call, overlapped>>
    BY <1>1 DEF vars
  <2>2. \A a : Settled(a)' <=> Settled(a)
    BY <2>1 DEF Settled, Hold
  <2>3. HoldsCounted' <=> HoldsCounted
    BY <2>1 DEF HoldsCounted
  <2>4. \A c : Owing(c) => Owing(c)'
    BY <2>1, <2>2 DEF Owing, Repairs, Carries, Hold
  <2> QED
    BY <2>1, <2>2, <2>3, <2>4 DEF SerialInv, Quiet
<1>2. CASE overlapped'
  BY <1>2 DEF SerialInv
<1>3. ASSUME NEW t \in Threads, Section(t), ~overlapped' PROVE SerialInv'
  <2>1. overlapped' = overlapped
    BY <1>3 DEF Section, Upsert, Collect, Save, Suspend, Resume, Delete, Unschedule, Put,
       Register, Reconcile, Reread, RefreshDone, RefreshFail, Rebuild
  <2> QED
    BY <1>3, <2>1, SectionSerial
<1>4. ASSUME NEW t \in Threads, NEW a \in Auths, Begin(t, a), ~overlapped' PROVE SerialInv'
  BY <1>4, MarkResultSerial, ResetQuotaSerial, UnregisterSerial, ApplySerial,
     RefreshStartSerial DEF Begin
<1> QED
  BY <1>1, <1>2, <1>3, <1>4, ResyncSerial DEF Next

\* When no two calls have overlapped, the map, the scheduler and the registry
\* agree about every credential between calls, and a hold is on file
\* (conductor.go, MarkResult, Update, Remove, ResetQuota and the refreshes;
\* service.go, applyCoreAuthAddOrUpdate and applyCoreAuthRemoval).
THEOREM CallsInTurnAgree == Spec => []AgreeWithoutOverlap
<1>1. MaxResults \in Nat
  BY MaxResultsAssumption
<1>2. Init => SerialInv
  BY <1>1, SerialInit
<1>3. SerialInv => AgreeWithoutOverlap
  BY DEF SerialInv, AgreeWithoutOverlap, Settled
<1> QED
  BY <1>2, <1>3, SerialStep, TypeCorrect, PTL DEF Spec
=============================================================================
