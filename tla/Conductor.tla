----------------------------- MODULE Conductor -----------------------------
(***************************************************************************)
(* How the calls that change a credential interleave.  A credential lives  *)
(* in four places: the manager's map (under Manager.mu), the scheduler's   *)
(* snapshot (under authScheduler.mu), the cooldown files (under the        *)
(* store's mutex) and the model registry (under its own).  Every call      *)
(* takes these locks one after the other and carries copies from one to    *)
(* the next, so each locked section is a step of its own here.             *)
(*                                                                         *)
(* A credential serves one model; what the sections compute is module      *)
(* AuthState's subject and is abstracted to the hold it leaves behind.     *)
(***************************************************************************)
EXTENDS Naturals, Sequences

CONSTANTS
    Auths,       \* credential IDs
    Requests,    \* goroutines of requests, management calls and refreshes
    Updaters,    \* goroutines that apply the configuration's credentials
    MaxResults,  \* bound: results counted per credential
    Absent,      \* no such credential
    Idle         \* no call in progress

ASSUME MaxResultsAssumption == MaxResults \in Nat

Threads == Requests \cup Updaters

VARIABLES
    auths,       \* Manager.auths
    sched,       \* the snapshots in authScheduler.providers
    offered,     \* credentials whose snapshot names models to be picked for
    file,        \* the hold recorded in each credential's .cds file
    registered,  \* credentials the registry has models for
    suspended,   \* credentials suspended for the model in the registry
    call,        \* the call each goroutine is in, with the copies it carries
    results,     \* results marked since the credential was registered
    last,        \* the hold the last result, reset or registration left
    overlapped   \* whether two calls were ever in progress together

vars == <<auths, sched, offered, file, registered, suspended, call, results,
          last, overlapped>>

\* done stands for Success + Failed; a credential has a state for its model
\* once a result was marked for it.
Holds == {"none", "quota", "unauthorized"}
Creds == [hold : Holds, done : 0..MaxResults]
Fresh == [hold |-> "none", done |-> 0]
HasState(c) == c.done > 0

\* The locked sections a call may still have to pass.
Steps == {"upsert", "collect", "save", "suspend", "resume", "delete",
          "unschedule", "put", "register", "reconcile", "reread", "rebuild"}

\* A call: the credential it is about, the locked sections still to come, the
\* snapshot it carries, whether that is the object in the manager's map rather
\* than a copy, the records or the snapshots of all credentials it carries,
\* and whether it holds the credential's refresh lock.  A token refresh, which
\* decides only when the provider answers what follows, carries a credential.
CallRecords ==
    [auth : Auths, todo : Seq(Steps) \cup {<<"refresh">>},
     snap : Creds \cup {Absent}, live : BOOLEAN, refreshing : BOOLEAN,
     records : [Auths -> Holds], all : [Auths -> Creds \cup {Absent}]]

Calls ==
    {c \in CallRecords :
        c.todo # <<>> /\ (c.todo = <<"refresh">> => c.snap \in Creds)}

\* The marks are neither a credential nor a call.
ASSUME MarksAssumption == Absent \notin Creds /\ Idle \notin Calls

NoRecords == [a \in Auths |-> "none"]
NoSnapshots == [a \in Auths |-> Absent]

Init ==
    /\ auths = [a \in Auths |-> Fresh]
    /\ sched = auths
    /\ offered = [a \in Auths |-> TRUE]
    /\ file = NoRecords
    /\ registered = [a \in Auths |-> TRUE]
    /\ suspended = [a \in Auths |-> FALSE]
    /\ call = [t \in Threads |-> Idle]
    /\ results = [a \in Auths |-> 0]
    /\ last = [a \in Auths |-> "none"]
    /\ overlapped = FALSE

-----------------------------------------------------------------------------
(* Calls *)

Quiet == \A t \in Threads : call[t] = Idle

NewCall(a, snap, todo) ==
    [auth |-> a, todo |-> todo, snap |-> snap, live |-> FALSE,
     records |-> NoRecords, all |-> NoSnapshots, refreshing |-> FALSE]

Enter(t, c) == [call EXCEPT ![t] = c]
Overlap == overlapped' = (overlapped \/ ~Quiet)

\* The section t is about to enter.
At(t, step) == call[t] # Idle /\ Head(call[t].todo) = step

\* Faulty variant: a call is only over one section after its last.
ContinueLate(c) == IF c.todo = <<>> THEN Idle ELSE [c EXCEPT !.todo = Tail(@)]

\* What is left of call c after its next section.
Continue(c) == IF Len(c.todo) = 1 THEN Idle ELSE [c EXCEPT !.todo = Tail(@)]
Advance(t, c) == [call EXCEPT ![t] = Continue(c)]

\* The object of credential a is replaced: calls that hold it keep it as it
\* was.  The object is changed in place to c: they see the change.
Detach(calls, a) ==
    [u \in Threads |-> IF calls[u] # Idle /\ calls[u].auth = a
                       THEN [calls[u] EXCEPT !.live = FALSE] ELSE calls[u]]
Touch(calls, a, c) ==
    [u \in Threads |-> IF calls[u] # Idle /\ calls[u].auth = a /\ calls[u].live
                       THEN [calls[u] EXCEPT !.snap = c] ELSE calls[u]]

-----------------------------------------------------------------------------
(* Locked sections shared by several calls *)

\* Faulty variant: an upsert keeps the models the credential had.
UpsertKeepsModels(t) ==
    /\ At(t, "upsert")
    /\ sched' = [sched EXCEPT ![call[t].auth] = call[t].snap]
    /\ offered' = [offered EXCEPT ![call[t].auth] = TRUE]
    /\ call' = Advance(t, [call[t] EXCEPT !.snap = Absent, !.live = FALSE])
    /\ UNCHANGED <<auths, file, registered, suspended, results, last,
                   overlapped>>

\* authScheduler.upsertAuth with the snapshot the call carries.  The models
\* the credential can be picked for are read in the registry every time:
\* without a binding there are none.
Upsert(t) ==
    /\ At(t, "upsert")
    /\ sched' = [sched EXCEPT ![call[t].auth] = call[t].snap]
    /\ offered' = [offered EXCEPT ![call[t].auth] = registered[call[t].auth]]
    /\ call' = Advance(t, [call[t] EXCEPT !.snap = Absent, !.live = FALSE])
    /\ UNCHANGED <<auths, file, registered, suspended, results, last,
                   overlapped>>

\* cooldownStateSnapshot: the records of every credential, under RLock.
Hold(a) == IF auths[a] = Absent THEN "none" ELSE auths[a].hold
Collect(t) ==
    /\ At(t, "collect")
    /\ call' = Advance(t, [call[t] EXCEPT
                              !.records = [a \in Auths |-> Hold(a)]])
    /\ UNCHANGED <<auths, sched, offered, file, registered, suspended, results,
                   last, overlapped>>

\* FileCooldownStateStore.Save: every file is written, stale ones go.
Save(t) ==
    /\ At(t, "save")
    /\ file' = call[t].records
    /\ call' = Advance(t, [call[t] EXCEPT !.records = NoRecords])
    /\ UNCHANGED <<auths, sched, offered, registered, suspended, results, last,
                   overlapped>>

\* SuspendClientModel and ResumeClientModel: the model is served by other
\* clients too, so the registry knows it whether or not this client is bound.
Suspend(t) ==
    /\ At(t, "suspend")
    /\ suspended' = [suspended EXCEPT ![call[t].auth] = TRUE]
    /\ call' = Advance(t, call[t])
    /\ UNCHANGED <<auths, sched, offered, file, registered, results, last,
                   overlapped>>

Resume(t) ==
    /\ At(t, "resume")
    /\ suspended' = [suspended EXCEPT ![call[t].auth] = FALSE]
    /\ call' = Advance(t, call[t])
    /\ UNCHANGED <<auths, sched, offered, file, registered, results, last,
                   overlapped>>

Persist == <<"collect", "save">>

-----------------------------------------------------------------------------
(* Results of requests: MarkResult *)

\* Faulty variant: the snapshot of a failed request goes only to the files.
MarkedSilently(from, to) ==
    (IF to = "none" THEN <<"upsert">> ELSE <<>>)
    \o (IF from # "none" \/ to # "none" THEN Persist ELSE <<>>)
    \o <<IF to = "none" THEN "resume" ELSE "suspend">>

\* What follows once the lock is released: the scheduler, the cooldown files
\* when the credential's records changed, the registry.
Marked(from, to) ==
    <<"upsert">> \o (IF from # "none" \/ to # "none" THEN Persist ELSE <<>>)
    \o <<IF to = "none" THEN "resume" ELSE "suspend">>

\* A result for an unknown credential changes nothing.
MarkResult(t, a, hold) ==
    /\ call[t] = Idle /\ t \in Requests
    /\ auths[a] # Absent /\ auths[a].done < MaxResults
    /\ LET new == [hold |-> hold, done |-> auths[a].done + 1]
           c == NewCall(a, new, Marked(auths[a].hold, hold))
       IN  /\ auths' = [auths EXCEPT ![a] = new]
           /\ call' = Touch(Enter(t, c), a, new)
    /\ results' = [results EXCEPT ![a] = @ + 1]
    /\ last' = [last EXCEPT ![a] = hold]
    /\ Overlap /\ UNCHANGED <<sched, offered, file, registered, suspended>>

\* ResetQuota, from the management API.
ResetQuota(t, a) ==
    /\ call[t] = Idle /\ t \in Requests /\ auths[a] # Absent
    /\ LET new == [auths[a] EXCEPT !.hold = "none"]
           c == NewCall(a, new, <<"resume", "upsert">> \o
                    (IF auths[a].hold = "none" THEN <<>> ELSE Persist))
       IN  /\ auths' = [auths EXCEPT ![a] = new]
           /\ call' = Touch(Enter(t, c), a, new)
    /\ last' = [last EXCEPT ![a] = "none"]
    /\ Overlap /\ UNCHANGED <<sched, offered, file, registered, suspended,
                              results>>

-----------------------------------------------------------------------------
(* Configuration changes: applyCoreAuthRemoval, applyCoreAuthAddOrUpdate *)

\* Faulty variant: only the suspensions go.
UnregisterPartly(t, a) ==
    /\ call[t] = Idle /\ t \in Updaters
    /\ suspended' = [suspended EXCEPT ![a] = FALSE]
    /\ call' = Enter(t, NewCall(a, Absent, <<"delete">>))
    /\ Overlap /\ UNCHANGED <<auths, sched, offered, file, registered, results,
                              last>>

\* UnregisterClient drops the bindings of the client and, only if it has
\* any, its suspensions.
Unregister(t, a) ==
    /\ call[t] = Idle /\ t \in Updaters
    /\ registered' = [registered EXCEPT ![a] = FALSE]
    /\ suspended' = [suspended EXCEPT ![a] = @ /\ ~registered[a]]
    /\ call' = Enter(t, NewCall(a, Absent, <<"delete">>))
    /\ Overlap /\ UNCHANGED <<auths, sched, offered, file, results, last>>

AfterDelete == <<"unschedule">> \o Persist

\* Remove: nothing more happens when the credential is already gone.
Delete(t) ==
    /\ At(t, "delete")
    /\ LET a == call[t].auth IN
       IF auths[a] = Absent
       THEN call' = Advance(t, call[t]) /\ UNCHANGED auths
       ELSE /\ auths' = [auths EXCEPT ![a] = Absent]
            /\ call' = Detach([call EXCEPT ![t].todo = AfterDelete], a)
    /\ UNCHANGED <<sched, offered, file, registered, suspended, results, last,
                   overlapped>>

Unschedule(t) ==
    /\ At(t, "unschedule")
    /\ sched' = [sched EXCEPT ![call[t].auth] = Absent]
    /\ offered' = [offered EXCEPT ![call[t].auth] = FALSE]
    /\ call' = Advance(t, call[t])
    /\ UNCHANGED <<auths, file, registered, suspended, results, last,
                   overlapped>>

\* What follows a new version of a credential: completeModelRegistrationForAuth.
ModelRegistration == <<"register", "reconcile", "reread">>

\* prepareCoreAuthForModelRegistration first reads the credential the new
\* version replaces.
Apply(t, a) ==
    /\ call[t] = Idle /\ t \in Updaters
    /\ call' = Enter(t, NewCall(a, auths[a],
                               <<"put", "upsert">> \o ModelRegistration))
    /\ Overlap /\ UNCHANGED <<auths, sched, offered, file, registered,
                              suspended, results, last>>

\* Faulty variant: the counters come from the copy too.
MergeCopy(copy, current) ==
    [hold |-> IF HasState(copy) THEN copy.hold ELSE current.hold,
     done |-> copy.done]

\* What Update keeps of the credential it replaces: its counters, and its
\* model states unless the new version brings some.
Merge(copy, current) ==
    [hold |-> IF HasState(copy) THEN copy.hold ELSE current.hold,
     done |-> current.done]

\* Register when none was read, else Update, which does nothing when the
\* credential is gone by now.  The object put in the map is the one passed
\* to the scheduler.
Put(t) ==
    /\ At(t, "put")
    /\ LET a == call[t].auth
           read == call[t].snap
           new == IF read = Absent THEN Fresh ELSE Merge(read, auths[a])
       IN  IF read # Absent /\ auths[a] = Absent
           THEN /\ call' = [call EXCEPT ![t] = [@ EXCEPT
                                !.snap = Absent, !.todo = ModelRegistration]]
                /\ UNCHANGED <<auths, results, last>>
           ELSE /\ auths' = [auths EXCEPT ![a] = new]
                /\ call' = [Detach(call, a) EXCEPT ![t] =
                       Continue([call[t] EXCEPT !.snap = new, !.live = TRUE])]
                /\ results' = [results EXCEPT ![a] =
                                  IF read = Absent THEN 0 ELSE @]
                /\ last' = [last EXCEPT ![a] =
                               IF read = Absent THEN "none" ELSE @]
    /\ UNCHANGED <<sched, offered, file, registered, suspended, overlapped>>

\* RegisterClient starts a fresh snapshot of a binding it already had; the
\* path for a new client leaves the suspensions alone.
Register(t) ==
    /\ At(t, "register")
    /\ LET a == call[t].auth IN
       /\ registered' = [registered EXCEPT ![a] = TRUE]
       /\ suspended' = [suspended EXCEPT ![a] = @ /\ ~registered[a]]
    /\ call' = Advance(t, call[t])
    /\ UNCHANGED <<auths, sched, offered, file, results, last, overlapped>>

\* ReconcileRegistryModelStates and the upsert of what it changed.
Reconcile(t) ==
    /\ At(t, "reconcile")
    /\ LET a == call[t].auth IN
       IF auths[a] = Absent \/ auths[a].hold = "none"
       THEN call' = Advance(t, call[t]) /\ UNCHANGED <<auths, last>>
       ELSE LET new == [auths[a] EXCEPT !.hold = "none"]
                c == [call[t] EXCEPT !.snap = new,
                                     !.todo = <<"upsert", "reread">>]
            IN  /\ auths' = [auths EXCEPT ![a] = new]
                /\ call' = Touch([call EXCEPT ![t] = c], a, new)
                /\ last' = [last EXCEPT ![a] = "none"]
    /\ UNCHANGED <<sched, offered, file, registered, suspended, results,
                   overlapped>>

\* RefreshSchedulerEntry reads the credential for a last upsert.
Reread(t) ==
    /\ At(t, "reread")
    /\ LET a == call[t].auth IN
       call' = [call EXCEPT ![t] =
                  IF auths[a] = Absent THEN Idle
                  ELSE [@ EXCEPT !.snap = auths[a], !.todo = <<"upsert">>]]
    /\ UNCHANGED <<auths, sched, offered, file, registered, suspended, results,
                   last, overlapped>>

-----------------------------------------------------------------------------
(* Token refreshes: refreshAuthForRequest *)

\* The credential is copied under its refresh lock, which the call holds to
\* its end; the executor then talks to the provider.
Refreshing(a) ==
    \E t \in Threads : call[t] # Idle /\ call[t].auth = a /\ call[t].refreshing

RefreshStart(t, a) ==
    /\ call[t] = Idle /\ t \in Requests
    /\ auths[a] # Absent /\ ~Refreshing(a)
    /\ call' = Enter(t, [NewCall(a, auths[a], <<"refresh">>)
                           EXCEPT !.refreshing = TRUE])
    /\ Overlap /\ UNCHANGED <<auths, sched, offered, file, registered,
                              suspended, results, last>>

\* The hold of a 401 is dropped from the copy, and the copy put in the map.
RefreshDone(t) ==
    /\ At(t, "refresh")
    /\ LET a == call[t].auth
           resumes == call[t].snap.hold = "unauthorized"
           copy == IF resumes THEN [call[t].snap EXCEPT !.hold = "none"]
                   ELSE call[t].snap
           resume == IF resumes THEN <<"resume">> ELSE <<>>
           new == Merge(copy, auths[a])
       IN  IF auths[a] = Absent
           THEN /\ call' = [call EXCEPT ![t] = IF resumes
                               THEN [@ EXCEPT !.todo = resume] ELSE Idle]
                /\ UNCHANGED <<auths, last>>
           ELSE /\ auths' = [auths EXCEPT ![a] = new]
                /\ call' = [Detach(call, a) EXCEPT ![t] =
                       [call[t] EXCEPT !.snap = new, !.live = TRUE,
                                       !.todo = <<"upsert">> \o resume]]
                /\ last' = [last EXCEPT ![a] =
                               IF @ = "unauthorized" THEN "none" ELSE @]
    /\ UNCHANGED <<sched, offered, file, registered, suspended, results,
                   overlapped>>

\* A refresh that failed marks the current credential and upserts it without
\* leaving the manager's lock.
RefreshFail(t) ==
    /\ At(t, "refresh")
    /\ LET a == call[t].auth IN
       IF auths[a] = Absent THEN UNCHANGED <<sched, offered>>
       ELSE /\ sched' = [sched EXCEPT ![a] = auths[a]]
            /\ offered' = [offered EXCEPT ![a] = registered[a]]
    /\ call' = [call EXCEPT ![t] = Idle]
    /\ UNCHANGED <<auths, file, registered, suspended, results, last,
                   overlapped>>

-----------------------------------------------------------------------------
(* Rebuilding the scheduler: syncScheduler, when a pick found nothing *)

Resync(t) ==
    /\ call[t] = Idle /\ t \in Requests /\ Auths # {}
    /\ call' = Enter(t, [NewCall(CHOOSE a \in Auths : TRUE, Absent,
                                 <<"rebuild">>) EXCEPT !.all = auths])
    /\ Overlap /\ UNCHANGED <<auths, sched, offered, file, registered,
                              suspended, results, last>>

Rebuild(t) ==
    /\ At(t, "rebuild")
    /\ sched' = call[t].all
    /\ offered' = [a \in Auths |-> sched'[a] # Absent /\ registered[a]]
    /\ call' = Advance(t, call[t])
    /\ UNCHANGED <<auths, file, registered, suspended, results, last,
                   overlapped>>

-----------------------------------------------------------------------------

Begin(t, a) ==
    \/ \E hold \in Holds : MarkResult(t, a, hold)
    \/ ResetQuota(t, a)
    \/ Unregister(t, a)
    \/ Apply(t, a)
    \/ RefreshStart(t, a)

Section(t) ==
    \/ Upsert(t) \/ Collect(t) \/ Save(t) \/ Suspend(t) \/ Resume(t)
    \/ Delete(t) \/ Unschedule(t)
    \/ Put(t) \/ Register(t) \/ Reconcile(t) \/ Reread(t)
    \/ RefreshDone(t) \/ RefreshFail(t)
    \/ Rebuild(t)

Next ==
    \E t \in Threads :
        Resync(t) \/ Section(t) \/ \E a \in Auths : Begin(t, a)

Spec == Init /\ [][Next]_vars

-----------------------------------------------------------------------------
(* Properties *)

TypeOK ==
    /\ auths \in [Auths -> Creds \cup {Absent}]
    /\ sched \in [Auths -> Creds \cup {Absent}]
    /\ offered \in [Auths -> BOOLEAN]
    /\ file \in [Auths -> Holds]
    /\ registered \in [Auths -> BOOLEAN]
    /\ suspended \in [Auths -> BOOLEAN]
    /\ call \in [Threads -> Calls \cup {Idle}]
    /\ results \in [Auths -> 0..MaxResults]
    /\ last \in [Auths -> Holds]

\* However copies of a credential travel, the counters in the manager's map
\* count every result marked since the credential was registered: Update
\* takes them from the credential it replaces, never from the copy.
CountsKept == \A a \in Auths : auths[a] # Absent => auths[a].done = results[a]

\* Between two configuration changes the registry has models for exactly the
\* credentials of the map, whatever results, resets and refreshes do.
RegistryFollowsMap ==
    (\A u \in Updaters : call[u] = Idle) =>
        \A a \in Auths : registered[a] <=> auths[a] # Absent

\* As long as no two calls ever overlapped, the four places agree between
\* calls: the scheduler has every credential as the map has it, the registry
\* has models for exactly those and suspends those that are held, and no hold
\* is missing from the cooldown files.  (A hold that a refresh or a reconcile
\* dropped does stay on file until the next save.)
AgreeWithoutOverlap ==
    Quiet /\ ~overlapped =>
        \A a \in Auths :
            /\ sched[a] = auths[a]
            /\ registered[a] <=> auths[a] # Absent
            /\ suspended[a] <=> Hold(a) # "none"
            /\ Hold(a) # "none" => file[a] = Hold(a)

\* A request, a refresh or a rebuild that read a credential before its removal
\* may still upsert it afterwards.  Between two configuration changes it is
\* picked for no model all the same: its models left the registry first, and
\* every upsert reads them there.
RemovedIsNotOffered ==
    (\A u \in Updaters : call[u] = Idle) =>
        \A a \in Auths : auths[a] = Absent => ~offered[a]

(* What does not hold, and no run repeats.                                   *)

\* Such an upsert does leave a snapshot of the removed credential, without
\* models, in the scheduler until the next rebuild or removal.
RemovedStaysOut ==
    Quiet => \A a \in Auths : auths[a] = Absent => sched[a] = Absent

\* An update keeps the model states the credential has: a hold is what the
\* last result, reset or registration left, whatever copies were in flight.
\* It does not hold: an update takes the states from the copy it was given
\* when that copy has any.
HoldsSurviveUpdate ==
    Quiet => \A a \in Auths : auths[a] # Absent => auths[a].hold = last[a]
=============================================================================
