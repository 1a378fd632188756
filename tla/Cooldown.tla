------------------------------ MODULE Cooldown ------------------------------
(***************************************************************************)
(* The life of one credential's cooldowns across results, configuration    *)
(* reloads, credential refreshes, watcher updates and restarts.  Every     *)
(* action is what one caller does to the credential under Manager.mu,      *)
(* together with the write of the cooldown file that follows it; what      *)
(* happens when those two and the scheduler's copy are interleaved is      *)
(* module Conductor's subject.                                             *)
(***************************************************************************)
EXTENDS AuthState

CONSTANTS
    Results,    \* pairs of what a result names, a model or NoModel for the
                \* credential, and its outcome, "success" or a failure
    MaxTime     \* bound on the clock

ASSUME ResultsAssumption ==
    Results \subseteq (Models \cup {NoModel}) \X (Failures \cup {"success"})
ASSUME MaxTimeAssumption == MaxTime \in Nat \ {0}

VARIABLES
    now,        \* wall clock
    auth,       \* Manager.auths[id]
    cooling,    \* cooldown scheduling is enabled for the credential
    file,       \* the records in the credential's .cds file
    startup,    \* what the service still has to do with the credential
    direct      \* its own fields were last set without looking at its models

vars == <<now, auth, cooling, file, startup, direct>>

\* "add": the process has restarted and the watcher's first snapshot is still
\* to be applied; "adding": it put the credential into the manager, and its
\* models are being registered; "modifying": the same for a later change of
\* the configuration.
Startups == {"add", "adding", "done", "modifying"}

\* The service runs, the credential has served no request.
Init ==
    /\ now = 1
    /\ auth = FreshAuth
    /\ cooling \in BOOLEAN
    /\ file = {}
    /\ startup = "done"
    /\ direct = FALSE

-----------------------------------------------------------------------------
Recorded(a) == CooldownRecords(a, now, cooling)

\* Faulty variant: the records are counted, not compared.
ChangesCount(m, outcome, a, b) ==
    Cardinality(Recorded(a)) # Cardinality(Recorded(b))

\* MarkResult saves when the credential's records changed.  The records carry
\* the time of their last change too: a result renews it for its model and for
\* the credential, unless the error concerns the request alone.
Changes(m, outcome, a, b) ==
    \/ Recorded(a) # Recorded(b)
    \/ /\ outcome # "request_scoped"
       /\ \E r \in Recorded(b) : r.model \in {m, NoModel}

\* MarkResult, for a model or for the credential as a whole.
Result(m, outcome) ==
    /\ auth' = IF outcome = "success" THEN SucceedOn(auth, m, now)
               ELSE FailOn(auth, m, outcome, now, cooling)
    /\ file' = IF Changes(m, outcome, auth, auth')
               THEN Recorded(auth') ELSE file
    /\ direct' = IF outcome = "request_scoped" THEN direct ELSE m = NoModel
    /\ UNCHANGED <<now, cooling, startup>>

\* ResetQuota, from the management API.
ResetQuota ==
    /\ auth' = ResetAll(auth, now)
    /\ file' = IF Recorded(auth) # Recorded(auth')
               THEN Recorded(auth') ELSE file
    /\ UNCHANGED <<now, cooling, startup, direct>>

\* SetConfig clears the cooldowns of a credential that may no longer have any,
\* and saves when it cleared one.
LosesCooldown(a, c) == ~c \/ a.disabled
Configured(a, c) == IF LosesCooldown(a, c) THEN ClearCooldown(a, now) ELSE a
FileConfigured(c) ==
    IF LosesCooldown(auth, c) /\ ClearsCooldown(auth)
    THEN CooldownRecords(Configured(auth, c), now, c) ELSE file

\* applyConfigUpdate: after SetConfig the file is read back, and written again
\* when it held a record.
Reload(c) ==
    LET f == FileConfigured(c)
    IN  /\ cooling' = c
        /\ auth' = Restore(Configured(auth, c), f, now, c)
        /\ file' = IF f = {} THEN f ELSE CooldownRecords(auth', now, c)
        /\ direct' = (direct \/ \E r \in f : r.model = NoModel)
        /\ UNCHANGED <<now, startup>>

\* prepareCoreAuthForModelRegistration: a synthesized credential replaces the
\* one in the manager, which saves when that cleared a cooldown.
WatcherUpdate(disabled) ==
    LET new == [FreshAuth EXCEPT !.disabled = disabled]
        carries == ~auth.disabled /\ ~disabled
        clears == (~cooling \/ disabled) /\ carries /\ ClearsCooldown(
                      [new EXCEPT !.models = auth.models])
    IN  /\ startup \in {"add", "done"}
        /\ auth' = Updated(new, auth, now, cooling)
        /\ file' = IF clears THEN CooldownRecords(auth', now, cooling)
                   ELSE file
        /\ startup' = IF startup = "add" THEN "adding" ELSE "modifying"
        /\ UNCHANGED <<now, cooling, direct>>

\* completeModelRegistrationForAuth, once the models are registered.
RegisterModels(supported) ==
    /\ startup \in {"adding", "modifying"}
    /\ startup' = "done"
    /\ auth' = Reconcile(auth, supported, now)
    /\ UNCHANGED <<now, cooling, file, direct>>

\* refreshAuthForRequest with nothing else happening meanwhile.
RefreshOk ==
    LET new == Refreshed(auth, now)
    IN  /\ auth' = Updated(new, auth, now, cooling)
        /\ file' = IF (~cooling \/ auth.disabled) /\ ClearsCooldown(new)
                   THEN CooldownRecords(auth', now, cooling) ELSE file
        /\ UNCHANGED <<now, cooling, startup, direct>>

RefreshFails(refused) ==
    /\ auth' = RefreshFailed(auth, refused)
    /\ UNCHANGED <<now, cooling, file, startup, direct>>

Tick ==
    /\ now < MaxTime
    /\ now' = now + 1
    /\ UNCHANGED <<auth, cooling, file, startup, direct>>

\* The process stops at any point and Service.Run starts again: the configured
\* credential is registered afresh, then the file is restored.
Restart ==
    LET a == Restore([FreshAuth EXCEPT !.disabled = auth.disabled],
                     file, now, cooling)
    IN  /\ auth' = a
        /\ file' = IF file = {} THEN file ELSE CooldownRecords(a, now, cooling)
        /\ startup' = "add"
        /\ direct' = \E r \in file : r.model = NoModel
        /\ UNCHANGED <<now, cooling>>

Next ==
    \/ \E r \in Results : Result(r[1], r[2])
    \/ ResetQuota
    \/ \E c \in BOOLEAN : Reload(c)
    \/ \E disabled \in BOOLEAN : WatcherUpdate(disabled)
    \/ \E supported \in SUBSET Models : RegisterModels(supported)
    \/ RefreshOk
    \/ \E refused \in BOOLEAN : RefreshFails(refused)
    \/ Tick
    \/ Restart

Spec == Init /\ [][Next]_vars

-----------------------------------------------------------------------------
(* Properties *)

\* The record keeps its shape whatever is done to it.
TypeOK ==
    /\ now \in 1..MaxTime
    /\ auth \in [disabled : BOOLEAN, unavail : BOOLEAN, next : Nat,
                 quota : Quotas, models : {auth.models}]
    /\ DOMAIN auth.models \subseteq Models
    /\ \A m \in DOMAIN auth.models : auth.models[m] \in ModelStates
    /\ cooling \in BOOLEAN
    /\ \A r \in file : r \in Records
    /\ startup \in Startups
    /\ direct \in BOOLEAN

\* conductor.go:3348-3417: a credential that is held as a whole on account of
\* its models has no model that may be used, now or before its own deadline.
AggregateSound ==
    ~direct /\ AuthIsHeld(auth, now) /\ auth.models # NoModels =>
        \A m \in DOMAIN auth.models :
            /\ Held(auth.models[m], now)
            /\ auth.models[m].next >= auth.next

\* conductor.go:764-904: a model that is held would be held until the same
\* time if the process were restarted now.  A model held as unsupported is
\* exempt: it is held even while cooling is disabled, and then not recorded.
HoldsAreOnFile ==
    LET reborn == Restore(FreshAuth, file, now, cooling)
    IN  cooling /\ ~auth.disabled =>
            \A m \in Models :
                IsHeld(auth, m, now) /\ auth.models[m].err # "unsupported" =>
                    HeldUntil(reborn, m, now) = HeldUntil(auth, m, now)

\* conductor.go:764-904: so it is for the credential as a whole, whether its
\* own failure or the aggregate of its models holds it, although what is on
\* file of the models would give another aggregate.
OwnHoldIsOnFile ==
    LET reborn == Restore(FreshAuth, file, now, cooling)
        recorded == cooling /\ ~auth.disabled /\ \A m \in DOMAIN auth.models :
                        auth.models[m].err # "unsupported"
    IN  recorded /\ AuthIsHeld(auth, now) =>
            AuthIsHeld(reborn, now) /\ reborn.next = auth.next

\* conductor.go:4039-4054: however many quota failures are in flight, the
\* windows of the ladder do not overlap.  A level L is reached only after its
\* windows were opened one after the other, so the last of them closes no
\* earlier than the sum of all L after the clock's start.
LadderTakesTime ==
    \A m \in Models :
        LET q == GetModel(auth.models, m).quota
        IN  q.level > 0 => q.recover >= 1 + QuotaBase * (2^q.level - 1)

\* conductor.go:518 says that unexpired cooldown records are restored into the
\* registered credentials: the start-up that follows does not drop the holds
\* of the models the credential still has.  It does not hold (no run of the
\* project repeats it): registering the models afterwards clears them.
StartsUp == startup \in {"add", "adding"} /\ startup' # startup
StartupKeepsHolds ==
    [][StartsUp /\ ~auth'.disabled =>
          (\A m \in DOMAIN auth'.models :
              IsHeld(auth, m, now) => IsHeld(auth', m, now))]_vars
=============================================================================
