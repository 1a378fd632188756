------------------------------ MODULE AuthState ------------------------------
(***************************************************************************)
(* The availability record of one credential, as sdk/cliproxy/auth keeps   *)
(* it in Auth and ModelState, and the functions that transform it: what a  *)
(* request's outcome does to it, how the models' states are aggregated     *)
(* into the credential's, what a selector reads in it, and which part of   *)
(* it is written to and restored from the cooldown files.                  *)
(*                                                                         *)
(* Times are naturals; 0 is Go's zero time.  The fields that only feed the *)
(* management pages (status, status message, counters, timestamps of the   *)
(* last change) are left out: nothing below reads them.                    *)
(***************************************************************************)
EXTENDS Naturals, FiniteSets

CONSTANTS
    Models,         \* model names
    NoModel,        \* the empty model name: the credential as a whole
    QuotaBase,      \* quotaBackoffBase
    QuotaMax,       \* quotaBackoffMax
    CloudflareMin,  \* least cooldown after a Cloudflare challenge
    RetryAfter,     \* the Retry-After an upstream announces
    Transient,      \* cooldown of a 408/500/502/503/504, 0 when disabled
    HalfHour,       \* cooldown of a 401/402/403
    HalfDay         \* cooldown of a 404 or of an unsupported model

ASSUME DurationsAssumption ==
    /\ {QuotaBase, QuotaMax, CloudflareMin, RetryAfter, HalfHour, HalfDay}
          \subseteq Nat \ {0}
    /\ Transient \in Nat
ASSUME NoModelAssumption == NoModel \notin Models
ASSUME ModelsAssumption == IsFiniteSet(Models)

\* The errors MarkResult tells apart: by message first, then by status code.
QuotaFailures == {"cloudflare", "quota", "quota_retry_after"}
Failures == QuotaFailures \cup
    {"unsupported", "unauthorized", "forbidden", "not_found", "transient",
     "other", "request_scoped"}

\* What the last error kept in a model's state says.
Errors == {"none", "unauthorized", "unsupported", "other"}
ErrorOf(failure) ==
    IF failure \in {"unauthorized", "unsupported"} THEN failure ELSE "other"

Quotas == [exceeded : BOOLEAN, recover : Nat, level : Nat]
NoQuota == [exceeded |-> FALSE, recover |-> 0, level |-> 0]

ModelStates == [unavail : BOOLEAN, next : Nat, quota : Quotas, err : Errors]
CleanState ==
    [unavail |-> FALSE, next |-> 0, quota |-> NoQuota, err |-> "none"]

\* The models a credential has no state for are outside the function's domain.
ModelMaps == UNION {[S -> ModelStates] : S \in SUBSET Models}
NoModels == [m \in {} |-> CleanState]

Auths == [disabled : BOOLEAN, unavail : BOOLEAN, next : Nat, quota : Quotas,
          models : ModelMaps]

\* A credential as the configuration synthesizer makes it.
FreshAuth == [disabled |-> FALSE, unavail |-> FALSE, next |-> 0,
              quota |-> NoQuota, models |-> NoModels]

\* ensureModelState followed by a store into it.
PutModel(models, m, s) ==
    [n \in DOMAIN models \cup {m} |-> IF n = m THEN s ELSE models[n]]
GetModel(models, m) == IF m \in DOMAIN models THEN models[m] ELSE CleanState

-----------------------------------------------------------------------------
(* The quota ladder *)

\* nextQuotaCooldown: the cooldown doubles with the level up to QuotaMax,
\* where the level stops growing.
LadderCooldown(level) ==
    IF QuotaBase * 2^level >= QuotaMax THEN QuotaMax ELSE QuotaBase * 2^level
LadderNext(level) ==
    IF QuotaBase * 2^level >= QuotaMax THEN level ELSE level + 1

\* Faulty variant: a failure inside an open window climbs the ladder too.
QuotaAfterFailureAlways(q, now) ==
    [recover |-> now + LadderCooldown(q.level), level |-> LadderNext(q.level)]

\* quotaCooldownAfterFailure: a window that is still open is reused.
QuotaAfterFailure(q, now) ==
    IF q.recover > now
    THEN [recover |-> q.recover, level |-> q.level]
    ELSE [recover |-> now + LadderCooldown(q.level),
          level |-> LadderNext(q.level)]

\* nextCloudflareCooldown.
QuotaAfterCloudflare(q, now) ==
    LET c == LadderCooldown(q.level)
    IN  [recover |-> now + (IF c < CloudflareMin THEN CloudflareMin ELSE c),
         level |-> LadderNext(q.level)]

\* The quota state a 429 or a Cloudflare challenge leaves.
FailedQuota(q, failure, now, cooling) ==
    LET w == CASE ~cooling -> [recover |-> 0, level |-> q.level]
               [] cooling /\ failure = "cloudflare" ->
                      QuotaAfterCloudflare(q, now)
               [] cooling /\ failure = "quota_retry_after" ->
                      [recover |-> now + RetryAfter, level |-> q.level]
               [] OTHER -> QuotaAfterFailure(q, now)
    IN  [exceeded |-> TRUE, recover |-> w.recover, level |-> w.level]

-----------------------------------------------------------------------------
(* Outcomes of requests *)

\* When a model that failed may be tried again; 0 blocks nothing.  An
\* unsupported model is held whether or not cooling is disabled.
HoldUntil(q, failure, now, cooling) ==
    CASE failure = "unsupported" -> now + HalfDay
      [] failure \in QuotaFailures -> q.recover
      [] failure \in {"unauthorized", "forbidden"} /\ cooling -> now + HalfHour
      [] failure = "not_found" /\ cooling -> now + HalfDay
      [] failure = "transient" /\ cooling /\ Transient > 0 -> now + Transient
      [] OTHER -> 0

FailModel(s, failure, now, cooling) ==
    LET q == IF failure \in QuotaFailures
             THEN FailedQuota(s.quota, failure, now, cooling) ELSE s.quota
    IN  [unavail |-> TRUE, next |-> HoldUntil(q, failure, now, cooling),
         quota |-> q, err |-> ErrorOf(failure)]

\* applyAuthFailureState: a failure that names no model.  It keeps the old
\* deadline when the error is none of those it knows.
FailAuth(a, failure, now, cooling) ==
    LET q == IF failure \in QuotaFailures
             THEN FailedQuota(a.quota, failure, now, cooling) ELSE a.quota
    IN  IF failure = "request_scoped" THEN a
        ELSE [a EXCEPT !.unavail = TRUE, !.quota = q,
                       !.next = IF failure \in {"unsupported", "other"} THEN @
                                ELSE HoldUntil(q, failure, now, cooling)]

\* A model is held back while its deadline is ahead.
Held(s, now) == s.unavail /\ s.next > now

\* updateAggregatedAvailability: expired holds are dropped from the models,
\* and the credential is unavailable when every model it has a state for is.
Least(S) == CHOOSE x \in S : \A y \in S : x <= y
Greatest(S) == CHOOSE x \in S : \A y \in S : x >= y

ExpireHold(s, now) ==
    IF s.unavail /\ s.next # 0 /\ s.next <= now
    THEN [s EXCEPT !.unavail = FALSE, !.next = 0] ELSE s

AggregateQuota(models) ==
    LET exceeded == {models[m].quota : m \in {n \in DOMAIN models :
                                                 models[n].quota.exceeded}}
        recovers == {q.recover : q \in exceeded} \ {0}
    IN  IF exceeded = {} THEN NoQuota
        ELSE [exceeded |-> TRUE,
              recover |-> IF recovers = {} THEN 0 ELSE Least(recovers),
              level |-> Greatest({q.level : q \in exceeded})]

\* Faulty variant: one model that is held is enough.
AggregateAny(a, now) ==
    LET held == {m \in DOMAIN a.models : Held(a.models[m], now)}
    IN  [a EXCEPT
          !.unavail = held # {},
          !.next = IF held # {} THEN Least({a.models[m].next : m \in held})
                   ELSE 0,
          !.quota = AggregateQuota(a.models),
          !.models = [m \in DOMAIN a.models |-> ExpireHold(a.models[m], now)]]

Aggregate(a, now) ==
    LET all == /\ a.models # NoModels
               /\ \A m \in DOMAIN a.models : Held(a.models[m], now)
    IN  [a EXCEPT
          !.unavail = all,
          !.next = IF all
                   THEN Least({a.models[m].next : m \in DOMAIN a.models})
                   ELSE 0,
          !.quota = AggregateQuota(a.models),
          !.models = [m \in DOMAIN a.models |-> ExpireHold(a.models[m], now)]]

\* The part of MarkResult that runs under the manager's lock.
SucceedOn(a, m, now) ==
    IF m = NoModel
    THEN [a EXCEPT !.unavail = FALSE, !.next = 0, !.quota = NoQuota]
    ELSE Aggregate([a EXCEPT !.models = PutModel(@, m, CleanState)], now)

FailOn(a, m, failure, now, cooling) ==
    IF m = NoModel THEN FailAuth(a, failure, now, cooling)
    ELSE IF failure = "request_scoped" THEN a
    ELSE Aggregate([a EXCEPT !.models =
             PutModel(@, m, FailModel(GetModel(@, m), failure, now, cooling))],
             now)

-----------------------------------------------------------------------------
(* What selection reads: isAuthBlockedForModel *)

IsHeld(a, m, now) == m \in DOMAIN a.models /\ Held(a.models[m], now)

\* Until when a model is held; 0 when it is not.  A quota window that is
\* still open is announced instead of the retry deadline.
HeldUntil(a, m, now) ==
    IF ~IsHeld(a, m, now) THEN 0
    ELSE IF a.models[m].quota.recover > now THEN a.models[m].quota.recover
    ELSE a.models[m].next

\* A request that names no model looks at the credential's own fields.
AuthIsHeld(a, now) == a.unavail /\ a.next > now

-----------------------------------------------------------------------------
(* Operators and reloads that rewrite the record *)

HasCooldown(s) ==
    s.unavail \/ s.next # 0 \/ s.quota.exceeded \/ s.quota.recover # 0

\* clearCooldownStateForAuth: the errors stay, the holds go.
ClearState(s) ==
    IF HasCooldown(s)
    THEN [s EXCEPT !.unavail = FALSE, !.next = 0, !.quota = NoQuota] ELSE s
Reaggregate(a, now) == IF a.models = NoModels THEN a ELSE Aggregate(a, now)
ClearCooldown(a, now) ==
    Reaggregate([ClearState(a) EXCEPT
                   !.models = [m \in DOMAIN @ |-> ClearState(@[m])]], now)
ClearsCooldown(a) ==
    HasCooldown(a) \/ \E m \in DOMAIN a.models : HasCooldown(a.models[m])

\* The part of ResetQuota that runs under the lock.
ResetAll(a, now) ==
    ClearCooldown([a EXCEPT !.models = [m \in DOMAIN @ |-> CleanState]], now)

\* ReconcileRegistryModelStates: models the registry lost are dropped, the
\* others start clean.
Reconcile(a, supported, now) ==
    LET kept == DOMAIN a.models \cap supported
        changed == kept # DOMAIN a.models
                   \/ \E m \in kept : a.models[m] # CleanState
    IN  IF ~changed THEN a
        ELSE Aggregate([a EXCEPT !.models = [m \in kept |-> CleanState]], now)

\* What refreshAuthForRequest does to the copy it refreshed: the holds that
\* a 401 caused are dropped.
Refreshed(a, now) ==
    LET stale == {m \in DOMAIN a.models : a.models[m].err = "unauthorized"}
        b == [a EXCEPT !.unavail = FALSE,
                       !.models = [m \in DOMAIN @ |->
                                     IF m \in stale THEN CleanState ELSE @[m]]]
    IN  IF stale = {} THEN b ELSE Aggregate(b, now)

\* What a refresh that failed does to the record the manager holds; only a
\* refused refresh marks it, and sets no deadline.
RefreshFailed(a, refused) == IF refused THEN [a EXCEPT !.unavail = TRUE] ELSE a

\* The part of Update that runs under the lock.  Model states survive only
\* between two enabled versions, and only when the new one brings none.
Updated(new, existing, now, cooling) ==
    LET carried == IF ~existing.disabled /\ ~new.disabled
                      /\ new.models = NoModels
                   THEN [new EXCEPT !.models = existing.models] ELSE new
    IN  IF cooling /\ ~new.disabled THEN carried
        ELSE ClearCooldown(carried, now)

-----------------------------------------------------------------------------
(* The cooldown file *)

Records == [model : Models \cup {NoModel}, next : Nat, quota : Quotas,
            err : Errors]

ModelRecords(a, now) ==
    {[model |-> m, next |-> a.models[m].next, quota |-> a.models[m].quota,
      err |-> a.models[m].err] :
         m \in {n \in DOMAIN a.models : Held(a.models[n], now)}}

OwnRecord(a, now) ==
    IF AuthIsHeld(a, now)
    THEN {[model |-> NoModel, next |-> a.next, quota |-> a.quota,
           err |-> "other"]}
    ELSE {}

\* Faulty variant: the credential's own record is left to its models'.
RecordsWithoutOwn(a, now, cooling) ==
    IF a.disabled \/ ~cooling THEN {}
    ELSE IF ModelRecords(a, now) # {} THEN ModelRecords(a, now)
         ELSE OwnRecord(a, now)

\* cooldownStateRecordsForAuthLocked: what is held, unless the credential is
\* disabled or its cooling is.
CooldownRecords(a, now, cooling) ==
    IF a.disabled \/ ~cooling THEN {}
    ELSE ModelRecords(a, now) \cup OwnRecord(a, now)

\* The records without a model are the credential's own.
OwnRecords(live) == {r \in live : r.model = NoModel}

\* restoreCooldownRecordLocked for the records of one credential: those of
\* models first, then the credential's own, which overwrites the aggregate.
RestoredQuota(r) ==
    IF r.quota.exceeded /\ r.quota.recover = 0
    THEN [r.quota EXCEPT !.recover = r.next] ELSE r.quota

Restore(a, records, now, cooling) ==
    LET live == {r \in records : r.next > now}
        own  == OwnRecords(live)
        held == {r.model : r \in live \ own}
        of(m) == CHOOSE r \in live : r.model = m
        state(m) == [unavail |-> TRUE, next |-> of(m).next,
                     quota |-> RestoredQuota(of(m)), err |-> of(m).err]
        models == [m \in DOMAIN a.models \cup held |->
                     IF m \in held THEN state(m) ELSE a.models[m]]
        b == IF held = {} THEN a
             ELSE Aggregate([a EXCEPT !.models = models], now)
    IN  IF a.disabled \/ ~cooling THEN a
        ELSE IF own = {} THEN b
        ELSE [b EXCEPT !.unavail = TRUE, !.next = of(NoModel).next,
                       !.quota = RestoredQuota(of(NoModel))]
=============================================================================
