--------------------------- MODULE ModelRegistry ---------------------------
(***************************************************************************)
(* The global model registry of internal/registry: which client            *)
(* (credential) serves which model through which provider, the             *)
(* reference counts kept per model, the clients set aside for a model, and *)
(* the cached list of available models.  Every method runs under the       *)
(* registry's mutex and is one action, except GetAvailableModels, which    *)
(* reads the clock, looks into the cache, lets go of the lock, and builds  *)
(* the list later with the time it read first.                             *)
(*                                                                         *)
(* Model metadata and the hook's notifications are left out, as is the     *)
(* empty provider name.                                                    *)
(***************************************************************************)
EXTENDS Naturals, FiniteSetsExt

CONSTANTS
    Clients,     \* client (credential) IDs
    Models,      \* model IDs
    Providers,   \* provider identifiers
    Readers,     \* goroutines that list the available models
    MaxCopies,   \* bound: how often a client may list the same model
    Window,      \* modelQuotaExceededWindow
    MaxTime,     \* bound on the clock
    None         \* no provider, no registration, no cached list, no request

VARIABLES
    now,         \* wall clock; 0 is the zero time
    bound,       \* clientModels: how often each client lists each model
    provider,    \* clientProviders
    models,      \* the registration of each model
    cache,       \* availableModelsCache, for one handler type
    asked        \* the time each reader found no usable list, or None

vars == <<now, bound, provider, models, cache, asked>>

Listings == [Models -> 0..MaxCopies]
Nothing == [m \in Models |-> 0]

\* Maps from clients to times or reasons: 0 and "" are absent keys, and so is
\* a provider's 0.
Reasons == {"", "quota", "other"}
MaxCount == MaxCopies * Cardinality(Clients)
Registrations ==
    [count : 1..MaxCount, providers : [Providers -> 0..MaxCount],
     exceeded : [Clients -> 0..MaxTime], suspended : [Clients -> Reasons]]

Empty == [count |-> 0, providers |-> [p \in Providers |-> 0],
          exceeded |-> [c \in Clients |-> 0],
          suspended |-> [c \in Clients |-> ""]]

Init ==
    /\ now = 1
    /\ bound = [c \in Clients |-> Nothing]
    /\ provider = [c \in Clients |-> None]
    /\ models = [m \in Models |-> None]
    /\ cache = None
    /\ asked = [r \in Readers |-> None]

-----------------------------------------------------------------------------
(* Registrations *)

Minus(a, b) == IF a > b THEN a - b ELSE 0
Least(a, b) == IF a < b THEN a ELSE b

\* addModelRegistration, k times.
Added(reg, p, k) ==
    LET r == IF reg = None THEN Empty ELSE reg IN
    IF k = 0 THEN reg
    ELSE [r EXCEPT !.count = @ + k, !.providers[p] = @ + k]

\* removeModelRegistration, k times: the client is no longer set aside, and
\* a model without clients is dropped with everything known about it.
Removed(reg, c, p, k) ==
    IF k = 0 \/ reg = None THEN reg
    ELSE IF reg.count <= k THEN None
    ELSE [reg EXCEPT !.count = @ - k, !.providers[p] = Minus(@, k),
                     !.exceeded[c] = 0, !.suspended[c] = ""]

\* Faulty variant: a client that changes its provider is only counted anew
\* for the models it did not have.
ReconciledInPlace(reg, c, from, to, old, new) ==
    LET b == Added(Removed(reg, c, from, Minus(old, new)), to, Minus(new, old))
    IN  IF new = 0 THEN b
        ELSE [b EXCEPT !.exceeded[c] = 0, !.suspended[c] = ""]

\* What RegisterClient does to the registration of a model that client c
\* listed old times for one provider and now lists new times for another:
\* the overlap changes providers, the rest is removed or added, and a binding
\* that remains starts a fresh snapshot.
Reconciled(reg, c, from, to, old, new) ==
    LET overlap == IF from = to THEN 0 ELSE Least(old, new)
        a == IF overlap = 0 THEN reg
             ELSE [reg EXCEPT !.providers[from] = Minus(@, overlap)]
        b == Added(Removed(a, c, from, Minus(old, new)), to, Minus(new, old))
    IN  IF new = 0 THEN b
        ELSE [b EXCEPT !.providers[to] = @ + overlap,
                       !.exceeded[c] = 0, !.suspended[c] = ""]

\* RegisterClient for a client the registry does not know: the path for pure
\* additions does not look at what is left of an earlier binding.
RegisterNew(c, p, new) ==
    /\ bound[c] = Nothing /\ new # Nothing
    /\ models' = [m \in Models |-> Added(models[m], p, new[m])]
    /\ bound' = [bound EXCEPT ![c] = new]
    /\ provider' = [provider EXCEPT ![c] = p]
    /\ cache' = None
    /\ UNCHANGED <<now, asked>>

RegisterAgain(c, p, new) ==
    /\ bound[c] # Nothing /\ new # Nothing
    /\ models' = [m \in Models |->
                    Reconciled(models[m], c, provider[c], p,
                               bound[c][m], new[m])]
    /\ bound' = [bound EXCEPT ![c] = new]
    /\ provider' = [provider EXCEPT ![c] = p]
    /\ cache' = None
    /\ UNCHANGED <<now, asked>>

\* UnregisterClient; RegisterClient without models does the same.
Unregister(c) ==
    /\ models' = [m \in Models |->
                    Removed(models[m], c, provider[c], bound[c][m])]
    /\ bound' = [bound EXCEPT ![c] = Nothing]
    /\ provider' = [provider EXCEPT ![c] = None]
    /\ cache' = None
    /\ UNCHANGED <<now, asked>>

-----------------------------------------------------------------------------
(* Clients set aside for a model, bound to it or not *)

SetModelQuotaExceeded(c, m) ==
    /\ models[m] # None
    /\ models' = [models EXCEPT ![m].exceeded[c] = now]
    /\ cache' = None
    /\ UNCHANGED <<now, bound, provider, asked>>

ClearModelQuotaExceeded(c, m) ==
    /\ models[m] # None
    /\ models' = [models EXCEPT ![m].exceeded[c] = 0]
    /\ cache' = None
    /\ UNCHANGED <<now, bound, provider, asked>>

\* Faulty variant: the cached list is kept.
SuspendQuietly(c, m, reason) ==
    /\ models[m] # None /\ models[m].suspended[c] = ""
    /\ models' = [models EXCEPT ![m].suspended[c] = reason]
    /\ UNCHANGED <<now, bound, provider, cache, asked>>

\* A client that is suspended already keeps the reason it has.
SuspendClientModel(c, m, reason) ==
    /\ models[m] # None /\ models[m].suspended[c] = ""
    /\ models' = [models EXCEPT ![m].suspended[c] = reason]
    /\ cache' = None
    /\ UNCHANGED <<now, bound, provider, asked>>

ResumeClientModel(c, m) ==
    /\ models[m] # None /\ models[m].suspended[c] # ""
    /\ models' = [models EXCEPT ![m].suspended[c] = ""]
    /\ cache' = None
    /\ UNCHANGED <<now, bound, provider, asked>>

\* A client is out of quota for a model until Window after it was marked.
Recovers(m, c) == models[m].exceeded[c] + Window
Exceeding(m, t) == {c \in Clients : models[m].exceeded[c] # 0
                                    /\ t < Recovers(m, c)}

CleanupExpiredQuotas ==
    LET stale(m, c) == /\ models[m] # None
                       /\ models[m].exceeded[c] # 0
                       /\ now >= Recovers(m, c)
    IN  /\ \E m \in Models, c \in Clients : stale(m, c)
        /\ models' = [m \in Models |->
              IF models[m] = None THEN None
              ELSE [models[m] EXCEPT !.exceeded =
                      [c \in Clients |-> IF stale(m, c) THEN 0 ELSE @[c]]]]
        /\ cache' = None
        /\ UNCHANGED <<now, bound, provider, asked>>

-----------------------------------------------------------------------------
(* The list of available models *)

Suspended(m, reasons) == {c \in Clients : models[m].suspended[c] \in reasons}

\* buildAvailableModelsLocked: clients that exceeded their quota or that are
\* suspended for another reason are subtracted; a model whose clients all
\* just cool down is listed all the same.
Listed(t) ==
    {m \in {n \in Models : models[n] # None} :
        LET exceeding == Cardinality(Exceeding(m, t))
            other == Cardinality(Suspended(m, {"other"}))
        IN  \/ models[m].count > exceeding + other
            \/ /\ exceeding > 0 \/ Suspended(m, {"quota"}) # {}
               /\ other = 0}

\* The list holds until the first client that counts as out of quota recovers.
Recoveries(t) == UNION {{Recovers(m, c) : c \in Exceeding(m, t)} :
                           m \in {n \in Models : models[n] # None}}
Built(t) ==
    [models |-> Listed(t),
     expires |-> IF Recoveries(t) = {} THEN 0 ELSE Min(Recoveries(t))]

Usable(t) == cache # None /\ (cache.expires = 0 \/ t < cache.expires)

\* GetAvailableModels under the read lock: a usable list is returned.
ReadCache(r) ==
    /\ asked[r] = None /\ ~Usable(now)
    /\ asked' = [asked EXCEPT ![r] = now]
    /\ UNCHANGED <<now, bound, provider, models, cache>>

\* ... and under the write lock, with the time read at the start.
Build(r) ==
    /\ asked[r] # None
    /\ cache' = IF Usable(asked[r]) THEN cache ELSE Built(asked[r])
    /\ asked' = [asked EXCEPT ![r] = None]
    /\ UNCHANGED <<now, bound, provider, models>>

Tick ==
    /\ now < MaxTime
    /\ now' = now + 1
    /\ UNCHANGED <<bound, provider, models, cache, asked>>

-----------------------------------------------------------------------------
Next ==
    \/ \E c \in Clients, p \in Providers, new \in Listings :
          RegisterNew(c, p, new) \/ RegisterAgain(c, p, new)
    \/ \E c \in Clients : Unregister(c)
    \/ \E c \in Clients, m \in Models :
          \/ SetModelQuotaExceeded(c, m)
          \/ ClearModelQuotaExceeded(c, m)
          \/ \E reason \in Reasons \ {""} : SuspendClientModel(c, m, reason)
          \/ ResumeClientModel(c, m)
    \/ CleanupExpiredQuotas
    \/ \E r \in Readers : ReadCache(r) \/ Build(r)
    \/ Tick

Spec == Init /\ [][Next]_vars

-----------------------------------------------------------------------------
(* Properties *)

\* Registrations exist exactly while they have clients, and every field stays
\* in its range.
TypeOK ==
    /\ now \in 1..MaxTime
    /\ bound \in [Clients -> Listings]
    /\ \A c \in Clients : provider[c] \in Providers \cup {None}
    /\ \A m \in Models : models[m] = None \/ models[m] \in Registrations
    /\ cache = None \/ cache \in [models : SUBSET Models, expires : Nat]
    /\ \A r \in Readers : asked[r] = None \/ asked[r] \in 1..MaxTime

\* model_registry.go:277-688: whatever clients register, drop, list twice or
\* move to another provider, a model's count is the number of bindings to it,
\* its count for a provider the number of bindings through that provider, and
\* it is registered while there is one.
Bindings(m, C) ==
    Cardinality({b \in C \X (1..MaxCopies) : b[2] <= bound[b[1]][m]})
CountsExact ==
    \A m \in Models :
        IF Bindings(m, Clients) = 0 THEN models[m] = None
        ELSE /\ models[m] # None
             /\ models[m].count = Bindings(m, Clients)
             /\ \A p \in Providers :
                   models[m].providers[p] =
                       Bindings(m, {c \in Clients : provider[c] = p})

\* model_registry.go:813-839: a cached list that would be returned now is the
\* list that would be built now, though it was built from a clock read before
\* the lock was taken.
CacheFresh == Usable(now) => cache.models = Listed(now)
=============================================================================
