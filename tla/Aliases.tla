------------------------------- MODULE Aliases -------------------------------
(***************************************************************************)
(* How the model a client names becomes the upstream models a credential   *)
(* of the configuration is called with (sdk/cliproxy/auth): the prefix of  *)
(* the credential, the models' aliases, the table compiled from them, the  *)
(* pools of an OpenAI-compatible provider, and the names under which the   *)
(* results are held against the credential.                                *)
(***************************************************************************)
EXTENDS Integers, Sequences, SequencesExt, FiniteSets, TLC

CONSTANTS
    Credentials,  \* records: provider, and prefix when it has one
    Entries,   \* model lists a configuration may give the credential: [name, alias]
    Thought,  \* thinking suffixes clients write, "" for none
    MaxCalls,  \* bound: requests of a behaviour
    MaxReloads \* bound: configurations after the first

VARIABLES
    credential,  \* its provider and whether it has a prefix
    models,      \* runtimeConfig: the model list of its entry
    table,       \* apiKeyModelAlias: alias to upstream name, compiled from a list
    listed,      \* the names the registry has for it
    offsets,     \* modelPoolOffsets
    states,      \* its ModelStates, by name
    request,     \* the request in progress
    made,        \* number of requests and of later configurations
    blame,       \* history: failures whose holds are running
    turns,       \* history: first members of undisturbed requests, by pool
    spanned      \* history: a request saw two configurations

vars == <<credential, models, table, listed, offsets, states, request, made, blame, turns, spanned>>

Name(prefixed, base, suffix) == [prefixed |-> prefixed, base |-> base, suffix |-> suffix]
Plain(base) == Name(FALSE, base, "")
Nothing == [b \in {} |-> Plain("")]

\* canonicalModelKey
Canonical(name) == [name EXCEPT !.suffix = ""]
\* rewriteModelForAuth
Requested(route) == IF credential.prefix THEN [route EXCEPT !.prefixed = FALSE] ELSE route
\* preserveResolvedModelSuffix: a suffix of the configuration has priority.
WithSuffix(name, asked) == IF name.suffix # "" THEN name ELSE [name EXCEPT !.suffix = asked.suffix]

-----------------------------------------------------------------------------
(* The configured list: searched as it is, or compiled. *)
Distinct(names) == FoldLeft(LAMBDA seen, n : IF Contains(seen, n) THEN seen ELSE Append(seen, n), <<>>, names)

\* resolveModelAliasPoolFromConfigModels: all models with the alias, or one by its name.
PoolOf(list, asked) ==
    LET Resolve(hits) == [i \in DOMAIN hits |-> WithSuffix(hits[i].name, asked)]
        byAlias == SelectSeq(list, LAMBDA e : e.alias = asked.base)
        byName == SelectSeq(list, LAMBDA e : e.name \in {asked, Canonical(asked)})
    IN IF byAlias # <<>> THEN Distinct(Resolve(byAlias))
       ELSE SubSeq(Resolve(byName), 1, IF byName = <<>> THEN 0 ELSE 1)

\* compileAPIKeyModelAliasForModels: the first model of an alias, and its name as well.
Compile(list) ==
    FoldLeft(LAMBDA t, e :
        IF e.alias = "" \/ e.alias \in DOMAIN t THEN t
        ELSE t @@ (e.alias :> e.name) @@ (e.name.base :> e.name), Nothing, list)

\* buildConfigModels with applyModelPrefixes (force-model-prefix is off).
Listing(list) ==
    LET ids == {IF e.alias = "" THEN e.name ELSE Plain(e.alias) : e \in ToSet(list)}
    IN ids \cup (IF credential.prefix THEN {[id EXCEPT !.prefixed = TRUE] : id \in ids} ELSE {})

-----------------------------------------------------------------------------
(* Resolution. *)
Pool(asked) == IF credential.provider = "compat" THEN PoolOf(models, asked) ELSE <<>>

\* applyAPIKeyModelAlias: the table, the list, or the name as it is.
Resolved(asked) ==
    LET slow == PoolOf(models, asked) IN
    CASE asked.base \in DOMAIN table -> WithSuffix(table[asked.base], asked)
      [] asked.base \notin DOMAIN table /\ slow # <<>> -> slow[1]
      [] OTHER -> asked

PoolKey(asked) == asked.base
Offset(asked) == IF PoolKey(asked) \in DOMAIN offsets THEN offsets[PoolKey(asked)] ELSE 0
Rotated(pool, k) == [i \in DOMAIN pool |-> pool[1 + ((i - 1 + k) % Len(pool))]]

\* executionModelCandidates
Candidates(asked) ==
    LET pool == Pool(asked) IN
    CASE pool = <<>> -> <<Resolved(asked)>>
      [] Len(pool) = 1 -> pool
      [] OTHER -> Rotated(pool, Offset(asked))

SelectionOfMember(route) == Resolved(Requested(route))  \* mutant of Selection

\* selectionModelForAuth: a pool goes by its alias.
Selection(route) ==
    IF Len(Pool(Requested(route))) > 1 THEN Requested(route) ELSE Resolved(Requested(route))

\* stateModelForExecution
StateModel(route, upstream, pooled) ==
    IF pooled \/ Canonical(Selection(route)) = Canonical(upstream) THEN upstream ELSE route

\* isAuthBlockedForModel: the state of the name, else that of its canonical name.
Held(name) ==
    LET key == IF name \in DOMAIN states THEN name ELSE Canonical(name)
    IN key \in DOMAIN states /\ states[key] = "held"

\* filterExecutionModels
Open(route, candidates) ==
    SelectSeq(candidates, LAMBDA m : ~Held(StateModel(route, m, Len(candidates) > 1)))

\* authSupportsRouteModel
Supports(route) == {Canonical(route), Canonical(Selection(route))} \cap listed # {}

\* routeAwareSelectionRequired
RouteAware(route) == Canonical(Selection(route)) # Canonical(route)

\* updateAggregatedAvailability: the credential is unavailable while each of its states is.
AllHeld == DOMAIN states # {} /\ \A key \in DOMAIN states : states[key] = "held"

\* pickNext: the scheduler looks at the canonical name of the route; where the selection goes
\* by another name the manager looks at that, and the selector at the whole credential.
Blocked(route) ==
    IF RouteAware(route) THEN Held(Selection(route)) \/ AllHeld ELSE Held(Canonical(route))

-----------------------------------------------------------------------------
Idle == [on |-> FALSE]
Settled == table = Compile(models) /\ listed = Listing(models)

Init ==
    /\ credential \in Credentials
    /\ models \in Entries /\ table = Compile(models) /\ listed = Listing(models)
    /\ offsets = [b \in {} |-> 0] /\ states = [b \in {} |-> ""] /\ request = Idle /\ made = [calls |-> 0, reloads |-> 0]
    /\ blame = {} /\ turns = [b \in {} |-> <<>>] /\ spanned = FALSE

LastOf(seq, n) == SubSeq(seq, IF Len(seq) > n THEN Len(seq) - n + 1 ELSE 1, Len(seq))

Routes == {[name EXCEPT !.suffix = s] : name \in listed, s \in Thought}

\* The credential is picked, and the request takes its models and moves the offset on;
\* with all of them held the credential is skipped.
Begin(route) ==
    LET asked == Requested(route)
        candidates == Candidates(asked)
        open == Open(route, candidates)
        old == IF asked.base \in DOMAIN turns THEN turns[asked.base] ELSE <<>>
    IN /\ ~request.on /\ made.calls < MaxCalls
       /\ Supports(route) /\ ~Blocked(route)
       /\ made' = [made EXCEPT !.calls = @ + 1]
       /\ offsets' = IF Len(candidates) > 1 THEN (PoolKey(asked) :> Offset(asked) + 1) @@ offsets
                     ELSE offsets
       /\ request' = IF open = <<>> THEN Idle
                     ELSE [on |-> TRUE, route |-> route, models |-> open,
                           pooled |-> Len(candidates) > 1]
       /\ turns' = (asked.base :> IF open # candidates THEN <<>>
                                  ELSE LastOf(Append(old, open[1].base), Len(candidates))) @@ turns
       /\ spanned' = (spanned \/ ~Settled)
       /\ UNCHANGED <<credential, models, table, listed, states, blame>>

Upstream == request.models[1]
Key == StateModel(request.route, Upstream, request.pooled)

Succeeds ==
    /\ request.on
    /\ states' = (Key :> "clean") @@ states
    /\ request' = Idle
    /\ blame' = {b \in blame : b.key # Key}
    /\ UNCHANGED <<credential, models, table, listed, offsets, made, turns, spanned>>

\* A failure that opens a window; the next model of the pool follows.
Fails ==
    /\ request.on
    /\ states' = (Key :> "held") @@ states
    /\ request' = IF Len(request.models) > 1 THEN [request EXCEPT !.models = Tail(@)] ELSE Idle
    /\ blame' = blame \cup {[route |-> request.route, upstream |-> Upstream, key |-> Key]}
    /\ UNCHANGED <<credential, models, table, listed, offsets, made, turns, spanned>>

\* A failure of the request itself: nothing is held and no other model is tried.
IsInvalid ==
    /\ request.on
    /\ request' = Idle
    /\ UNCHANGED <<credential, models, table, listed, offsets, states, made, blame, turns, spanned>>

\* A window ends.
Expire(key) ==
    /\ states[key] = "held"
    /\ states' = [states EXCEPT ![key] = "clean"]
    /\ blame' = {b \in blame : b.key # key}
    /\ UNCHANGED <<credential, models, table, listed, offsets, request, made, turns, spanned>>

\* A new configuration: stored, compiled and, with the credential's update, listed.
SetConfig(list) ==
    /\ Settled /\ list # models /\ made.reloads < MaxReloads
    /\ made' = [made EXCEPT !.reloads = @ + 1]
    /\ models' = list /\ blame' = {} /\ turns' = [b \in {} |-> <<>>]
    /\ spanned' = (spanned \/ request.on)
    /\ UNCHANGED <<credential, table, listed, offsets, states, request>>

Rebuild ==
    /\ table # Compile(models)
    /\ table' = Compile(models) /\ blame' = {}
    /\ spanned' = (spanned \/ request.on)
    /\ UNCHANGED <<credential, models, listed, offsets, states, request, made, turns>>

\* completeModelRegistrationForAuthWithCache, of lists that differ in their listing:
\* ReconcileRegistryModelStates clears the states of listed names and drops the rest.
Register ==
    /\ table = Compile(models) /\ listed # Listing(models)
    /\ listed' = Listing(models)
    /\ states' = [key \in {k \in DOMAIN states : Canonical(k) \in listed'} |-> "clean"]
    /\ blame' = {}
    /\ UNCHANGED <<credential, models, table, offsets, request, made, turns, spanned>>

Next ==
    \/ \E route \in Routes : Begin(route)
    \/ Succeeds \/ Fails \/ IsInvalid
    \/ \E key \in DOMAIN states : Expire(key)
    \/ \E list \in Entries : SetConfig(list)
    \/ Rebuild \/ Register

Spec == Init /\ [][Next]_vars

-----------------------------------------------------------------------------
\* The upstream model that failed a route is not called again for that route
\* while the hold runs, whatever other routes of the credential do (a configuration
\* that comes in between may move the hold to the route's own name).
HeldIsSkipped ==
    request.on /\ ~spanned => \A b \in blame :
        b.route = request.route => ~Contains(request.models, b.upstream)

\* While a member of a pool is free the credential serves the pool, unless the route goes by
\* another name than the alias and every name the credential was called by is held.
Free(route) == Open(route, Candidates(Requested(route))) # <<>>
FreeMemberServes ==
    Settled /\ ~spanned => \A route \in Routes :
        /\ Len(Pool(Requested(route))) > 1
        /\ \A m \in ToSet(Pool(Requested(route))) : m.base # route.base
        /\ Free(route) /\ ~(RouteAware(route) /\ AllHeld)
        => ~Blocked(route)

\* Violated (no run of the project repeats it) where a member of the pool has the pool's
\* alias for its name, its hold being one of the alias, and for a prefixed route, where the
\* selector takes the hold of every member tried so far for one of the credential.
EveryFreeMemberServes ==
    Settled /\ ~spanned => \A route \in Routes :
        Len(Pool(Requested(route))) > 1 /\ Free(route) => ~Blocked(route)

\* Undisturbed requests of a pool begin with each member in turn.
EvenShare ==
    Settled => \A b \in DOMAIN turns :
        LET n == Len(Pool(Plain(b))) IN
        n > 1 /\ Len(turns[b]) = n => Cardinality(ToSet(turns[b])) = n

\* What is listed under an alias is served by all the models with that alias, or
\* by the first; unless the alias is another model's name, which the table prefers.
ListedIsServed ==
    Settled => \A id \in listed, s \in Thought :
        LET asked == Requested([id EXCEPT !.suffix = s])
            hits == SelectSeq(models, LAMBDA e : e.alias = asked.base)
            serving == IF credential.provider = "compat" THEN ToSet(hits) ELSE {hits[1]}
        IN /\ hits # <<>>
           /\ ~\E e \in ToSet(models) : e.name.base = asked.base /\ e.alias # asked.base
           => ToSet(Candidates(asked)) = {WithSuffix(e.name, asked) : e \in serving}

AliasesAreSound == HeldIsSkipped /\ FreeMemberServes /\ EvenShare /\ ListedIsServed
=============================================================================
