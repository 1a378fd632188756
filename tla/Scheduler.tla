----------------------------- MODULE Scheduler -----------------------------
(***************************************************************************)
(* authScheduler of sdk/cliproxy/auth/scheduler.go: for each provider it   *)
(* keeps the snapshots of its credentials and, per model, a shard with the *)
(* state of every credential that serves the model and the indexes picks   *)
(* are made from: the ready credentials by priority, each list with a      *)
(* round-robin cursor, and the blocked ones.  Every method runs under the  *)
(* scheduler's mutex and is one action here.                               *)
(*                                                                         *)
(* One model is modelled, so a provider has one shard, made when it is     *)
(* first asked for.  Credential IDs are numbers: the lists are ordered by  *)
(* ID.  A provider without credentials and an unknown one behave alike.    *)
(***************************************************************************)
EXTENDS Integers, FiniteSets, SequencesExt

CONSTANTS
    Auths,        \* credential IDs, natural numbers
    Providers,    \* provider keys
    Mixed,        \* the providers of a mixed request, in its order, each once
    Snapshots,    \* the snapshots the manager passes on: whether the registry
                  \* has the model for the credential, its priority, whether it
                  \* prefers websockets, the deadline of its hold, the end of
                  \* its quota window, and whether it is held for its quota
    MaxTime,      \* bound on the clock
    None          \* no provider, no shard, no pick

VARIABLES
    now,          \* wall clock
    strategy,     \* authScheduler.strategy
    owner,        \* authScheduler.authProviders
    metas,        \* providerScheduler.auths: the snapshot of each credential
    shards,       \* providerScheduler.modelShards, for the one model
    mixedCursor,  \* authScheduler.mixedCursors, for Mixed and the model
    turn          \* the picks made while nothing disturbed their rotation

vars == <<now, strategy, owner, metas, shards, mixedCursor, turn>>

\* Credentials are finitely many numbers, times count from zero, and a mixed
\* request names each of the providers.
SchedulerSound ==
    /\ IsFiniteSet(Auths) /\ Auths \subseteq Nat
    /\ Snapshots \subseteq [supports : BOOLEAN, priority : Int, ws : BOOLEAN,
                            next : Nat, recover : Nat, exceeded : BOOLEAN]
    /\ Mixed \in Seq(Providers)
    /\ \A p \in Providers : \E i \in DOMAIN Mixed : Mixed[i] = p

\* The history's kinds tell a provider from a mixed request and from nothing,
\* and a mixed request names each provider once.
TurnsSound ==
    /\ SchedulerSound
    /\ None \notin Providers /\ "mixed" \notin Providers
    /\ \A i, j \in DOMAIN Mixed : Mixed[i] = Mixed[j] => i = j

Strategies == {"round-robin", "fill-first"}
NoEntries == [a \in {} |-> None]

Init ==
    /\ now = 0
    /\ strategy \in Strategies
    /\ owner = [a \in Auths |-> None]
    /\ metas = [p \in Providers |-> NoEntries]
    /\ shards = [p \in Providers |-> None]
    /\ mixedCursor = 0
    /\ turn = None

-----------------------------------------------------------------------------
(* Shards *)

With(f, a, v) == [b \in DOMAIN f \cup {a} |-> IF b = a THEN v ELSE f[b]]
Without(f, a) == [b \in DOMAIN f \ {a} |-> f[b]]

\* The part of a credential's entry that isAuthBlockedForModel determines.
Entry(snap) ==
    IF snap.next <= now THEN [state |-> "ready", retry |-> 0, snap |-> snap]
    ELSE [state |-> IF snap.exceeded THEN "cooldown" ELSE "blocked",
          retry |-> IF snap.recover > now THEN snap.recover ELSE snap.next,
          snap  |-> snap]

ReadyAt(entries, priority) ==
    {a \in DOMAIN entries : /\ entries[a].state = "ready"
                            /\ entries[a].snap.priority = priority}
\* The members of S in increasing order: the i-th has i - 1 before it.
Sorted(S) == [i \in 1..Cardinality(S) |->
                CHOOSE a \in S : Cardinality({b \in S : b < a}) = i - 1]

\* buildReadyView with the cursor of the list it replaces.
View(S, cursor) ==
    [flat |-> Sorted(S), cursor |-> IF S = {} THEN 0 ELSE cursor % Cardinality(S)]

\* rebuildIndexesLocked: cursors survive for the priorities that still have
\* a ready credential.
Rebuilt(entries, buckets) ==
    LET priorities == {entries[a].snap.priority :
                          a \in {b \in DOMAIN entries :
                                    entries[b].state = "ready"}}
        wsAt(q) == {a \in ReadyAt(entries, q) : entries[a].snap.ws}
        old(q) == IF q \in DOMAIN buckets
                  THEN <<buckets[q].all.cursor, buckets[q].ws.cursor>>
                  ELSE <<0, 0>>
    IN  [entries |-> entries,
         buckets |-> [q \in priorities |->
                        [all |-> View(ReadyAt(entries, q), old(q)[1]),
                         ws  |-> View(wsAt(q), old(q)[2])]],
         blocked |-> {a \in DOMAIN entries : entries[a].state # "ready"}]

\* Faulty variant: the new priority is not compared.
SameIndexPositionLax(old, new) ==
    old.state = new.state /\ old.retry = new.retry /\ old.snap.ws = new.snap.ws

\* upsertEntryLocked leaves the indexes alone when these agree.
SameIndexPosition(old, new) ==
    /\ old.state = new.state /\ old.retry = new.retry
    /\ old.snap.priority = new.snap.priority /\ old.snap.ws = new.snap.ws

UpsertEntry(shard, a, snap) ==
    LET entry == Entry(snap)
        entries == With(shard.entries, a, entry)
    IN  IF a \in DOMAIN shard.entries
           /\ SameIndexPosition(shard.entries[a], entry)
        THEN [shard EXCEPT !.entries = entries]
        ELSE Rebuilt(entries, shard.buckets)

\* removeEntryLocked.
RemoveEntry(shard, a) ==
    IF a \notin DOMAIN shard.entries THEN shard
    ELSE Rebuilt(Without(shard.entries, a), shard.buckets)

\* promoteExpiredLocked: blocked credentials whose retry time has come are
\* looked at again.
Expired(shard) == {a \in shard.blocked : shard.entries[a].retry # 0
                                         /\ shard.entries[a].retry <= now}
Promoted(shard) ==
    IF Expired(shard) = {} THEN shard
    ELSE Rebuilt([a \in DOMAIN shard.entries |->
                    IF a \in Expired(shard) THEN Entry(shard.entries[a].snap)
                    ELSE shard.entries[a]],
                 shard.buckets)

\* ensureModelLocked.
Ensured(p) ==
    IF shards[p] # None THEN Promoted(shards[p])
    ELSE LET serving == {a \in DOMAIN metas[p] : metas[p][a].supports}
         IN  Rebuilt([a \in serving |-> Entry(metas[p][a])], NoEntries)

-----------------------------------------------------------------------------
(* Rotation: the picks made since the ready lists last changed.              *)

Flats(s) == [p \in Providers |->
               IF s[p] = None THEN None
               ELSE [q \in DOMAIN s[p].buckets |-> s[p].buckets[q].all.flat]]
KeepTurn == turn' = IF Flats(shards') = Flats(shards) THEN turn ELSE None

\* The last picks of a rotation among n credentials.
Latest(s, n) == SubSeq(s, IF Len(s) > n THEN Len(s) - n + 1 ELSE 1, Len(s))
Extended(kind, a, n, undisturbed) ==
    IF undisturbed /\ turn # None /\ turn.kind = kind
    THEN [turn EXCEPT !.seen = Latest(Append(@, a), n)]
    ELSE [kind |-> kind, seen |-> <<a>>]

-----------------------------------------------------------------------------
(* The manager's calls *)

\* removeAuthLocked of the provider that has the credential.
Dropped(s, p, a) ==
    IF p = None \/ s[p] = None THEN s ELSE [s EXCEPT ![p] = RemoveEntry(@, a)]
Forgotten(m, p, a) == IF p = None THEN m ELSE [m EXCEPT ![p] = Without(@, a)]

\* The provider a credential has to leave first.
MovedFrom(a, p) == IF owner[a] = p THEN None ELSE owner[a]

\* upsertAuth of an enabled credential.
UpsertAuth(a, p, snap) ==
    LET from == MovedFrom(a, p)
        s == Dropped(shards, from, a)
    IN  /\ owner' = [owner EXCEPT ![a] = p]
        /\ metas' = [Forgotten(metas, from, a)
                       EXCEPT ![p] = With(@, a, snap)]
        /\ shards' =
             IF s[p] = None THEN s
             ELSE [s EXCEPT ![p] = IF snap.supports THEN UpsertEntry(@, a, snap)
                                   ELSE RemoveEntry(@, a)]
        /\ KeepTurn
        /\ UNCHANGED <<now, strategy, mixedCursor>>

\* removeAuth, and upsertAuth of a disabled credential.
RemoveAuth(a) ==
    /\ owner' = [owner EXCEPT ![a] = None]
    /\ metas' = Forgotten(metas, owner[a], a)
    /\ shards' = Dropped(shards, owner[a], a)
    /\ KeepTurn
    /\ UNCHANGED <<now, strategy, mixedCursor>>

\* rebuild from the manager's snapshots of all credentials.
Rebuild ==
    /\ shards' = [p \in Providers |-> None]
    /\ mixedCursor' = 0
    /\ turn' = None
    /\ UNCHANGED <<now, strategy, owner, metas>>

SetSelector(s) ==
    /\ strategy' = s
    /\ mixedCursor' = 0
    /\ turn' = None
    /\ UNCHANGED <<now, owner, metas, shards>>

Tick ==
    /\ now < MaxTime
    /\ now' = now + 1
    /\ UNCHANGED <<strategy, owner, metas, shards, mixedCursor, turn>>

-----------------------------------------------------------------------------
(* Picks.  A request allows the credentials it has not tried, or the one it  *)
(* is pinned to.                                                             *)

Has(view, allowed) == \E i \in DOMAIN view.flat : view.flat[i] \in allowed
First(view, allowed) ==
    view.flat[CHOOSE i \in DOMAIN view.flat :
                /\ view.flat[i] \in allowed
                /\ \A j \in 1..(i - 1) : view.flat[j] \notin allowed]

\* Faulty variant: the cursor stays on the credential it picked.
RotateStuck(view, allowed) ==
    LET n == Len(view.flat)
        at(o) == (view.cursor + o) % n
        o == CHOOSE o \in 0..(n - 1) :
               /\ view.flat[at(o) + 1] \in allowed
               /\ \A q \in 0..(o - 1) : view.flat[at(q) + 1] \notin allowed
    IN  [auth |-> view.flat[at(o) + 1], cursor |-> at(o)]

\* pickRoundRobin: the first allowed credential from the cursor on.
Rotate(view, allowed) ==
    LET n == Len(view.flat)
        at(o) == (view.cursor + o) % n
        o == CHOOSE o \in 0..(n - 1) :
               /\ view.flat[at(o) + 1] \in allowed
               /\ \A q \in 0..(o - 1) : view.flat[at(q) + 1] \notin allowed
    IN  [auth |-> view.flat[at(o) + 1], cursor |-> at(o) + 1]

\* highestReadyPriorityLocked: websockets come first when they are preferred,
\* at any priority.
Candidates(shard, allowed) ==
    {q \in DOMAIN shard.buckets : Has(shard.buckets[q].all, allowed)}
WsCandidates(shard, allowed) ==
    {q \in DOMAIN shard.buckets : Has(shard.buckets[q].ws, allowed)}

\* Faulty variant: the lowest priority wins.
HighestLast(S) == CHOOSE q \in S : \A r \in S : q <= r
Highest(S) == CHOOSE q \in S : \A r \in S : q >= r

\* pickReadyAtPriorityLocked: the credential and the shard with its cursor.
PickAt(shard, q, useWs, strat, allowed) ==
    LET bucket == shard.buckets[q]
        view == IF useWs THEN bucket.ws ELSE bucket.all
        c == IF strat = "fill-first"
             THEN [auth |-> First(view, allowed), cursor |-> view.cursor]
             ELSE Rotate(view, allowed)
    IN  [auth |-> c.auth,
         shard |-> [shard EXCEPT !.buckets[q] =
                      IF useWs THEN [@ EXCEPT !.ws.cursor = c.cursor]
                      ELSE [@ EXCEPT !.all.cursor = c.cursor]]]

\* pickSingle on an up-to-date shard.
SinglePick(p, preferWs, allowed) ==
    LET shard == Ensured(p)
        ws == preferWs /\ WsCandidates(shard, allowed) # {}
        q == Highest(IF ws THEN WsCandidates(shard, allowed)
                     ELSE Candidates(shard, allowed))
    IN  PickAt(shard, q, ws, strategy, allowed)

\* With nothing to pick the shards are brought up to date all the same.
PickNothing(providers, allowed) ==
    /\ \A p \in providers : Candidates(Ensured(p), allowed) = {}
    /\ shards' = [p \in Providers |-> IF p \in providers THEN Ensured(p)
                                      ELSE shards[p]]
    /\ KeepTurn
    /\ UNCHANGED <<now, strategy, owner, metas, mixedCursor>>

PickSingle(p, preferWs, allowed) ==
    LET pick == SinglePick(p, preferWs, allowed)
        q == pick.shard.entries[pick.auth].snap.priority
        list == pick.shard.buckets[q].all.flat
    IN  /\ Candidates(Ensured(p), allowed) # {}
        /\ shards' = [shards EXCEPT ![p] = pick.shard]
        /\ turn' = IF preferWs \/ allowed # Auths \/ strategy = "fill-first"
                   THEN None
                   ELSE Extended(p, pick.auth, Len(list),
                                 Flats(shards') = Flats(shards))
        /\ UNCHANGED <<now, strategy, owner, metas, mixedCursor>>

\* pickMixed for a request that is not pinned: the best priority over all its
\* providers, then, in rotation, as many turns for each provider as it has
\* credentials ready there, and within the provider its own rotation.
Best(s, allowed) ==
    Highest(UNION {Candidates(s[p], allowed) : p \in Providers})
Weight(s, q, p) ==
    IF q \in DOMAIN s[p].buckets THEN Len(s[p].buckets[q].all.flat) ELSE 0
\* A segment starts after the turns of the providers before it.
Before(s, q, i) == UNION {{j} \X (1..Weight(s, q, Mixed[j])) : j \in 1..(i - 1)}
SegmentStart(s, q, i) == Cardinality(Before(s, q, i))
TotalWeight(s, q) == SegmentStart(s, q, Len(Mixed) + 1)

\* The provider whose turn it is, and the next ones that may serve.
Serves(s, q, i, allowed) == q \in Candidates(s[Mixed[i]], allowed)
StartProvider(s, q, slot) ==
    CHOOSE i \in DOMAIN Mixed :
        /\ slot >= SegmentStart(s, q, i)
        /\ slot < SegmentStart(s, q, i + 1)
NextProvider(s, q, from, allowed) ==
    LET n == Len(Mixed)
        at(o) == ((from - 1 + o) % n) + 1
        o == CHOOSE o \in 0..(n - 1) :
               /\ Serves(s, q, at(o), allowed)
               /\ \A r \in 0..(o - 1) : ~Serves(s, q, at(r), allowed)
    IN  at(o)

\* A provider that stands in for the one whose turn it is starts its segment.
Slot(s, q, i, start, slot) == IF i = start THEN slot ELSE SegmentStart(s, q, i)

MixedPick(s, allowed) ==
    LET q == Best(s, allowed)
        slot == mixedCursor % TotalWeight(s, q)
        start == StartProvider(s, q, slot)
        i == NextProvider(s, q, IF strategy = "fill-first" THEN 1 ELSE start,
                          allowed)
        pick == PickAt(s[Mixed[i]], q, FALSE, strategy, allowed)
    IN  [auth |-> pick.auth, provider |-> Mixed[i], shard |-> pick.shard,
         cursor |-> IF strategy = "fill-first" THEN mixedCursor
                    ELSE Slot(s, q, i, start, slot) + 1]

PickMixed(allowed) ==
    LET s == [p \in Providers |-> Ensured(p)]
        pick == MixedPick(s, allowed)
        total == TotalWeight(s, Best(s, allowed))
    IN  /\ Len(Mixed) > 1
        /\ \E p \in Providers : Candidates(s[p], allowed) # {}
        /\ shards' = [s EXCEPT ![pick.provider] = pick.shard]
        /\ mixedCursor' = pick.cursor
        /\ turn' = IF allowed # Auths \/ strategy = "fill-first" THEN None
                   ELSE Extended("mixed", pick.auth, total,
                                 Flats(shards') = Flats(shards))
        /\ UNCHANGED <<now, strategy, owner, metas>>

-----------------------------------------------------------------------------
Next ==
    \/ \E a \in Auths, p \in Providers, snap \in Snapshots :
          UpsertAuth(a, p, snap)
    \/ \E a \in Auths : RemoveAuth(a)
    \/ Rebuild
    \/ \E s \in Strategies : SetSelector(s)
    \/ \E allowed \in SUBSET Auths :
          \/ \E p \in Providers :
                \/ PickNothing({p}, allowed)
                \/ \E preferWs \in BOOLEAN : PickSingle(p, preferWs, allowed)
          \/ PickNothing(Providers, allowed)
          \/ PickMixed(allowed)
    \/ Tick

Spec == Init /\ [][Next]_vars

-----------------------------------------------------------------------------
(* Properties *)

Priorities == {s.priority : s \in Snapshots}
Views == [flat : Seq(Auths), cursor : Nat]
ShardOK(shard) ==
    /\ DOMAIN shard.entries \subseteq Auths
    /\ \A a \in DOMAIN shard.entries :
          shard.entries[a] \in [state : {"ready", "cooldown", "blocked"},
                                retry : Nat, snap : Snapshots]
    /\ DOMAIN shard.buckets \subseteq Priorities
    /\ \A q \in DOMAIN shard.buckets :
          shard.buckets[q] \in [all : Views, ws : Views]
    /\ shard.blocked \subseteq Auths

\* A credential is known to the provider that owns it and to no other.
TypeOK ==
    /\ now \in 0..MaxTime /\ strategy \in Strategies /\ mixedCursor \in Nat
    /\ owner \in [Auths -> Providers \cup {None}]
    /\ \A p \in Providers :
          /\ DOMAIN metas[p] = {a \in Auths : owner[a] = p}
          /\ \A a \in DOMAIN metas[p] : metas[p][a] \in Snapshots
          /\ shards[p] = None \/ ShardOK(shards[p])

\* scheduler.go:631-660, 730-775, 961-1020: the indexes are kept up to date
\* piecemeal, and skipped when an update seems not to matter; they always say
\* what the entries say, and the entries what the latest snapshots say.
IndexesConsistent ==
    \A p \in Providers : shards[p] # None =>
        LET shard == shards[p]
            ready == {a \in DOMAIN shard.entries :
                         shard.entries[a].state = "ready"}
        IN  /\ DOMAIN shard.entries =
                   {a \in DOMAIN metas[p] : metas[p][a].supports}
            /\ \A a \in DOMAIN shard.entries :
                   shard.entries[a].snap = metas[p][a]
            /\ shard.blocked = DOMAIN shard.entries \ ready
            /\ DOMAIN shard.buckets = {metas[p][a].priority : a \in ready}
            /\ \A q \in DOMAIN shard.buckets :
                   LET at == {a \in ready : metas[p][a].priority = q}
                   IN  /\ shard.buckets[q].all.flat = Sorted(at)
                       /\ shard.buckets[q].ws.flat =
                              Sorted({a \in at : metas[p][a].ws})

\* What the snapshots say a request may use: a credential whose hold is over.
\* One whose quota window outlasts the hold may stay blocked to its end.
Free(p, allowed) ==
    {a \in DOMAIN metas[p] \cap allowed :
        metas[p][a].supports /\ metas[p][a].next <= now}
SurelyFree(p, allowed) ==
    {a \in Free(p, allowed) : metas[p][a].recover <= metas[p][a].next}

BestOf(a, p, others) ==
    \A r \in Providers : \A b \in others[r] :
        metas[p][a].priority >= metas[r][b].priority

\* A pick finds a credential whenever one is free, the one it finds is free,
\* and none of a higher priority is, over all the providers of the request.
PickIsBest ==
    \A allowed \in SUBSET Auths :
        LET s == [p \in Providers |-> Ensured(p)]
            sure == [p \in Providers |-> SurelyFree(p, allowed)]
            only(p) == [r \in Providers |-> IF r = p THEN sure[p] ELSE {}]
        IN  /\ \A p \in Providers :
                  IF Candidates(s[p], allowed) = {} THEN sure[p] = {}
                  ELSE LET a == SinglePick(p, FALSE, allowed).auth
                       IN  a \in Free(p, allowed) /\ BestOf(a, p, only(p))
            /\ (\E p \in Providers : Candidates(s[p], allowed) # {}) =>
                  LET pick == MixedPick(s, allowed)
                  IN  /\ pick.auth \in Free(pick.provider, allowed)
                      /\ BestOf(pick.auth, pick.provider, sure)

\* As long as the ready credentials stay the same, requests that have tried
\* nothing yet take them in turn: none is picked again before each of the
\* others, be it within a provider or over several.
FairTurns == turn # None => IsInjective(turn.seen)
=============================================================================
