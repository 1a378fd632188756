-------------------------- MODULE SchedulerProofs --------------------------
(***************************************************************************)
(* IndexesConsistent, PickIsBest and FairTurns for any credentials,        *)
(* providers, snapshots and picks.                                         *)
(*                                                                         *)
(* Whatever rebuilds the indexes of a shard builds them from its entries,  *)
(* so it is enough that the entries follow the snapshots; an upsert that   *)
(* leaves the indexes alone, and a pick that moves a cursor, are shown to  *)
(* change nothing of what the indexes say.  Turns are fair because the     *)
(* last picks are places of a circle, next to one another, that ends where *)
(* the cursor is: the list of a provider, or the wheel of a mixed request, *)
(* in which every provider's list turns within the slots it has.           *)
(***************************************************************************)
EXTENDS Scheduler, FiniteSetTheorems, SequenceTheorems, WellFoundedInduction, TLAPS

Ready(shard) == {a \in DOMAIN shard.entries : shard.entries[a].state = "ready"}
Serving(m)   == {a \in DOMAIN m : m[a].supports}

\* The records have the fields that the code updates.
ShardShape(shard) ==
    /\ DOMAIN shard = {"entries", "buckets", "blocked"}
    /\ \A q \in DOMAIN shard.buckets :
          /\ DOMAIN shard.buckets[q] = {"all", "ws"}
          /\ DOMAIN shard.buckets[q].all = {"flat", "cursor"}
          /\ DOMAIN shard.buckets[q].ws = {"flat", "cursor"}

\* The entries of a shard follow the snapshots m, ...
EntriesFollow(entries, m) ==
    /\ DOMAIN entries = Serving(m)
    /\ \A a \in DOMAIN entries : entries[a].snap = m[a]

At(shard, m, q)   == {a \in Ready(shard) : m[a].priority = q}
WsAt(shard, m, q) == {a \in At(shard, m, q) : m[a].ws}

\* ... and its indexes say what the entries say.
IndexesFollow(shard, m) ==
    /\ shard.blocked = DOMAIN shard.entries \ Ready(shard)
    /\ DOMAIN shard.buckets = {m[a].priority : a \in Ready(shard)}
    /\ \A q \in DOMAIN shard.buckets :
          /\ shard.buckets[q].all.flat = Sorted(At(shard, m, q))
          /\ shard.buckets[q].ws.flat = Sorted(WsAt(shard, m, q))

Consistent(shard, m) ==
    ShardShape(shard) /\ EntriesFollow(shard.entries, m) /\ IndexesFollow(shard, m)

IndexInv ==
    /\ DOMAIN metas = Providers /\ DOMAIN shards = Providers
    /\ \A p \in Providers : shards[p] # None => Consistent(shards[p], metas[p])

-----------------------------------------------------------------------------
(* Shards *)

\* rebuildIndexesLocked, from entries that follow the snapshots.
LEMMA RebuiltConsistent ==
  ASSUME NEW m, NEW entries, NEW buckets, EntriesFollow(entries, m)
  PROVE  Consistent(Rebuilt(entries, buckets), m)
<1> DEFINE r == Rebuilt(entries, buckets)
           ready == {a \in DOMAIN entries : entries[a].state = "ready"}
           wsAt(q) == {a \in ReadyAt(entries, q) : entries[a].snap.ws}
           old(q) == IF q \in DOMAIN buckets
                     THEN <<buckets[q].all.cursor, buckets[q].ws.cursor>>
                     ELSE <<0, 0>>
           priorities == {entries[a].snap.priority : a \in ready}
<1>1. r = [entries |-> entries,
           buckets |-> [q \in priorities |->
                          [all |-> View(ReadyAt(entries, q), old(q)[1]),
                           ws  |-> View(wsAt(q), old(q)[2])]],
           blocked |-> {a \in DOMAIN entries : entries[a].state # "ready"}]
  BY DEF Rebuilt
<1> HIDE DEF r, old
<1>2. /\ DOMAIN r = {"entries", "buckets", "blocked"} /\ r.entries = entries
      /\ DOMAIN r.buckets = priorities
      /\ r.blocked = {a \in DOMAIN entries : entries[a].state # "ready"}
  BY <1>1
<1>3. \A q \in priorities :
         r.buckets[q] = [all |-> View(ReadyAt(entries, q), old(q)[1]),
                         ws  |-> View(wsAt(q), old(q)[2])]
  BY <1>1
<1>4. \A S, c : View(S, c).flat = Sorted(S) /\ DOMAIN View(S, c) = {"flat", "cursor"}
  BY DEF View
<1>5. \A q \in priorities :
         /\ DOMAIN r.buckets[q] = {"all", "ws"}
         /\ DOMAIN r.buckets[q].all = {"flat", "cursor"}
         /\ DOMAIN r.buckets[q].ws = {"flat", "cursor"}
         /\ r.buckets[q].all.flat = Sorted(ReadyAt(entries, q))
         /\ r.buckets[q].ws.flat = Sorted(wsAt(q))
  <2> TAKE q \in priorities
  <2> DEFINE all == View(ReadyAt(entries, q), old(q)[1])
             ws == View(wsAt(q), old(q)[2])
  <2>1. /\ all.flat = Sorted(ReadyAt(entries, q)) /\ DOMAIN all = {"flat", "cursor"}
        /\ ws.flat = Sorted(wsAt(q)) /\ DOMAIN ws = {"flat", "cursor"}
    BY <1>4
  <2>2. r.buckets[q] = [all |-> all, ws |-> ws]
    BY <1>3
  <2> HIDE DEF all, ws
  <2>3. /\ DOMAIN r.buckets[q] = {"all", "ws"}
        /\ r.buckets[q].all = all /\ r.buckets[q].ws = ws
    BY <2>2
  <2> QED
    BY <2>1, <2>3
<1>6. Ready(r) = ready
  BY <1>2 DEF Ready
<1>7. \A a \in ready : entries[a].snap = m[a]
  BY DEF EntriesFollow
<1>8. \A q : ReadyAt(entries, q) = At(r, m, q) /\ wsAt(q) = WsAt(r, m, q)
  <2> TAKE q
  <2>1. ReadyAt(entries, q) = At(r, m, q)
    BY <1>6, <1>7 DEF ReadyAt, At
  <2>2. \A a \in ReadyAt(entries, q) : entries[a].snap = m[a]
    BY <1>7 DEF ReadyAt
  <2> QED
    BY <2>1, <2>2 DEF WsAt
<1>9. priorities = {m[a].priority : a \in ready}
  BY <1>7
<1>10. r.blocked = DOMAIN entries \ ready
  BY <1>2
<1>11. ShardShape(r)
  BY <1>2, <1>5 DEF ShardShape
<1>12. IndexesFollow(r, m)
  <2>1. /\ r.blocked = DOMAIN r.entries \ Ready(r)
        /\ DOMAIN r.buckets = {m[a].priority : a \in Ready(r)}
    BY <1>2, <1>6, <1>9, <1>10
  <2>2. \A q \in DOMAIN r.buckets :
           /\ r.buckets[q].all.flat = Sorted(At(r, m, q))
           /\ r.buckets[q].ws.flat = Sorted(WsAt(r, m, q))
    BY <1>2, <1>5, <1>8
  <2> QED
    BY <2>1, <2>2 DEF IndexesFollow
<1> QED
  BY <1>2, <1>11, <1>12 DEF Consistent, r

\* An entry keeps the snapshot it was made from.
LEMMA EntryFacts ==
  ASSUME NEW snap
  PROVE  Entry(snap).snap = snap
BY DEF Entry

\* Indexes that follow one shard and snapshots follow others that agree in
\* what the indexes say.
LEMMA SameIndexes ==
  ASSUME NEW m, NEW n, NEW shard, NEW s, IndexesFollow(shard, m),
         DOMAIN s.entries = DOMAIN shard.entries, s.blocked = shard.blocked,
         DOMAIN s.buckets = DOMAIN shard.buckets, Ready(s) = Ready(shard),
         \A q \in DOMAIN shard.buckets :
            /\ s.buckets[q].all.flat = shard.buckets[q].all.flat
            /\ s.buckets[q].ws.flat = shard.buckets[q].ws.flat,
         \A a \in Ready(shard) : /\ n[a].priority = m[a].priority
                                 /\ n[a].ws <=> m[a].ws
  PROVE  IndexesFollow(s, n)
<1>1. \A q : At(s, n, q) = At(shard, m, q)
  BY DEF At
<1>2. \A q : WsAt(s, n, q) = WsAt(shard, m, q)
  BY <1>1 DEF WsAt, At
<1>3. {n[a].priority : a \in Ready(s)} = {m[a].priority : a \in Ready(shard)}
  OBVIOUS
<1>4. /\ s.blocked = DOMAIN s.entries \ Ready(s)
      /\ DOMAIN s.buckets = {n[a].priority : a \in Ready(s)}
  BY <1>3 DEF IndexesFollow
<1>5. \A q \in DOMAIN s.buckets :
         /\ s.buckets[q].all.flat = Sorted(At(s, n, q))
         /\ s.buckets[q].ws.flat = Sorted(WsAt(s, n, q))
  BY <1>1, <1>2 DEF IndexesFollow
<1> QED
  BY <1>4, <1>5 DEF IndexesFollow

\* upsertEntryLocked.
LEMMA UpsertConsistent ==
  ASSUME NEW m, NEW shard, Consistent(shard, m), NEW a, NEW snap, snap.supports
  PROVE  Consistent(UpsertEntry(shard, a, snap), With(m, a, snap))
<1> DEFINE entries == With(shard.entries, a, Entry(snap))
           n == With(m, a, snap)
<1>1. /\ DOMAIN entries = DOMAIN shard.entries \cup {a} /\ DOMAIN n = DOMAIN m \cup {a}
      /\ entries[a] = Entry(snap) /\ n[a] = snap
      /\ \A b \in DOMAIN shard.entries \ {a} : entries[b] = shard.entries[b]
      /\ \A b \in DOMAIN m \ {a} : n[b] = m[b]
  BY DEF With
<1> HIDE DEF entries, n
<1>2. EntriesFollow(entries, n)
  <2>1. DOMAIN entries = Serving(n)
    BY <1>1 DEF Consistent, EntriesFollow, Serving
  <2>2. \A b \in DOMAIN entries : entries[b].snap = n[b]
    BY <1>1, EntryFacts DEF Consistent, EntriesFollow, Serving
  <2> QED
    BY <2>1, <2>2 DEF EntriesFollow
<1>3. CASE a \in DOMAIN shard.entries /\ SameIndexPosition(shard.entries[a], Entry(snap))
  <2> DEFINE s == [shard EXCEPT !.entries = entries]
  <2>1. UpsertEntry(shard, a, snap) = s
    BY <1>3 DEF UpsertEntry, entries
  <2>2. /\ DOMAIN s = {"entries", "buckets", "blocked"} /\ s.entries = entries
        /\ s.buckets = shard.buckets /\ s.blocked = shard.blocked
    BY DEF Consistent, ShardShape
  <2> HIDE DEF s
  <2>3. /\ entries[a].state = shard.entries[a].state
        /\ snap.priority = m[a].priority /\ snap.ws = m[a].ws
    BY <1>1, <1>3, EntryFacts DEF SameIndexPosition, Consistent, EntriesFollow
  <2>4. DOMAIN entries = DOMAIN shard.entries
    BY <1>1, <1>3
  <2>5. Ready(s) = Ready(shard)
    BY <1>1, <2>2, <2>3, <2>4 DEF Ready
  <2>6. \A b \in Ready(shard) : n[b].priority = m[b].priority /\ n[b].ws = m[b].ws
    BY <1>1, <2>3 DEF Ready, Consistent, EntriesFollow, Serving
  <2>9. IndexesFollow(s, n)
    BY <2>2, <2>4, <2>5, <2>6, SameIndexes DEF Consistent
  <2>10. ShardShape(s)
    BY <2>2 DEF ShardShape, Consistent
  <2> QED
    BY <1>2, <2>1, <2>2, <2>9, <2>10 DEF Consistent, n
<1>4. CASE ~(a \in DOMAIN shard.entries /\ SameIndexPosition(shard.entries[a], Entry(snap)))
  <2>1. UpsertEntry(shard, a, snap) = Rebuilt(entries, shard.buckets)
    BY <1>4 DEF UpsertEntry, entries
  <2> QED
    BY <1>2, <2>1, RebuiltConsistent DEF n
<1> QED
  BY <1>3, <1>4

\* removeEntryLocked, whether the snapshot goes or no longer serves the model.
LEMMA RemoveConsistent ==
  ASSUME NEW m, NEW shard, Consistent(shard, m), NEW a, NEW n,
         Serving(n) = Serving(m) \ {a}, \A b \in Serving(n) : n[b] = m[b]
  PROVE  Consistent(RemoveEntry(shard, a), n)
<1>1. CASE a \in DOMAIN shard.entries
  <2> DEFINE entries == Without(shard.entries, a)
  <2>1. /\ DOMAIN entries = DOMAIN shard.entries \ {a}
        /\ \A b \in DOMAIN entries : entries[b] = shard.entries[b]
    BY DEF Without
  <2>2. RemoveEntry(shard, a) = Rebuilt(entries, shard.buckets)
    BY <1>1 DEF RemoveEntry
  <2> HIDE DEF entries
  <2>3. EntriesFollow(entries, n)
    BY <2>1 DEF Consistent, EntriesFollow
  <2> QED
    BY <2>2, <2>3, RebuiltConsistent
<1>2. CASE a \notin DOMAIN shard.entries
  <2>1. RemoveEntry(shard, a) = shard
    BY <1>2 DEF RemoveEntry
  <2>2. EntriesFollow(shard.entries, n)
    BY <1>2 DEF Consistent, EntriesFollow
  <2>3. \A b \in Ready(shard) : n[b] = m[b]
    BY <2>2 DEF Ready, Consistent, EntriesFollow
  <2>6. IndexesFollow(shard, n)
    BY <2>3, SameIndexes DEF Consistent
  <2> QED
    BY <2>1, <2>2, <2>6 DEF Consistent
<1> QED
  BY <1>1, <1>2

\* promoteExpiredLocked and ensureModelLocked.
LEMMA EnsuredConsistent ==
  ASSUME IndexInv, NEW p \in Providers
  PROVE  Consistent(Ensured(p), metas[p])
<1>1. CASE shards[p] # None
  <2> DEFINE shard == shards[p]
             entries == [a \in DOMAIN shard.entries |->
                           IF a \in Expired(shard) THEN Entry(shard.entries[a].snap)
                           ELSE shard.entries[a]]
  <2>1. Consistent(shard, metas[p])
    BY <1>1 DEF IndexInv
  <2>2. EntriesFollow(entries, metas[p])
    BY <2>1, EntryFacts DEF Consistent, EntriesFollow
  <2>3. Promoted(shard) = shard \/ Promoted(shard) = Rebuilt(entries, shard.buckets)
    BY DEF Promoted
  <2>4. Ensured(p) = Promoted(shard)
    BY <1>1 DEF Ensured
  <2> HIDE DEF shard, entries
  <2> QED
    BY <2>1, <2>2, <2>3, <2>4, RebuiltConsistent
<1>2. CASE shards[p] = None
  <2> DEFINE entries == [a \in Serving(metas[p]) |-> Entry(metas[p][a])]
  <2>1. EntriesFollow(entries, metas[p])
    BY EntryFacts DEF EntriesFollow
  <2>2. Ensured(p) = Rebuilt(entries, NoEntries)
    BY <1>2 DEF Ensured, Serving
  <2> HIDE DEF entries
  <2> QED
    BY <2>1, <2>2, RebuiltConsistent
<1> QED
  BY <1>1, <1>2

\* A pick moves the cursor of one list.
LEMMA PickConsistent ==
  ASSUME NEW m, NEW shard, Consistent(shard, m), NEW q, NEW ws, NEW strat, NEW allowed
  PROVE  Consistent(PickAt(shard, q, ws, strat, allowed).shard, m)
<1> DEFINE s == PickAt(shard, q, ws, strat, allowed).shard
<1>1. PICK cursor :
         s = [shard EXCEPT !.buckets[q] =
                IF ws THEN [@ EXCEPT !.ws.cursor = cursor]
                ELSE [@ EXCEPT !.all.cursor = cursor]]
  BY DEF PickAt
<1> HIDE DEF s
<1>2. /\ DOMAIN s = {"entries", "buckets", "blocked"} /\ s.entries = shard.entries
      /\ s.blocked = shard.blocked /\ DOMAIN s.buckets = DOMAIN shard.buckets
      /\ \A r \in DOMAIN shard.buckets \ {q} : s.buckets[r] = shard.buckets[r]
      /\ q \in DOMAIN shard.buckets =>
            s.buckets[q] = IF ws THEN [shard.buckets[q] EXCEPT !.ws.cursor = cursor]
                           ELSE [shard.buckets[q] EXCEPT !.all.cursor = cursor]
  BY <1>1 DEF Consistent, ShardShape
<1>3. \A r \in DOMAIN shard.buckets :
         /\ DOMAIN s.buckets[r] = {"all", "ws"}
         /\ DOMAIN s.buckets[r].all = {"flat", "cursor"}
         /\ DOMAIN s.buckets[r].ws = {"flat", "cursor"}
         /\ s.buckets[r].all.flat = shard.buckets[r].all.flat
         /\ s.buckets[r].ws.flat = shard.buckets[r].ws.flat
  <2> TAKE r \in DOMAIN shard.buckets
  <2>1. /\ DOMAIN shard.buckets[r] = {"all", "ws"}
        /\ DOMAIN shard.buckets[r].all = {"flat", "cursor"}
        /\ DOMAIN shard.buckets[r].ws = {"flat", "cursor"}
    BY DEF Consistent, ShardShape
  <2>2. CASE r # q
    BY <1>2, <2>1, <2>2
  <2>3. CASE r = q /\ ws
    <3>1. s.buckets[r] = [shard.buckets[r] EXCEPT !.ws.cursor = cursor]
      BY <1>2, <2>3
    <3> QED
      BY <2>1, <3>1
  <2>4. CASE r = q /\ ~ws
    <3>1. s.buckets[r] = [shard.buckets[r] EXCEPT !.all.cursor = cursor]
      BY <1>2, <2>4
    <3> QED
      BY <2>1, <3>1
  <2> QED
    BY <2>2, <2>3, <2>4
<1>4. Ready(s) = Ready(shard)
  BY <1>2 DEF Ready
<1>5. ShardShape(s)
  BY <1>2, <1>3 DEF ShardShape
<1>6. IndexesFollow(s, m)
  BY <1>2, <1>3, <1>4, SameIndexes DEF Consistent
<1> QED
  BY <1>2, <1>5, <1>6 DEF Consistent, s

-----------------------------------------------------------------------------
(* The manager's calls and the picks *)

\* removeAuthLocked: the provider a credential leaves forgets it and drops it.
LEMMA LeavingConsistent ==
  ASSUME IndexInv, NEW a, NEW from
  PROVE  LET m == Forgotten(metas, from, a)
             s == Dropped(shards, from, a)
         IN  /\ DOMAIN m = Providers /\ DOMAIN s = Providers
             /\ \A p \in Providers : s[p] # None => Consistent(s[p], m[p])
<1> DEFINE m == Forgotten(metas, from, a)
           s == Dropped(shards, from, a)
<1>1. DOMAIN m = Providers /\ DOMAIN s = Providers
  BY DEF IndexInv, Forgotten, Dropped
<1>2. ASSUME NEW p \in Providers, s[p] # None
      PROVE  Consistent(s[p], m[p])
  <2>1. CASE from = None \/ p # from
    <3>1. s[p] = shards[p] /\ m[p] = metas[p]
      BY <2>1 DEF Dropped, Forgotten, IndexInv
    <3> QED
      BY <1>2, <3>1 DEF IndexInv
  <2>2. CASE from # None /\ p = from
    <3> DEFINE n == Without(metas[p], a)
    <3>1. m[p] = n
      BY <2>2 DEF Forgotten, IndexInv
    <3>2. shards[p] # None /\ s[p] = RemoveEntry(shards[p], a)
      BY <1>2, <2>2 DEF Dropped, IndexInv
    <3>3. Serving(n) = Serving(metas[p]) \ {a} /\ \A b \in Serving(n) : n[b] = metas[p][b]
      BY DEF Serving, Without
    <3>4. Consistent(shards[p], metas[p])
      BY <3>2 DEF IndexInv
    <3> HIDE DEF n, m, s
    <3>5. Consistent(RemoveEntry(shards[p], a), n)
      BY <3>3, <3>4, RemoveConsistent
    <3> QED
      BY <3>1, <3>2, <3>5
  <2> QED
    BY <2>1, <2>2
<1> QED
  BY <1>1, <1>2

\* upsertAuth: it leaves one provider and is new, or newer, in another.
LEMMA UpsertStep ==
  ASSUME IndexInv, NEW a, NEW p \in Providers, NEW snap, UpsertAuth(a, p, snap)
  PROVE  IndexInv'
<1> DEFINE m == Forgotten(metas, MovedFrom(a, p), a)
           s == Dropped(shards, MovedFrom(a, p), a)
           n == With(m[p], a, snap)
<1>1. /\ DOMAIN m = Providers /\ DOMAIN s = Providers
      /\ \A r \in Providers : s[r] # None => Consistent(s[r], m[r])
  BY LeavingConsistent
<1>2. /\ metas' = [m EXCEPT ![p] = With(@, a, snap)]
      /\ shards' = IF s[p] = None THEN s
                   ELSE [s EXCEPT ![p] = IF snap.supports THEN UpsertEntry(@, a, snap)
                                         ELSE RemoveEntry(@, a)]
  BY DEF UpsertAuth
<1>3. ~snap.supports => /\ Serving(n) = Serving(m[p]) \ {a}
                        /\ \A b \in Serving(n) : n[b] = m[p][b]
  BY DEF Serving, With
<1> HIDE DEF m, s
<1>4. DOMAIN metas' = Providers /\ DOMAIN shards' = Providers
  BY <1>1, <1>2
<1>5. ASSUME NEW r \in Providers, shards'[r] # None
      PROVE  Consistent(shards'[r], metas'[r])
  <2>1. CASE r # p
    <3>1. shards'[r] = s[r] /\ metas'[r] = m[r]
      BY <1>1, <1>2, <2>1
    <3> QED
      BY <1>1, <1>5, <3>1
  <2>2. CASE r = p
    <3>1. metas'[r] = n /\ s[p] # None
      BY <1>1, <1>2, <1>5, <2>2
    <3>2. Consistent(s[p], m[p])
      BY <1>1, <3>1
    <3>3. shards'[r] = IF snap.supports THEN UpsertEntry(s[p], a, snap)
                       ELSE RemoveEntry(s[p], a)
      BY <1>1, <1>2, <2>2, <3>1
    <3>4. CASE snap.supports
      BY <3>1, <3>2, <3>3, <3>4, UpsertConsistent
    <3>5. CASE ~snap.supports
      <4> HIDE DEF n
      <4>1. Consistent(RemoveEntry(s[p], a), n)
        BY <1>3, <3>2, <3>5, RemoveConsistent
      <4> QED
        BY <3>1, <3>3, <3>5, <4>1
    <3> QED
      BY <3>4, <3>5
  <2> QED
    BY <2>1, <2>2
<1> QED
  BY <1>4, <1>5 DEF IndexInv, Consistent, ShardShape, EntriesFollow, IndexesFollow,
     Ready, Serving, At, WsAt

\* pickSingle: one shard is brought up to date and its cursor moves.
LEMMA SingleStep ==
  ASSUME IndexInv, NEW p \in Providers, NEW preferWs, NEW allowed,
         PickSingle(p, preferWs, allowed)
  PROVE  IndexInv'
<1> DEFINE shard == SinglePick(p, preferWs, allowed).shard
<1>1. Consistent(shard, metas[p])
  <2>1. PICK q, ws : SinglePick(p, preferWs, allowed) =
                       PickAt(Ensured(p), q, ws, strategy, allowed)
    BY DEF SinglePick
  <2>2. Consistent(Ensured(p), metas[p])
    BY EnsuredConsistent
  <2>3. Consistent(PickAt(Ensured(p), q, ws, strategy, allowed).shard, metas[p])
    BY <2>2, PickConsistent
  <2> QED
    BY <2>1, <2>3
<1>2. shards' = [shards EXCEPT ![p] = shard] /\ metas' = metas
  BY DEF PickSingle
<1> HIDE DEF shard
<1>3. DOMAIN metas' = Providers /\ DOMAIN shards' = Providers
  BY <1>2 DEF IndexInv
<1>4. \A r \in Providers : shards'[r] # None => Consistent(shards'[r], metas'[r])
  BY <1>1, <1>2 DEF IndexInv
<1> QED
  BY <1>3, <1>4 DEF IndexInv, Consistent, ShardShape, EntriesFollow, IndexesFollow,
     Ready, Serving, At, WsAt

\* A pick that finds nothing brings the shards up to date.
LEMMA NothingStep ==
  ASSUME IndexInv, NEW providers, NEW allowed, PickNothing(providers, allowed)
  PROVE  IndexInv'
<1>1. /\ metas' = metas
      /\ shards' = [p \in Providers |-> IF p \in providers THEN Ensured(p) ELSE shards[p]]
  BY DEF PickNothing
<1>2. DOMAIN metas' = Providers /\ DOMAIN shards' = Providers
  BY <1>1 DEF IndexInv
<1>3. \A p \in Providers : shards'[p] # None => Consistent(shards'[p], metas'[p])
  BY <1>1, EnsuredConsistent DEF IndexInv
<1> QED
  BY <1>2, <1>3 DEF IndexInv, Consistent, ShardShape, EntriesFollow, IndexesFollow,
     Ready, Serving, At, WsAt

\* pickMixed: all of them are, and one cursor moves.
LEMMA MixedStep ==
  ASSUME IndexInv, NEW allowed, PickMixed(allowed)
  PROVE  IndexInv'
<1> DEFINE s == [p \in Providers |-> Ensured(p)]
           pick == MixedPick(s, allowed)
<1>1. shards' = [s EXCEPT ![pick.provider] = pick.shard] /\ metas' = metas
  BY DEF PickMixed
<1>2. PICK i, q : /\ pick.provider = Mixed[i]
                  /\ pick.shard = PickAt(s[Mixed[i]], q, FALSE, strategy, allowed).shard
  BY DEF MixedPick
<1> HIDE DEF pick
<1>3. DOMAIN metas' = Providers /\ DOMAIN shards' = Providers
  BY <1>1 DEF IndexInv
<1>4. ASSUME NEW p \in Providers
      PROVE  Consistent(shards'[p], metas'[p])
  <2>1. s[p] = Ensured(p) /\ Consistent(Ensured(p), metas[p])
    BY EnsuredConsistent
  <2>2. CASE p # Mixed[i]
    BY <1>1, <1>2, <2>1, <2>2
  <2>3. CASE p = Mixed[i]
    <3>1. shards'[p] = PickAt(Ensured(p), q, FALSE, strategy, allowed).shard
      BY <1>1, <1>2, <2>1, <2>3
    <3>2. Consistent(PickAt(Ensured(p), q, FALSE, strategy, allowed).shard, metas[p])
      BY <2>1, PickConsistent
    <3> QED
      BY <1>1, <3>1, <3>2
  <2> QED
    BY <2>2, <2>3
<1> QED
  BY <1>3, <1>4 DEF IndexInv, Consistent, ShardShape, EntriesFollow, IndexesFollow,
     Ready, Serving, At, WsAt

-----------------------------------------------------------------------------
(* The theorem *)

\* No step of the scheduler lets the indexes fall behind.
LEMMA IndexInvStep ==
  ASSUME IndexInv, [Next]_vars
  PROVE  IndexInv'
<1>1. ASSUME NEW a \in Auths, NEW p \in Providers, NEW snap \in Snapshots,
             UpsertAuth(a, p, snap)
      PROVE  IndexInv'
  BY <1>1, UpsertStep
<1>2. ASSUME NEW a \in Auths, RemoveAuth(a)
      PROVE  IndexInv'
  <2>1. /\ metas' = Forgotten(metas, owner[a], a) /\ shards' = Dropped(shards, owner[a], a)
    BY <1>2 DEF RemoveAuth
  <2>2. /\ DOMAIN metas' = Providers /\ DOMAIN shards' = Providers
        /\ \A p \in Providers : shards'[p] # None => Consistent(shards'[p], metas'[p])
    BY <2>1, LeavingConsistent
  <2> QED
    BY <2>2 DEF IndexInv, Consistent, ShardShape, EntriesFollow, IndexesFollow,
       Ready, Serving, At, WsAt
<1>3. CASE Rebuild
  BY <1>3 DEF Rebuild, IndexInv
<1>4. CASE UNCHANGED <<metas, shards>>
  <2>1. /\ DOMAIN metas' = Providers /\ DOMAIN shards' = Providers
        /\ \A p \in Providers : shards'[p] # None => Consistent(shards'[p], metas'[p])
    BY <1>4 DEF IndexInv
  <2> QED
    BY <2>1 DEF IndexInv, Consistent, ShardShape, EntriesFollow, IndexesFollow,
       Ready, Serving, At, WsAt
<1>5. ASSUME NEW s \in Strategies, SetSelector(s)
      PROVE  IndexInv'
  BY <1>4, <1>5 DEF SetSelector
<1>6. CASE Tick
  BY <1>4, <1>6 DEF Tick
<1>7. ASSUME NEW allowed \in SUBSET Auths, NEW p \in Providers,
             PickNothing({p}, allowed)
      PROVE  IndexInv'
  BY <1>7, NothingStep
<1>8. ASSUME NEW allowed \in SUBSET Auths, NEW p \in Providers, NEW preferWs \in BOOLEAN,
             PickSingle(p, preferWs, allowed)
      PROVE  IndexInv'
  BY <1>8, SingleStep
<1>9. ASSUME NEW allowed \in SUBSET Auths, PickNothing(Providers, allowed)
      PROVE  IndexInv'
  BY <1>9, NothingStep
<1>10. ASSUME NEW allowed \in SUBSET Auths, PickMixed(allowed)
       PROVE  IndexInv'
  BY <1>10, MixedStep
<1>11. CASE UNCHANGED vars
  BY <1>4, <1>11 DEF vars
<1> QED
  BY <1>1, <1>2, <1>3, <1>5, <1>6, <1>7, <1>8, <1>9, <1>10, <1>11 DEF Next

\* The indexes of every shard say what its entries say, and the entries what
\* the latest snapshots of the provider's credentials say, after any upserts,
\* removals, promotions and picks (scheduler.go:631-660, 730-775, 961-1020).
THEOREM IndexesFollowSnapshots == Spec => []IndexesConsistent
<1>1. Init => IndexInv
  BY DEF Init, IndexInv
<1>2. IndexInv /\ [Next]_vars => IndexInv'
  BY IndexInvStep
<1>3. IndexInv => IndexesConsistent
  <2> SUFFICES ASSUME IndexInv, NEW p \in Providers, shards[p] # None,
                      Consistent(shards[p], metas[p])
               PROVE  LET shard == shards[p]
                          ready == {a \in DOMAIN shard.entries :
                                       shard.entries[a].state = "ready"}
                      IN  /\ DOMAIN shard.entries =
                                 {a \in DOMAIN metas[p] : metas[p][a].supports}
                          /\ \A a \in DOMAIN shard.entries :
                                 shard.entries[a].snap = metas[p][a]
                          /\ shard.blocked = DOMAIN shard.entries \ ready
                          /\ DOMAIN shard.buckets = {metas[p][a].priority : a \in ready}
                          /\ \A q \in DOMAIN shard.buckets :
                                 LET at == {a \in ready : metas[p][a].priority = q}
                                 IN  /\ shard.buckets[q].all.flat = Sorted(at)
                                     /\ shard.buckets[q].ws.flat =
                                            Sorted({a \in at : metas[p][a].ws})
    BY DEF IndexesConsistent, IndexInv
  <2> QED
    BY DEF Consistent, EntriesFollow, IndexesFollow, Ready, Serving, At, WsAt
<1> QED
  BY <1>1, <1>2, <1>3, PTL DEF Spec

-----------------------------------------------------------------------------
(* Numbers, sets and sequences *)

\* A set of naturals has a least element.
LEMMA LeastOf ==
  ASSUME NEW S \in SUBSET Nat, S # {}
  PROVE  \E x \in S : \A y \in S : x <= y
<1>1. PICK x \in S : \A y \in S : ~(<<y, x>> \in OpToRel(<, Nat))
  BY NatLessThanWellFounded, WFMin
<1>2. \A y \in S : ~(y < x)
  BY <1>1 DEF OpToRel
<1> QED
  BY <1>2

\* The highest priority: the one with the fewest above it.
LEMMA HighestIsHighest ==
  ASSUME NEW S \in SUBSET Int, S # {}, IsFiniteSet(S)
  PROVE  Highest(S) \in S /\ \A r \in S : Highest(S) >= r
<1> DEFINE above(q) == {r \in S : r > q}
           sizes == {Cardinality(above(q)) : q \in S}
<1>1. \A q \in S : IsFiniteSet(above(q)) /\ Cardinality(above(q)) \in Nat
  BY FS_Subset, FS_CardinalityType
<1>2. sizes \in SUBSET Nat /\ sizes # {}
  BY <1>1
<1>3. PICK k \in sizes : \A l \in sizes : k <= l
  <2> HIDE DEF sizes
  <2> QED
    BY <1>2, LeastOf
<1>4. PICK q \in S : k = Cardinality(above(q))
  BY <1>3
<1>5. ASSUME NEW r \in S, r > q
      PROVE  FALSE
  <2>1. above(r) \in SUBSET above(q) /\ r \in above(q) /\ r \notin above(r)
    <3>1. q \in Int /\ r \in Int
      OBVIOUS
    <3>2. ASSUME NEW t \in above(r)
          PROVE  t \in above(q)
      <4>1. t \in S /\ t \in Int /\ t > q
        BY <1>5, <3>1
      <4> QED
        BY <4>1
    <3>3. r \in above(q) /\ r \notin above(r)
      BY <1>5, <3>1
    <3> QED
      BY <3>2, <3>3
  <2> HIDE DEF above
  <2>2. /\ Cardinality(above(r)) <= Cardinality(above(q))
        /\ Cardinality(above(q)) = Cardinality(above(r)) => above(q) = above(r)
    BY <1>1, <2>1, FS_Subset
  <2>3. Cardinality(above(q)) <= Cardinality(above(r))
    BY <1>3, <1>4
  <2>4. Cardinality(above(q)) = Cardinality(above(r))
    <3>1. Cardinality(above(q)) \in Nat /\ Cardinality(above(r)) \in Nat
      BY <1>1
    <3> QED
      BY <2>2, <2>3, <3>1
  <2> QED
    BY <2>1, <2>2, <2>4
<1>6. \A r \in S : q >= r
  BY <1>5
<1> QED
  BY <1>6 DEF Highest

\* A sorted list has the members of its set, each at its rank.
LEMMA SortedHas ==
  ASSUME NEW S \in SUBSET Nat, IsFiniteSet(S)
  PROVE  /\ Cardinality(S) \in Nat
         /\ Sorted(S) \in [1..Cardinality(S) -> S]
         /\ \A a \in S : \E i \in 1..Cardinality(S) : Sorted(S)[i] = a
         /\ \A i, j \in 1..Cardinality(S) : Sorted(S)[i] = Sorted(S)[j] => i = j
<1> DEFINE n == Cardinality(S)
           below(a) == {b \in S : b < a}
           rank == [a \in S |-> Cardinality(below(a)) + 1]
<1>1. n \in Nat
  BY FS_CardinalityType
<1>2. \A a \in S : /\ IsFiniteSet(below(a)) /\ Cardinality(below(a)) \in Nat
                   /\ Cardinality(below(a)) < n
  <2> TAKE a \in S
  <2>1. below(a) \in SUBSET S /\ below(a) # S
    OBVIOUS
  <2> HIDE DEF below
  <2>2. /\ IsFiniteSet(below(a)) /\ Cardinality(below(a)) <= n
        /\ n = Cardinality(below(a)) => S = below(a)
    BY <2>1, FS_Subset
  <2> QED
    BY <1>1, <2>1, <2>2, FS_CardinalityType
<1>3. \A a, b \in S : b < a => Cardinality(below(b)) < Cardinality(below(a))
  <2> TAKE a, b \in S
  <2> HAVE b < a
  <2>1. below(b) \in SUBSET below(a) /\ b \in below(a) /\ b \notin below(b)
    <3>1. a \in Nat /\ b \in Nat
      OBVIOUS
    <3>2. ASSUME NEW t \in below(b)
          PROVE  t \in below(a)
      <4>1. t \in S /\ t \in Nat /\ t < a
        BY <3>1
      <4> QED
        BY <4>1
    <3>3. b \in below(a) /\ b \notin below(b)
      BY <3>1
    <3> QED
      BY <3>2, <3>3
  <2> HIDE DEF below
  <2>2. /\ Cardinality(below(b)) <= Cardinality(below(a))
        /\ Cardinality(below(a)) = Cardinality(below(b)) => below(a) = below(b)
    BY <1>2, <2>1, FS_Subset
  <2> QED
    BY <1>2, <2>1, <2>2
<1> HIDE DEF below
<1>4. rank \in [S -> 1..n]
  BY <1>1, <1>2
<1>5. \A a, b \in S : rank[a] = rank[b] => a = b
  <2> TAKE a, b \in S
  <2> HAVE rank[a] = rank[b]
  <2>1. Cardinality(below(a)) = Cardinality(below(b))
    BY <1>2
  <2> QED
    BY <1>2, <1>3, <2>1
<1>6. IsFiniteSet(1..n) /\ Cardinality(1..n) = n
  BY <1>1, FS_Interval
<1>7. rank \in Injection(S, 1..n)
  BY <1>4, <1>5 DEF Injection, IsInjective
<1>8. rank \in Surjection(S, 1..n)
  <2> HIDE DEF rank
  <2> QED
    BY <1>6, <1>7, FS_Injection
<1>9. \A i \in 1..n : \E a \in S : Cardinality(below(a)) = i - 1
  <2> TAKE i \in 1..n
  <2>1. PICK a \in S : rank[a] = i
    BY <1>8 DEF Surjection
  <2> QED
    BY <1>2, <2>1
<1>10. \A i \in 1..n : Sorted(S)[i] \in S /\ Cardinality(below(Sorted(S)[i])) = i - 1
  <2> TAKE i \in 1..n
  <2>1. Sorted(S)[i] = CHOOSE a \in S : Cardinality(below(a)) = i - 1
    BY DEF Sorted, below
  <2> QED
    BY <1>9, <2>1
<1>11. Sorted(S) \in [1..n -> S]
  <2> DEFINE at(i) == CHOOSE a \in S : Cardinality(below(a)) = i - 1
  <2>1. Sorted(S) = [i \in 1..n |-> at(i)]
    BY DEF Sorted, below
  <2> HIDE DEF at
  <2>2. \A i \in 1..n : at(i) \in S
    BY <1>10, <2>1
  <2> QED
    BY <2>1, <2>2
<1>12. ASSUME NEW a \in S
       PROVE  \E i \in 1..n : Sorted(S)[i] = a
  <2>1. rank[a] \in 1..n /\ rank[a] - 1 = Cardinality(below(a))
    BY <1>2, <1>4
  <2>2. Sorted(S)[rank[a]] \in S /\ Cardinality(below(Sorted(S)[rank[a]])) = rank[a] - 1
    BY <1>10, <2>1
  <2>3. rank[Sorted(S)[rank[a]]] = rank[a]
    BY <1>2, <2>1, <2>2
  <2> QED
    BY <1>5, <2>1, <2>2, <2>3
<1>13. \A i, j \in 1..n : Sorted(S)[i] = Sorted(S)[j] => i = j
  BY <1>1, <1>10
<1> QED
  BY <1>1, <1>11, <1>12, <1>13

\* A remainder is what is left of whole rounds.
LEMMA RoundsLeave ==
  ASSUME NEW n \in Nat \ {0}, NEW k \in Nat, NEW r \in 0..(n - 1)
  PROVE  (n * k + r) % n = r
OBVIOUS

\* Every place of a circle is reached from every other in less than a round.
LEMMA CircleCovers ==
  ASSUME NEW n \in Nat \ {0}, NEW c \in Nat, NEW i \in 1..n
  PROVE  \E o \in 0..(n - 1) : (c + o) % n = i - 1
<1> DEFINE k == c \div n
           d == c % n
<1>1. k \in Nat /\ d \in 0..(n - 1) /\ c = n * k + d
  OBVIOUS
<1> HIDE DEF k, d
<1>2. CASE i - 1 >= d
  <2>1. c + (i - 1 - d) = n * k + (i - 1)
    BY <1>1
  <2>2. (n * k + (i - 1)) % n = i - 1
    BY <1>1, RoundsLeave
  <2>3. i - 1 - d \in 0..(n - 1)
    BY <1>1, <1>2
  <2> QED
    BY <2>1, <2>2, <2>3
<1>3. CASE i - 1 < d
  <2>1. n * (k + 1) = n * k + n
    BY <1>1
  <2>2. c + (i - 1 - d + n) = n * (k + 1) + (i - 1)
    BY <1>1, <2>1
  <2>3. (n * (k + 1) + (i - 1)) % n = i - 1
    BY <1>1, RoundsLeave
  <2>4. i - 1 - d + n \in 0..(n - 1)
    BY <1>1, <1>3
  <2> QED
    BY <2>2, <2>3, <2>4
<1> QED
  BY <1>1, <1>2, <1>3

-----------------------------------------------------------------------------
(* Picks from a list *)

\* The list of a view is the sorted list of a set.
Lists(view, S) == S \in SUBSET Nat /\ IsFiniteSet(S) /\ view.flat = Sorted(S)

LEMMA ListFacts ==
  ASSUME NEW view, NEW S, Lists(view, S)
  PROVE  /\ Len(view.flat) = Cardinality(S) /\ Len(view.flat) \in Nat
         /\ DOMAIN view.flat = 1..Len(view.flat)
         /\ \A i \in 1..Len(view.flat) : view.flat[i] \in S
         /\ \A a \in S : \E i \in 1..Len(view.flat) : view.flat[i] = a
         /\ \A i, j \in 1..Len(view.flat) : view.flat[i] = view.flat[j] => i = j
<1>1. /\ Cardinality(S) \in Nat /\ view.flat \in [1..Cardinality(S) -> S]
      /\ \A a \in S : \E i \in 1..Cardinality(S) : view.flat[i] = a
      /\ \A i, j \in 1..Cardinality(S) : view.flat[i] = view.flat[j] => i = j
  BY SortedHas DEF Lists
<1>2. view.flat \in Seq(S)
  BY <1>1, SeqDef
<1>3. Len(view.flat) \in Nat /\ DOMAIN view.flat = 1..Len(view.flat)
  BY <1>2, LenProperties
<1>4. Len(view.flat) = Cardinality(S)
  BY <1>1, <1>3
<1> QED
  BY <1>1, <1>3, <1>4

LEMMA HasMeans ==
  ASSUME NEW view, NEW S, Lists(view, S), NEW allowed
  PROVE  Has(view, allowed) <=> \E a \in S : a \in allowed
BY ListFacts DEF Has

\* fill first: the first allowed credential of the list.
LEMMA FirstFinds ==
  ASSUME NEW view, NEW S, Lists(view, S), NEW allowed, Has(view, allowed)
  PROVE  First(view, allowed) \in S /\ First(view, allowed) \in allowed
<1> DEFINE good == {i \in DOMAIN view.flat : view.flat[i] \in allowed}
<1>1. good \in SUBSET Nat /\ good # {}
  BY ListFacts DEF Has
<1> HIDE DEF good
<1>2. PICK i \in good : \A j \in good : i <= j
  BY <1>1, LeastOf
<1>3. i \in DOMAIN view.flat /\ view.flat[i] \in allowed
  BY DEF good
<1>4. \A j \in 1..(i - 1) : view.flat[j] \notin allowed
  <2> SUFFICES ASSUME NEW j \in 1..(i - 1), view.flat[j] \in allowed PROVE FALSE
    OBVIOUS
  <2>1. i \in 1..Len(view.flat) /\ Len(view.flat) \in Nat
    BY <1>3, ListFacts
  <2>2. j \in DOMAIN view.flat /\ ~(i <= j)
    BY <2>1, ListFacts
  <2> QED
    BY <1>2, <2>2 DEF good
<1> DEFINE good1(k) == /\ view.flat[k] \in allowed
                       /\ \A j \in 1..(k - 1) : view.flat[j] \notin allowed
           k0 == CHOOSE k \in DOMAIN view.flat : good1(k)
<1>5. k0 \in DOMAIN view.flat /\ good1(k0)
  BY <1>3, <1>4
<1>6. First(view, allowed) = view.flat[k0]
  BY DEF First
<1>7. view.flat[k0] \in allowed
  BY <1>5
<1> HIDE DEF k0
<1> QED
  BY <1>5, <1>6, <1>7, ListFacts

\* The search around a circle of n places, of which some are good.
LEMMA CircleFinds ==
  ASSUME NEW n \in Nat \ {0}, NEW c \in Nat, NEW good,
         \E i \in 1..n : i \in good
  PROVE  LET at(o) == (c + o) % n
             o == CHOOSE o \in 0..(n - 1) :
                    /\ at(o) + 1 \in good
                    /\ \A q \in 0..(o - 1) : at(q) + 1 \notin good
         IN  at(o) + 1 \in 1..n /\ at(o) + 1 \in good /\ o \in 0..(n - 1)
             /\ \A q \in 0..(o - 1) : at(q) + 1 \notin good
<1> DEFINE at(o) == (c + o) % n
           ok(o) == at(o) + 1 \in good /\ \A q \in 0..(o - 1) : at(q) + 1 \notin good
           T == {o \in 0..(n - 1) : at(o) + 1 \in good}
<1>1. T \in SUBSET Nat /\ T # {}
  <2>1. PICK i \in 1..n : i \in good
    OBVIOUS
  <2>2. PICK o \in 0..(n - 1) : at(o) = i - 1
    BY CircleCovers
  <2>3. at(o) + 1 = i
    BY <2>2
  <2> HIDE DEF at
  <2> QED
    BY <2>1, <2>3
<1>2. PICK o \in T : \A q \in T : o <= q
  <2> HIDE DEF T
  <2> QED
    BY <1>1, LeastOf
<1>3. \A r \in 0..(n - 1) : at(r) + 1 \in 1..n
  <2> TAKE r \in 0..(n - 1)
  <2>1. at(r) \in 0..(n - 1)
    OBVIOUS
  <2> HIDE DEF at
  <2> QED
    BY <2>1
<1> HIDE DEF at
<1>4. ok(o)
  <2> SUFFICES ASSUME NEW q \in 0..(o - 1), at(q) + 1 \in good PROVE FALSE
    OBVIOUS
  <2>1. q \in T /\ ~(o <= q)
    OBVIOUS
  <2> QED
    BY <1>2, <2>1
<1> DEFINE o0 == CHOOSE r \in 0..(n - 1) : ok(r)
<1>5. o0 \in 0..(n - 1) /\ ok(o0)
  <2> HIDE DEF ok
  <2> QED
    BY <1>4
<1>6. at(o0) + 1 \in 1..n
  BY <1>3, <1>5
<1> QED
  BY <1>5, <1>6 DEF at

LEMMA RotateFinds ==
  ASSUME NEW view, NEW S, Lists(view, S), view.cursor \in Nat, NEW allowed,
         Has(view, allowed)
  PROVE  /\ Rotate(view, allowed).auth \in S /\ Rotate(view, allowed).auth \in allowed
         /\ Rotate(view, allowed).cursor \in Nat
<1> DEFINE n == Len(view.flat)
           c == view.cursor
           good == {i \in DOMAIN view.flat : view.flat[i] \in allowed}
           at(o) == (c + o) % n
           o1 == CHOOSE o \in 0..(n - 1) :
                   /\ at(o) + 1 \in good
                   /\ \A q \in 0..(o - 1) : at(q) + 1 \notin good
           o2 == CHOOSE o \in 0..(n - 1) :
                   /\ view.flat[at(o) + 1] \in allowed
                   /\ \A q \in 0..(o - 1) : view.flat[at(q) + 1] \notin allowed
<1>1. /\ n \in Nat \ {0} /\ DOMAIN view.flat = 1..n
      /\ \E i \in 1..n : i \in good
  BY ListFacts DEF Has
<1>2. \A o \in 0..(n - 1) : at(o) + 1 \in 1..n
  <2> TAKE o \in 0..(n - 1)
  <2>1. at(o) \in 0..(n - 1)
    BY <1>1
  <2> HIDE DEF at, n
  <2> QED
    BY <1>1, <2>1
<1> HIDE DEF at, n, good
<1>3. \A o \in 0..(n - 1) : at(o) + 1 \in good <=> view.flat[at(o) + 1] \in allowed
  BY <1>1, <1>2 DEF good
<1>4. \A o \in 0..(n - 1) : \A q \in 0..(o - 1) : q \in 0..(n - 1)
  BY <1>1
<1>5. o1 = o2
  <2> DEFINE ok1(o) == /\ at(o) + 1 \in good
                       /\ \A q \in 0..(o - 1) : at(q) + 1 \notin good
             ok2(o) == /\ view.flat[at(o) + 1] \in allowed
                       /\ \A q \in 0..(o - 1) : view.flat[at(q) + 1] \notin allowed
  <2>1. \A o \in 0..(n - 1) : ok1(o) <=> ok2(o)
    BY <1>3, <1>4
  <2> HIDE DEF ok1, ok2
  <2>2. (CHOOSE o \in 0..(n - 1) : ok1(o)) = (CHOOSE o \in 0..(n - 1) : ok2(o))
    BY <2>1
  <2> QED
    BY <2>2 DEF ok1, ok2
<1>6. at(o1) + 1 \in 1..n /\ at(o1) + 1 \in good
  <2> HIDE DEF c
  <2>1. c \in Nat
    BY DEF c
  <2> QED
    BY <1>1, <2>1, CircleFinds DEF at
<1>7. Rotate(view, allowed) = [auth |-> view.flat[at(o2) + 1], cursor |-> at(o2) + 1]
  BY DEF Rotate, at, n
<1> HIDE DEF o1, o2
<1>8. at(o2) + 1 \in 1..n /\ view.flat[at(o2) + 1] \in allowed
  BY <1>5, <1>6 DEF good
<1> QED
  BY <1>1, <1>7, <1>8, ListFacts DEF n

-----------------------------------------------------------------------------
(* Entries follow the clock, and cursors are numbers *)

\* A ready credential's hold is over by t; a blocked one is looked at again at
\* the end of its hold or of its quota window.
Timed(entries, t) ==
    \A a \in DOMAIN entries :
        IF entries[a].state = "ready" THEN entries[a].snap.next <= t
        ELSE /\ entries[a].retry \in {entries[a].snap.next, entries[a].snap.recover}
             /\ entries[a].retry # 0

Cursors(buckets) ==
    \A q \in DOMAIN buckets :
        buckets[q].all.cursor \in Nat /\ buckets[q].ws.cursor \in Nat

Known(m) == DOMAIN m \subseteq Auths /\ \A a \in DOMAIN m : m[a] \in Snapshots

ShardInv(shard, m, t) ==
    Consistent(shard, m) /\ Timed(shard.entries, t) /\ Cursors(shard.buckets)

PicksInv ==
    /\ IndexInv /\ now \in Nat /\ mixedCursor \in Nat
    /\ \A p \in Providers :
          /\ Known(metas[p])
          /\ shards[p] # None => ShardInv(shards[p], metas[p], now)

LEMMA EntryTimes ==
  ASSUME SchedulerSound, now \in Nat, NEW snap \in Snapshots
  PROVE  IF Entry(snap).state = "ready" THEN snap.next <= now
         ELSE /\ snap.next > now /\ Entry(snap).retry # 0
              /\ Entry(snap).retry \in {snap.next, snap.recover}
<1>1. snap.next \in Nat /\ snap.recover \in Nat
  BY DEF SchedulerSound
<1>2. CASE snap.next <= now
  BY <1>2 DEF Entry
<1>3. CASE ~(snap.next <= now)
  <2>1. /\ Entry(snap).state # "ready"
        /\ Entry(snap).retry = IF snap.recover > now THEN snap.recover ELSE snap.next
    BY <1>3 DEF Entry
  <2> QED
    BY <1>1, <1>3, <2>1
<1> QED
  BY <1>2, <1>3

\* Rebuilt indexes keep a cursor, within the new list.
LEMMA RebuiltCursors ==
  ASSUME SchedulerSound, NEW entries, DOMAIN entries \subseteq Auths,
         NEW buckets, Cursors(buckets)
  PROVE  /\ Rebuilt(entries, buckets).entries = entries
         /\ Cursors(Rebuilt(entries, buckets).buckets)
<1> DEFINE priorities == {entries[a].snap.priority :
                             a \in {b \in DOMAIN entries : entries[b].state = "ready"}}
           wsAt(q) == {a \in ReadyAt(entries, q) : entries[a].snap.ws}
           old(q) == IF q \in DOMAIN buckets
                     THEN <<buckets[q].all.cursor, buckets[q].ws.cursor>>
                     ELSE <<0, 0>>
           new == [q \in priorities |->
                     [all |-> View(ReadyAt(entries, q), old(q)[1]),
                      ws  |-> View(wsAt(q), old(q)[2])]]
<1>1. /\ Rebuilt(entries, buckets).entries = entries
      /\ Rebuilt(entries, buckets).buckets = new
  BY DEF Rebuilt
<1>2. \A S, c : S \in SUBSET Auths /\ c \in Nat => View(S, c).cursor \in Nat
  <2> SUFFICES ASSUME NEW S \in SUBSET Auths, NEW c \in Nat
               PROVE  View(S, c).cursor \in Nat
    OBVIOUS
  <2>1. View(S, c).cursor = IF S = {} THEN 0 ELSE c % Cardinality(S)
    BY DEF View
  <2>2. IsFiniteSet(S) /\ Cardinality(S) \in Nat
    BY FS_Subset, FS_CardinalityType DEF SchedulerSound
  <2>3. S # {} => Cardinality(S) # 0
    BY <2>2, FS_EmptySet
  <2> QED
    BY <2>1, <2>2, <2>3
<1>3. \A q : /\ ReadyAt(entries, q) \in SUBSET Auths /\ wsAt(q) \in SUBSET Auths
             /\ old(q)[1] \in Nat /\ old(q)[2] \in Nat
  BY DEF ReadyAt, Cursors
<1> HIDE DEF wsAt, old
<1>4. DOMAIN new = priorities
      /\ \A q \in priorities :
            new[q].all.cursor \in Nat /\ new[q].ws.cursor \in Nat
  <2>1. DOMAIN new = priorities
    OBVIOUS
  <2>2. ASSUME NEW q \in priorities
        PROVE  new[q].all.cursor \in Nat /\ new[q].ws.cursor \in Nat
    <3>1. /\ new[q].all = View(ReadyAt(entries, q), old(q)[1])
          /\ new[q].ws = View(wsAt(q), old(q)[2])
      BY <2>2
    <3> QED
      BY <1>2, <1>3, <3>1
  <2> QED
    BY <2>1, <2>2
<1> HIDE DEF new, priorities
<1> QED
  BY <1>1, <1>4 DEF Cursors

LEMMA RebuiltInv ==
  ASSUME SchedulerSound, NEW m, Known(m), NEW entries, EntriesFollow(entries, m),
         Timed(entries, now), NEW buckets, Cursors(buckets)
  PROVE  ShardInv(Rebuilt(entries, buckets), m, now)
<1>1. DOMAIN entries \subseteq Auths
  BY DEF EntriesFollow, Serving, Known
<1>2. /\ Rebuilt(entries, buckets).entries = entries
      /\ Cursors(Rebuilt(entries, buckets).buckets)
  BY <1>1, RebuiltCursors
<1>3. Consistent(Rebuilt(entries, buckets), m)
  BY RebuiltConsistent
<1> QED
  BY <1>2, <1>3 DEF ShardInv

LEMMA UpsertInv ==
  ASSUME SchedulerSound, now \in Nat, NEW m, Known(m), NEW shard,
         ShardInv(shard, m, now), NEW a \in Auths, NEW snap \in Snapshots, snap.supports
  PROVE  ShardInv(UpsertEntry(shard, a, snap), With(m, a, snap), now)
<1> DEFINE entries == With(shard.entries, a, Entry(snap))
           n == With(m, a, snap)
           s == UpsertEntry(shard, a, snap)
<1>1. Consistent(s, n)
  BY UpsertConsistent DEF ShardInv
<1>2. Timed(entries, now)
  <2>1. /\ DOMAIN entries = DOMAIN shard.entries \cup {a} /\ entries[a] = Entry(snap)
        /\ \A b \in DOMAIN shard.entries \ {a} : entries[b] = shard.entries[b]
    BY DEF With
  <2> HIDE DEF entries
  <2>2. Entry(snap).snap = snap
    BY EntryFacts
  <2>3. IF entries[a].state = "ready" THEN entries[a].snap.next <= now
        ELSE /\ entries[a].retry \in {entries[a].snap.next, entries[a].snap.recover}
             /\ entries[a].retry # 0
    BY <2>1, <2>2, EntryTimes
  <2> QED
    BY <2>1, <2>3 DEF ShardInv, Timed
<1>3. /\ DOMAIN n \subseteq Auths /\ Known(n)
  BY DEF With, Known
<1>4. DOMAIN entries \subseteq Auths
  BY DEF With, ShardInv, Consistent, EntriesFollow, Serving, Known
<1> HIDE DEF entries, n
<1>5. CASE a \in DOMAIN shard.entries /\ SameIndexPosition(shard.entries[a], Entry(snap))
  <2>1. s = [shard EXCEPT !.entries = entries]
    BY <1>5 DEF UpsertEntry, entries
  <2>2. s.entries = entries /\ s.buckets = shard.buckets
    BY <2>1 DEF ShardInv, Consistent, ShardShape
  <2> HIDE DEF s
  <2> QED
    BY <1>1, <1>2, <2>2 DEF ShardInv, n, s
<1>6. CASE ~(a \in DOMAIN shard.entries /\ SameIndexPosition(shard.entries[a], Entry(snap)))
  <2>1. s = Rebuilt(entries, shard.buckets)
    BY <1>6 DEF UpsertEntry, entries
  <2>2. s.entries = entries /\ Cursors(s.buckets)
    BY <1>4, <2>1, RebuiltCursors DEF ShardInv
  <2> HIDE DEF s
  <2> QED
    BY <1>1, <1>2, <2>2 DEF ShardInv, n, s
<1> QED
  BY <1>5, <1>6

LEMMA RemoveInv ==
  ASSUME SchedulerSound, NEW m, Known(m), NEW shard, ShardInv(shard, m, now), NEW a,
         NEW n, Serving(n) = Serving(m) \ {a}, \A b \in Serving(n) : n[b] = m[b]
  PROVE  ShardInv(RemoveEntry(shard, a), n, now)
<1> DEFINE entries == Without(shard.entries, a)
           s == RemoveEntry(shard, a)
<1>1. Consistent(s, n)
  <2> HIDE DEF s
  <2>1. Consistent(shard, m)
    BY DEF ShardInv
  <2> QED
    BY <2>1, RemoveConsistent DEF s
<1>2. CASE a \in DOMAIN shard.entries
  <2>1. /\ DOMAIN entries \subseteq DOMAIN shard.entries
        /\ \A b \in DOMAIN entries : entries[b] = shard.entries[b]
    BY DEF Without
  <2>2. s = Rebuilt(entries, shard.buckets)
    BY <1>2 DEF RemoveEntry
  <2> HIDE DEF entries, s
  <2>3. Timed(entries, now)
    BY <2>1 DEF ShardInv, Timed
  <2>4. DOMAIN entries \subseteq Auths
    BY <2>1 DEF ShardInv, Consistent, EntriesFollow, Serving, Known
  <2>5. s.entries = entries /\ Cursors(s.buckets)
    BY <2>2, <2>4, RebuiltCursors DEF ShardInv
  <2> QED
    BY <1>1, <2>3, <2>5 DEF ShardInv, s
<1>3. CASE a \notin DOMAIN shard.entries
  <2>1. s = shard
    BY <1>3 DEF RemoveEntry
  <2> QED
    BY <1>1, <2>1 DEF ShardInv
<1> QED
  BY <1>2, <1>3

\* A shard that is up to date: nothing blocked is due.
LEMMA EnsuredInv ==
  ASSUME SchedulerSound, PicksInv, NEW p \in Providers
  PROVE  /\ ShardInv(Ensured(p), metas[p], now)
         /\ \A a \in DOMAIN Ensured(p).entries :
               LET e == Ensured(p).entries[a]
               IN  e.state # "ready" => e.snap.next > now \/ e.retry > now
<1>1. /\ Known(metas[p]) /\ now \in Nat
      /\ shards[p] # None => ShardInv(shards[p], metas[p], now)
  BY DEF PicksInv
<1>2. CASE shards[p] # None
  <2> DEFINE shard == shards[p]
             entries == [a \in DOMAIN shard.entries |->
                           IF a \in Expired(shard) THEN Entry(shard.entries[a].snap)
                           ELSE shard.entries[a]]
  <2>1. /\ Ensured(p) = Promoted(shard)
        /\ Promoted(shard) = IF Expired(shard) = {} THEN shard
                             ELSE Rebuilt(entries, shard.buckets)
    BY <1>2 DEF Ensured, Promoted
  <2>2. ShardInv(shard, metas[p], now)
    BY <1>1, <1>2
  <2>3. /\ DOMAIN entries = DOMAIN shard.entries
        /\ \A a \in DOMAIN shard.entries :
              entries[a] = IF a \in Expired(shard) THEN Entry(shard.entries[a].snap)
                           ELSE shard.entries[a]
    OBVIOUS
  <2> HIDE DEF shard, entries
  <2>4. \A a \in DOMAIN shard.entries : shard.entries[a].snap \in Snapshots
    BY <1>1, <2>2 DEF ShardInv, Consistent, EntriesFollow, Serving, Known
  <2>5. \A a \in DOMAIN entries : entries[a].snap = shard.entries[a].snap
    BY <2>3, EntryFacts
  <2>6. EntriesFollow(entries, metas[p])
    BY <2>2, <2>3, <2>5 DEF ShardInv, Consistent, EntriesFollow
  <2>7. ASSUME NEW a \in DOMAIN entries
        PROVE  IF entries[a].state = "ready" THEN entries[a].snap.next <= now
               ELSE /\ entries[a].retry \in {entries[a].snap.next, entries[a].snap.recover}
                    /\ entries[a].retry # 0
                    /\ entries[a].snap.next > now \/ entries[a].retry > now
    <3>1. CASE a \in Expired(shard)
      <4>1. entries[a] = Entry(shard.entries[a].snap)
        BY <2>3, <3>1
      <4> QED
        BY <1>1, <2>3, <2>4, <2>5, <4>1, EntryTimes
    <3>2. CASE a \notin Expired(shard)
      <4>1. entries[a] = shard.entries[a] /\ a \in DOMAIN shard.entries
        BY <2>3, <3>2
      <4>2. IF entries[a].state = "ready" THEN entries[a].snap.next <= now
            ELSE /\ entries[a].retry \in {entries[a].snap.next, entries[a].snap.recover}
                 /\ entries[a].retry # 0
        BY <2>2, <4>1 DEF ShardInv, Timed
      <4>3. entries[a].state # "ready" => a \in shard.blocked
        BY <2>2, <4>1 DEF ShardInv, Consistent, IndexesFollow, Ready
      <4>4. entries[a].state # "ready" => ~(entries[a].retry <= now)
        BY <3>2, <4>1, <4>2, <4>3 DEF Expired
      <4>5. entries[a].snap.next \in Nat /\ entries[a].snap.recover \in Nat
        BY <2>4, <4>1 DEF SchedulerSound
      <4> QED
        BY <1>1, <4>2, <4>4, <4>5
    <3> QED
      BY <3>1, <3>2
  <2>8. Timed(entries, now)
    BY <2>7 DEF Timed
  <2>9. CASE Expired(shard) = {}
    <3>1. Ensured(p) = shard
      BY <2>1, <2>9
    <3>2. \A a \in DOMAIN shard.entries : entries[a] = shard.entries[a]
      BY <2>3, <2>9
    <3> QED
      BY <2>2, <2>3, <2>7, <3>1, <3>2
  <2>10. CASE Expired(shard) # {}
    <3>1. Ensured(p) = Rebuilt(entries, shard.buckets)
      BY <2>1, <2>10
    <3>2. ShardInv(Ensured(p), metas[p], now)
      BY <1>1, <2>2, <2>6, <2>8, <3>1, RebuiltInv DEF ShardInv
    <3>3. Ensured(p).entries = entries
      BY <3>1 DEF Rebuilt
    <3> QED
      BY <2>7, <3>2, <3>3
  <2> QED
    BY <2>9, <2>10
<1>3. CASE shards[p] = None
  <2> DEFINE entries == [a \in Serving(metas[p]) |-> Entry(metas[p][a])]
  <2>1. EntriesFollow(entries, metas[p])
    BY EntryFacts DEF EntriesFollow
  <2>2. Ensured(p) = Rebuilt(entries, NoEntries)
    BY <1>3 DEF Ensured, Serving
  <2>3. ASSUME NEW a \in DOMAIN entries
        PROVE  IF entries[a].state = "ready" THEN entries[a].snap.next <= now
               ELSE /\ entries[a].retry \in {entries[a].snap.next, entries[a].snap.recover}
                    /\ entries[a].retry # 0 /\ entries[a].snap.next > now
    <3>1. entries[a] = Entry(metas[p][a]) /\ metas[p][a] \in Snapshots
      BY <1>1 DEF Serving, Known
    <3> HIDE DEF entries
    <3> QED
      BY <1>1, <3>1, EntryFacts, EntryTimes
  <2> HIDE DEF entries
  <2>4. Timed(entries, now)
    BY <2>3 DEF Timed
  <2>5. Cursors(NoEntries)
    BY DEF Cursors, NoEntries
  <2>6. ShardInv(Ensured(p), metas[p], now)
    BY <1>1, <2>1, <2>2, <2>4, <2>5, RebuiltInv
  <2>7. Ensured(p).entries = entries
    BY <2>2 DEF Rebuilt
  <2> QED
    BY <2>3, <2>6, <2>7
<1> QED
  BY <1>2, <1>3

-----------------------------------------------------------------------------
(* Picks from a shard *)

\* What a shard offers at priority q, in all or with websockets.
Offered(shard, m, q, ws) == IF ws THEN WsAt(shard, m, q) ELSE At(shard, m, q)
Offering(shard, q, ws) == IF ws THEN shard.buckets[q].ws ELSE shard.buckets[q].all

LEMMA ViewLists ==
  ASSUME SchedulerSound, NEW m, Known(m), NEW t, NEW shard, ShardInv(shard, m, t),
         NEW q \in DOMAIN shard.buckets, NEW ws
  PROVE  /\ Lists(Offering(shard, q, ws), Offered(shard, m, q, ws))
         /\ Offering(shard, q, ws).cursor \in Nat
<1>1. At(shard, m, q) \in SUBSET Auths /\ WsAt(shard, m, q) \in SUBSET Auths
  BY DEF At, WsAt, Ready, ShardInv, Consistent, EntriesFollow, Serving, Known
<1>2. \A S \in SUBSET Auths : S \in SUBSET Nat /\ IsFiniteSet(S)
  BY FS_Subset DEF SchedulerSound
<1>3. /\ shard.buckets[q].all.flat = Sorted(At(shard, m, q))
      /\ shard.buckets[q].ws.flat = Sorted(WsAt(shard, m, q))
      /\ shard.buckets[q].all.cursor \in Nat /\ shard.buckets[q].ws.cursor \in Nat
  BY DEF ShardInv, Consistent, IndexesFollow, Cursors
<1> QED
  BY <1>1, <1>2, <1>3 DEF Lists, Offered, Offering

\* The priorities with a candidate are those of the allowed ready credentials.
LEMMA CandidatesAre ==
  ASSUME SchedulerSound, NEW m, Known(m), NEW t, NEW shard, ShardInv(shard, m, t),
         NEW allowed
  PROVE  /\ Candidates(shard, allowed) =
               {m[a].priority : a \in {b \in Ready(shard) : b \in allowed}}
         /\ Candidates(shard, allowed) \in SUBSET Int
         /\ IsFiniteSet(Candidates(shard, allowed))
<1> DEFINE allowedReady == {b \in Ready(shard) : b \in allowed}
<1>1. DOMAIN shard.buckets = {m[a].priority : a \in Ready(shard)}
  BY DEF ShardInv, Consistent, IndexesFollow
<1>2. \A q \in DOMAIN shard.buckets :
         Has(shard.buckets[q].all, allowed) <=> \E a \in At(shard, m, q) : a \in allowed
  <2> TAKE q \in DOMAIN shard.buckets
  <2>1. Lists(shard.buckets[q].all, At(shard, m, q))
    <3>1. Lists(Offering(shard, q, FALSE), Offered(shard, m, q, FALSE))
      BY ViewLists
    <3> QED
      BY <3>1 DEF Offering, Offered
  <2> QED
    BY <2>1, HasMeans
<1>3. Candidates(shard, allowed) = {m[a].priority : a \in allowedReady}
  BY <1>1, <1>2 DEF Candidates, At
<1>4. \A a \in Ready(shard) : a \in Auths /\ m[a].priority \in Int
  BY DEF Ready, ShardInv, Consistent, EntriesFollow, Serving, Known, SchedulerSound
<1>5. IsFiniteSet(allowedReady)
  BY <1>4, FS_Subset DEF SchedulerSound
<1>6. IsFiniteSet({m[a].priority : a \in allowedReady})
  <2> DEFINE T == {m[a].priority : a \in allowedReady}
             f == [a \in allowedReady |-> m[a].priority]
  <2>1. f \in Surjection(allowedReady, T)
    BY DEF Surjection
  <2> HIDE DEF f, T, allowedReady
  <2>2. IsFiniteSet(T)
    BY <1>5, <2>1, FS_Surjection
  <2> QED
    BY <2>2 DEF T
<1> QED
  BY <1>3, <1>4, <1>6

\* A pick at a priority with a candidate finds one of them.
LEMMA PickAtFinds ==
  ASSUME SchedulerSound, NEW m, Known(m), NEW shard, ShardInv(shard, m, now),
         NEW q \in DOMAIN shard.buckets, NEW ws \in BOOLEAN, NEW strat, NEW allowed,
         Has(Offering(shard, q, ws), allowed)
  PROVE  LET pick == PickAt(shard, q, ws, strat, allowed)
         IN  /\ pick.auth \in Ready(shard) /\ pick.auth \in allowed
             /\ m[pick.auth].priority = q
             /\ ShardInv(pick.shard, m, now)
<1> DEFINE view == Offering(shard, q, ws)
           c == IF strat = "fill-first"
                THEN [auth |-> First(view, allowed), cursor |-> view.cursor]
                ELSE Rotate(view, allowed)
           s == [shard EXCEPT !.buckets[q] =
                   IF ws THEN [@ EXCEPT !.ws.cursor = c.cursor]
                   ELSE [@ EXCEPT !.all.cursor = c.cursor]]
           pick == PickAt(shard, q, ws, strat, allowed)
<1>1. Lists(view, Offered(shard, m, q, ws)) /\ view.cursor \in Nat
  BY ViewLists
<1>2. /\ c.auth \in Offered(shard, m, q, ws) /\ c.auth \in allowed /\ c.cursor \in Nat
  <2> HIDE DEF view
  <2>1. CASE strat = "fill-first"
    <3>1. First(view, allowed) \in Offered(shard, m, q, ws) /\ First(view, allowed) \in allowed
      BY <1>1, FirstFinds DEF view
    <3> QED
      BY <1>1, <2>1, <3>1
  <2>2. CASE strat # "fill-first"
    <3>1. /\ Rotate(view, allowed).auth \in Offered(shard, m, q, ws)
          /\ Rotate(view, allowed).auth \in allowed
          /\ Rotate(view, allowed).cursor \in Nat
      BY <1>1, RotateFinds DEF view
    <3> QED
      BY <2>2, <3>1
  <2> QED
    BY <2>1, <2>2
<1>3. pick = [auth |-> c.auth, shard |-> s]
  BY DEF PickAt, Offering
<1>4. pick.auth = c.auth /\ pick.shard = s
  BY <1>3
<1>5. c.auth \in Ready(shard) /\ m[c.auth].priority = q
  BY <1>2 DEF Offered, At, WsAt
<1>6. Consistent(pick.shard, m)
  BY PickConsistent DEF ShardInv
<1> HIDE DEF c, view, pick
<1>7. /\ s.entries = shard.entries /\ DOMAIN s.buckets = DOMAIN shard.buckets
      /\ \A r \in DOMAIN shard.buckets \ {q} : s.buckets[r] = shard.buckets[r]
      /\ s.buckets[q] = IF ws THEN [shard.buckets[q] EXCEPT !.ws.cursor = c.cursor]
                        ELSE [shard.buckets[q] EXCEPT !.all.cursor = c.cursor]
  BY DEF ShardInv, Consistent, ShardShape
<1> HIDE DEF s
<1>8. s.buckets[q].all.cursor \in Nat /\ s.buckets[q].ws.cursor \in Nat
  <2>1. /\ DOMAIN shard.buckets[q] = {"all", "ws"}
        /\ DOMAIN shard.buckets[q].all = {"flat", "cursor"}
        /\ DOMAIN shard.buckets[q].ws = {"flat", "cursor"}
        /\ shard.buckets[q].all.cursor \in Nat /\ shard.buckets[q].ws.cursor \in Nat
    BY DEF ShardInv, Consistent, ShardShape, Cursors
  <2>2. CASE ws
    <3>1. s.buckets[q] = [shard.buckets[q] EXCEPT !.ws.cursor = c.cursor]
      BY <1>7, <2>2
    <3> QED
      BY <1>2, <2>1, <3>1
  <2>3. CASE ~ws
    <3>1. s.buckets[q] = [shard.buckets[q] EXCEPT !.all.cursor = c.cursor]
      BY <1>7, <2>3
    <3> QED
      BY <1>2, <2>1, <3>1
  <2> QED
    BY <2>2, <2>3
<1>9. Cursors(s.buckets) /\ Timed(s.entries, now)
  BY <1>7, <1>8 DEF ShardInv, Cursors
<1>10. ShardInv(pick.shard, m, now)
  BY <1>4, <1>6, <1>9 DEF ShardInv
<1> QED
  BY <1>2, <1>4, <1>5, <1>10 DEF pick

\* pickSingle with a candidate: the best of the allowed ready credentials,
\* among those with websockets if they are preferred and there are any.
LEMMA SingleFinds ==
  ASSUME SchedulerSound, PicksInv, NEW p \in Providers, NEW preferWs \in BOOLEAN,
         NEW allowed, Candidates(Ensured(p), allowed) # {}
  PROVE  LET pick == SinglePick(p, preferWs, allowed)
         IN  /\ ShardInv(pick.shard, metas[p], now)
             /\ pick.auth \in Ready(Ensured(p)) /\ pick.auth \in allowed
             /\ ~preferWs => \A b \in Ready(Ensured(p)) :
                   b \in allowed =>
                      metas[p][pick.auth].priority >= metas[p][b].priority
<1> DEFINE shard == Ensured(p)
           ws == preferWs /\ WsCandidates(shard, allowed) # {}
           set == IF ws THEN WsCandidates(shard, allowed) ELSE Candidates(shard, allowed)
           q == Highest(set)
           pick == SinglePick(p, preferWs, allowed)
<1>1. ShardInv(shard, metas[p], now) /\ Known(metas[p])
  BY EnsuredInv DEF PicksInv
<1>2. pick = PickAt(shard, q, ws, strategy, allowed)
  BY DEF SinglePick
<1> HIDE DEF shard, pick
<1>3. /\ Candidates(shard, allowed) =
            {metas[p][a].priority : a \in {b \in Ready(shard) : b \in allowed}}
      /\ Candidates(shard, allowed) \in SUBSET Int
      /\ IsFiniteSet(Candidates(shard, allowed))
  BY <1>1, CandidatesAre
<1>4. WsCandidates(shard, allowed) \subseteq Candidates(shard, allowed)
  <2> SUFFICES ASSUME NEW r \in DOMAIN shard.buckets, Has(shard.buckets[r].ws, allowed)
               PROVE  Has(shard.buckets[r].all, allowed)
    BY DEF WsCandidates, Candidates
  <2>1. /\ Lists(Offering(shard, r, TRUE), Offered(shard, metas[p], r, TRUE))
        /\ Lists(Offering(shard, r, FALSE), Offered(shard, metas[p], r, FALSE))
    BY <1>1, ViewLists
  <2>2. /\ Lists(shard.buckets[r].ws, WsAt(shard, metas[p], r))
        /\ Lists(shard.buckets[r].all, At(shard, metas[p], r))
    BY <2>1 DEF Offering, Offered
  <2> QED
    BY <2>2, HasMeans DEF WsAt
<1>5. set \in SUBSET Int /\ set # {} /\ IsFiniteSet(set)
  <2>1. Candidates(shard, allowed) # {}
    BY DEF shard
  <2>2. IsFiniteSet(WsCandidates(shard, allowed))
    BY <1>3, <1>4, FS_Subset
  <2> QED
    BY <1>3, <1>4, <2>1, <2>2
<1>6. q \in set /\ \A r \in set : q >= r
  <2> HIDE DEF set
  <2> QED
    BY <1>5, HighestIsHighest
<1>7. q \in DOMAIN shard.buckets /\ Has(Offering(shard, q, ws), allowed)
  <2> HIDE DEF q
  <2> QED
    BY <1>6 DEF WsCandidates, Candidates, Offering
<1>8. ~preferWs => q \in Candidates(shard, allowed)
                   /\ \A r \in Candidates(shard, allowed) : q >= r
  BY <1>6
<1> HIDE DEF q, ws
<1>9. ws \in BOOLEAN
  BY DEF ws
<1>10. /\ pick.auth \in Ready(shard) /\ pick.auth \in allowed
       /\ metas[p][pick.auth].priority = q
       /\ ShardInv(pick.shard, metas[p], now)
  BY <1>1, <1>2, <1>7, <1>9, PickAtFinds
<1>11. ~preferWs => \A b \in Ready(shard) :
                       b \in allowed => metas[p][pick.auth].priority >= metas[p][b].priority
  BY <1>3, <1>8, <1>10
<1> QED
  BY <1>10, <1>11 DEF shard, pick

-----------------------------------------------------------------------------
(* Picks over several providers *)

LEMMA ProvidersFinite == ASSUME SchedulerSound PROVE IsFiniteSet(Providers)
<1>1. Len(Mixed) \in Nat /\ Mixed \in [1..Len(Mixed) -> Providers]
  BY LenProperties DEF SchedulerSound
<1>2. Mixed \in Surjection(1..Len(Mixed), Providers)
  BY <1>1 DEF SchedulerSound, Surjection
<1> QED
  BY <1>1, <1>2, FS_NatSurjection DEF ExistsSurjection

\* The segments of the wheel are finite, and the first starts at nought.
LEMMA SegmentFacts ==
  ASSUME SchedulerSound, NEW s, NEW q, \A p \in Providers : Weight(s, q, p) \in Nat,
         NEW i \in 1..(Len(Mixed) + 1)
  PROVE  /\ SegmentStart(s, q, i) \in Nat /\ IsFiniteSet(Before(s, q, i))
         /\ i = 1 => SegmentStart(s, q, i) = 0
<1>1. Len(Mixed) \in Nat /\ \A j \in 1..Len(Mixed) : Mixed[j] \in Providers
  BY LenProperties DEF SchedulerSound
<1> DEFINE part(j) == {j} \X (1..Weight(s, q, Mixed[j]))
           parts == {part(j) : j \in 1..(i - 1)}
<1>2. \A j \in 1..(i - 1) : IsFiniteSet(part(j))
  <2> TAKE j \in 1..(i - 1)
  <2>1. Weight(s, q, Mixed[j]) \in Nat
    BY <1>1
  <2>2. IsFiniteSet({j})
    BY FS_Singleton
  <2>3. IsFiniteSet(1..Weight(s, q, Mixed[j]))
    <3>1. 1 \in Int /\ Weight(s, q, Mixed[j]) \in Int
      BY <2>1
    <3> HIDE DEF part
    <3> QED
      BY <3>1, FS_Interval
  <2> QED
    BY <2>2, <2>3, FS_Product
<1>3. IsFiniteSet(parts)
  <2> DEFINE f == [j \in 1..(i - 1) |-> part(j)]
  <2>1. f \in Surjection(1..(i - 1), parts)
    <3> HIDE DEF part
    <3> QED
      BY DEF Surjection
  <2>2. IsFiniteSet(1..(i - 1))
    BY <1>1, FS_Interval
  <2> HIDE DEF f, parts
  <2> QED
    BY <2>1, <2>2, FS_Surjection
<1>4. IsFiniteSet(UNION parts)
  <2>1. \A T \in parts : IsFiniteSet(T)
    BY <1>2
  <2> HIDE DEF parts
  <2> QED
    BY <1>3, <2>1, FS_UNION
<1>5. Before(s, q, i) = UNION parts
  BY DEF Before
<1>6. i = 1 => Before(s, q, i) = {}
  <2> HAVE i = 1
  <2>1. 1..(i - 1) = {}
    OBVIOUS
  <2> QED
    BY <1>5, <2>1
<1> HIDE DEF parts
<1> QED
  BY <1>4, <1>5, <1>6, FS_CardinalityType, FS_EmptySet DEF SegmentStart

\* Somebody has the turn at every slot of the wheel.
LEMMA StartFinds ==
  ASSUME SchedulerSound, NEW s, NEW q, \A p \in Providers : Weight(s, q, p) \in Nat,
         NEW slot \in Nat, slot < TotalWeight(s, q)
  PROVE  /\ StartProvider(s, q, slot) \in 1..Len(Mixed)
         /\ slot >= SegmentStart(s, q, StartProvider(s, q, slot))
         /\ slot < SegmentStart(s, q, StartProvider(s, q, slot) + 1)
<1> DEFINE n == Len(Mixed)
           T == {i \in 1..n : slot < SegmentStart(s, q, i + 1)}
           ok(i) == slot >= SegmentStart(s, q, i) /\ slot < SegmentStart(s, q, i + 1)
<1>1. n \in Nat /\ DOMAIN Mixed = 1..n
  BY LenProperties DEF SchedulerSound
<1>2. \A i \in 1..(n + 1) : /\ SegmentStart(s, q, i) \in Nat
                            /\ i = 1 => SegmentStart(s, q, i) = 0
  BY SegmentFacts
<1>3. slot < SegmentStart(s, q, n + 1)
  BY DEF TotalWeight
<1> HIDE DEF n
<1>4. n # 0
  BY <1>1, <1>2, <1>3
<1>5. T \in SUBSET Nat /\ T # {}
  <2>1. n \in T
    BY <1>1, <1>3, <1>4
  <2> QED
    BY <1>1, <2>1
<1>6. PICK i \in T : \A j \in T : i <= j
  <2> HIDE DEF T
  <2> QED
    BY <1>5, LeastOf
<1>7. i \in 1..n /\ ok(i)
  <2>1. i \in 1..n /\ slot < SegmentStart(s, q, i + 1)
    OBVIOUS
  <2>2. CASE i = 1
    BY <1>1, <1>2, <1>4, <2>1, <2>2
  <2>3. CASE i # 1
    <3>1. i - 1 \in 1..n /\ i - 1 \notin T /\ (i - 1) + 1 = i
      BY <1>1, <1>6, <2>1, <2>3
    <3>2. ~(slot < SegmentStart(s, q, i))
      BY <3>1
    <3>3. SegmentStart(s, q, i) \in Nat
      BY <1>1, <1>2, <2>1
    <3> QED
      BY <2>1, <3>2, <3>3
  <2> QED
    BY <2>2, <2>3
<1>8. StartProvider(s, q, slot) = CHOOSE k \in 1..n : ok(k)
  BY <1>1 DEF StartProvider
<1> HIDE DEF ok, T
<1>9. (CHOOSE k \in 1..n : ok(k)) \in 1..n /\ ok(CHOOSE k \in 1..n : ok(k))
  BY <1>7
<1>10. StartProvider(s, q, slot) \in 1..n /\ ok(StartProvider(s, q, slot))
  BY <1>8, <1>9
<1> QED
  BY <1>10 DEF n, ok

\* From any provider on, one that may serve is found.
LEMMA NextFinds ==
  ASSUME SchedulerSound, NEW s, NEW q, NEW allowed, NEW from \in 1..Len(Mixed),
         \E i \in 1..Len(Mixed) : Serves(s, q, i, allowed)
  PROVE  /\ NextProvider(s, q, from, allowed) \in 1..Len(Mixed)
         /\ Serves(s, q, NextProvider(s, q, from, allowed), allowed)
<1> DEFINE n == Len(Mixed)
           c == from - 1
           good == {i \in 1..n : Serves(s, q, i, allowed)}
           at(o) == (c + o) % n
           ok1(o) == at(o) + 1 \in good /\ \A r \in 0..(o - 1) : at(r) + 1 \notin good
           ok2(o) == /\ Serves(s, q, at(o) + 1, allowed)
                     /\ \A r \in 0..(o - 1) : ~Serves(s, q, at(r) + 1, allowed)
           o1 == CHOOSE o \in 0..(n - 1) : ok1(o)
           o2 == CHOOSE o \in 0..(n - 1) : ok2(o)
<1>1. n \in Nat \ {0} /\ c \in Nat
  BY LenProperties DEF SchedulerSound
<1>2. \E i \in 1..n : i \in good
  OBVIOUS
<1>3. NextProvider(s, q, from, allowed) = at(o2) + 1
  BY DEF NextProvider
<1> HIDE DEF n, c
<1>4. \A o \in 0..(n - 1) : at(o) + 1 \in 1..n
  <2> TAKE o \in 0..(n - 1)
  <2>1. at(o) \in 0..(n - 1)
    BY <1>1
  <2> HIDE DEF at
  <2> QED
    BY <1>1, <2>1
<1>5. at(o1) + 1 \in 1..n /\ at(o1) + 1 \in good
  <2> HIDE DEF good
  <2> QED
    BY <1>1, <1>2, CircleFinds
<1> HIDE DEF at
<1>6. \A o \in 0..(n - 1) : at(o) + 1 \in good <=> Serves(s, q, at(o) + 1, allowed)
  BY <1>4
<1>7. \A o \in 0..(n - 1) : \A r \in 0..(o - 1) : r \in 0..(n - 1)
  BY <1>1
<1>8. \A o \in 0..(n - 1) : ok1(o) <=> ok2(o)
  <2> HIDE DEF good
  <2> QED
    BY <1>6, <1>7
<1>9. o1 = o2
  <2> HIDE DEF ok1, ok2
  <2> QED
    BY <1>8
<1> HIDE DEF o1, o2
<1>10. at(o2) + 1 \in 1..n /\ Serves(s, q, at(o2) + 1, allowed)
  BY <1>5, <1>9
<1> QED
  BY <1>3, <1>10 DEF n

\* pickMixed with a candidate: the best of the allowed ready credentials of
\* all providers.
LEMMA MixedFinds ==
  ASSUME SchedulerSound, PicksInv, NEW allowed,
         \E p \in Providers : Candidates(Ensured(p), allowed) # {}
  PROVE  LET pick == MixedPick([p \in Providers |-> Ensured(p)], allowed)
             r == pick.provider
         IN  /\ r \in Providers /\ ShardInv(pick.shard, metas[r], now)
             /\ pick.cursor \in Nat
             /\ pick.auth \in Ready(Ensured(r)) /\ pick.auth \in allowed
             /\ \A p \in Providers : \A b \in Ready(Ensured(p)) :
                   b \in allowed =>
                      metas[r][pick.auth].priority >= metas[p][b].priority
<1> DEFINE s == [p \in Providers |-> Ensured(p)]
           all == UNION {Candidates(s[p], allowed) : p \in Providers}
           q == Best(s, allowed)
           slot == mixedCursor % TotalWeight(s, q)
           start == StartProvider(s, q, slot)
           from == IF strategy = "fill-first" THEN 1 ELSE start
           i == NextProvider(s, q, from, allowed)
           at == PickAt(s[Mixed[i]], q, FALSE, strategy, allowed)
           pick == MixedPick(s, allowed)
<1>1. \A p \in Providers : /\ s[p] = Ensured(p) /\ Known(metas[p])
                           /\ ShardInv(s[p], metas[p], now)
  BY EnsuredInv DEF PicksInv
<1>2. pick = [auth |-> at.auth, provider |-> Mixed[i], shard |-> at.shard,
              cursor |-> IF strategy = "fill-first" THEN mixedCursor
                         ELSE Slot(s, q, i, start, slot) + 1]
  BY DEF MixedPick
<1>3. q = Highest(all)
  BY DEF Best
<1> HIDE DEF s, pick
<1>4. \A p \in Providers :
         /\ Candidates(s[p], allowed) =
               {metas[p][a].priority : a \in {b \in Ready(s[p]) : b \in allowed}}
         /\ Candidates(s[p], allowed) \in SUBSET Int
         /\ IsFiniteSet(Candidates(s[p], allowed))
  BY <1>1, CandidatesAre
<1>5. all \in SUBSET Int /\ all # {} /\ IsFiniteSet(all)
  <2> DEFINE sets == {Candidates(s[p], allowed) : p \in Providers}
             f == [p \in Providers |-> Candidates(s[p], allowed)]
  <2>1. f \in Surjection(Providers, sets)
    BY DEF Surjection
  <2>2. \A T \in sets : IsFiniteSet(T)
    BY <1>4
  <2>3. all \in SUBSET Int
    BY <1>4
  <2>4. all # {}
    BY <1>1
  <2> HIDE DEF f
  <2>5. IsFiniteSet(sets)
    <3> HIDE DEF sets
    <3> QED
      BY <2>1, ProvidersFinite, FS_Surjection
  <2>6. IsFiniteSet(all)
    <3>1. IsFiniteSet(UNION sets)
      <4> HIDE DEF sets
      <4> QED
        BY <2>2, <2>5, FS_UNION
    <3> QED
      BY <3>1
  <2> QED
    BY <2>3, <2>4, <2>6
<1>6. q \in all /\ \A r \in all : q >= r
  <2> HIDE DEF all, q
  <2> QED
    BY <1>3, <1>5, HighestIsHighest
<1> HIDE DEF q
<1>7. PICK p0 \in Providers : q \in Candidates(s[p0], allowed)
  BY <1>6
<1>8. Len(Mixed) \in Nat /\ DOMAIN Mixed = 1..Len(Mixed)
      /\ \A j \in 1..Len(Mixed) : Mixed[j] \in Providers
  BY LenProperties DEF SchedulerSound
<1>9. PICK i0 \in 1..Len(Mixed) : Mixed[i0] = p0
  BY <1>8 DEF SchedulerSound
<1>10. Serves(s, q, i0, allowed)
  BY <1>7, <1>9 DEF Serves
<1>11. \A p \in Providers : /\ Weight(s, q, p) \in Nat
                            /\ q \in Candidates(s[p], allowed) => Weight(s, q, p) # 0
  <2> TAKE p \in Providers
  <2>1. CASE q \in DOMAIN s[p].buckets
    <3> DEFINE view == s[p].buckets[q].all
    <3>1. Lists(Offering(s[p], q, FALSE), Offered(s[p], metas[p], q, FALSE))
      BY <1>1, <2>1, ViewLists
    <3>2. Lists(view, At(s[p], metas[p], q))
      BY <3>1 DEF Offering, Offered
    <3>3. Weight(s, q, p) = Len(view.flat)
      BY <2>1 DEF Weight
    <3>4. q \in Candidates(s[p], allowed) => Has(view, allowed)
      BY DEF Candidates
    <3> HIDE DEF view
    <3>5. Len(view.flat) \in Nat /\ (Has(view, allowed) => Len(view.flat) # 0)
      BY <3>2, ListFacts DEF Has
    <3> QED
      BY <3>3, <3>4, <3>5
  <2>2. CASE q \notin DOMAIN s[p].buckets
    BY <2>2 DEF Weight, Candidates
  <2> QED
    BY <2>1, <2>2
<1>12. TotalWeight(s, q) \in Nat /\ TotalWeight(s, q) # 0
  <2>1. /\ TotalWeight(s, q) \in Nat /\ IsFiniteSet(Before(s, q, Len(Mixed) + 1))
        /\ TotalWeight(s, q) = Cardinality(Before(s, q, Len(Mixed) + 1))
    BY <1>8, <1>11, SegmentFacts DEF TotalWeight, SegmentStart
  <2>2. <<i0, 1>> \in Before(s, q, Len(Mixed) + 1)
    <3>1. Weight(s, q, Mixed[i0]) \in Nat /\ Weight(s, q, Mixed[i0]) # 0
      BY <1>7, <1>9, <1>11
    <3>2. i0 \in 1..(Len(Mixed) + 1 - 1) /\ 1 \in 1..Weight(s, q, Mixed[i0])
      BY <1>8, <3>1
    <3> QED
      BY <3>2 DEF Before
  <2> QED
    BY <2>1, <2>2, FS_EmptySet
<1>13. slot \in Nat /\ slot < TotalWeight(s, q)
  <2>1. mixedCursor \in Nat
    BY DEF PicksInv
  <2> QED
    BY <1>12, <2>1
<1> HIDE DEF slot
<1>14. start \in 1..Len(Mixed)
  BY <1>11, <1>13, StartFinds
<1> HIDE DEF start
<1>15. from \in 1..Len(Mixed)
  BY <1>8, <1>14
<1> HIDE DEF from
<1>16. i \in 1..Len(Mixed) /\ Serves(s, q, i, allowed)
  BY <1>10, <1>15, NextFinds
<1> HIDE DEF i
<1> DEFINE r == Mixed[i]
<1>17. r \in Providers /\ q \in Candidates(s[r], allowed)
  BY <1>8, <1>16 DEF Serves
<1>18. q \in DOMAIN s[r].buckets /\ Has(Offering(s[r], q, FALSE), allowed)
  BY <1>17 DEF Candidates, Offering
<1>19. /\ at.auth \in Ready(s[r]) /\ at.auth \in allowed
       /\ metas[r][at.auth].priority = q /\ ShardInv(at.shard, metas[r], now)
  BY <1>1, <1>17, <1>18, PickAtFinds
<1> HIDE DEF at
<1>20. pick.auth = at.auth /\ pick.provider = r /\ pick.shard = at.shard
       /\ pick.cursor = IF strategy = "fill-first" THEN mixedCursor
                        ELSE Slot(s, q, i, start, slot) + 1
  BY <1>2
<1>21. pick.cursor \in Nat
  <2>1. SegmentStart(s, q, i) \in Nat
    BY <1>8, <1>11, <1>16, SegmentFacts
  <2>2. mixedCursor \in Nat
    BY DEF PicksInv
  <2> QED
    BY <1>13, <1>20, <2>1, <2>2 DEF Slot
<1>22. \A p \in Providers : \A b \in Ready(s[p]) :
          b \in allowed => metas[r][at.auth].priority >= metas[p][b].priority
  <2> TAKE p \in Providers
  <2> TAKE b \in Ready(s[p])
  <2> HAVE b \in allowed
  <2>1. metas[p][b].priority \in Candidates(s[p], allowed)
    BY <1>4
  <2>2. metas[p][b].priority \in all
    BY <2>1
  <2> HIDE DEF all, r
  <2> QED
    BY <1>6, <1>19, <2>2
<1> HIDE DEF r
<1>23. \A p \in Providers : s[p] = Ensured(p)
  BY DEF s
<1> QED
  BY <1>17, <1>19, <1>20, <1>21, <1>22, <1>23 DEF pick, s

-----------------------------------------------------------------------------
(* The second theorem *)

\* What is to be shown of a step.
LEMMA PicksInvNext ==
  ASSUME IndexInv', now' \in Nat, mixedCursor' \in Nat,
         \A p \in Providers :
            /\ Known(metas'[p])
            /\ shards'[p] # None => ShardInv(shards'[p], metas'[p], now')
  PROVE  PicksInv'
BY DEF PicksInv, Known, ShardInv, Consistent, ShardShape, EntriesFollow,
   IndexesFollow, Ready, Serving, At, WsAt, Timed, Cursors

\* removeAuthLocked: the provider a credential leaves.
LEMMA LeavingInv ==
  ASSUME SchedulerSound, PicksInv, NEW a, NEW from, NEW p \in Providers
  PROVE  LET m == Forgotten(metas, from, a)
             s == Dropped(shards, from, a)
         IN  /\ Known(m[p])
             /\ s[p] # None => ShardInv(s[p], m[p], now)
<1> DEFINE m == Forgotten(metas, from, a)
           s == Dropped(shards, from, a)
<1>1. /\ Known(metas[p])
      /\ shards[p] # None => ShardInv(shards[p], metas[p], now)
      /\ DOMAIN metas = Providers /\ DOMAIN shards = Providers
  BY DEF PicksInv, IndexInv
<1>2. CASE from = None \/ p # from
  <2>1. s[p] = shards[p] /\ m[p] = metas[p]
    BY <1>1, <1>2 DEF Dropped, Forgotten
  <2> QED
    BY <1>1, <2>1
<1>3. CASE from # None /\ p = from
  <2> DEFINE n == Without(metas[p], a)
  <2>1. m[p] = n
    BY <1>1, <1>3 DEF Forgotten
  <2>2. Serving(n) = Serving(metas[p]) \ {a} /\ \A b \in Serving(n) : n[b] = metas[p][b]
    BY DEF Serving, Without
  <2>3. Known(n)
    BY <1>1 DEF Known, Without
  <2>4. s[p] # None => (shards[p] # None /\ s[p] = RemoveEntry(shards[p], a))
    BY <1>1, <1>3 DEF Dropped
  <2> HIDE DEF n, m, s
  <2>5. ASSUME s[p] # None
        PROVE  ShardInv(s[p], n, now)
    <3>1. ShardInv(shards[p], metas[p], now)
      BY <1>1, <2>4, <2>5
    <3>2. ShardInv(RemoveEntry(shards[p], a), n, now)
      BY <1>1, <2>2, <3>1, RemoveInv
    <3> QED
      BY <2>4, <2>5, <3>2
  <2> QED
    BY <2>1, <2>3, <2>5 DEF m, s
<1> QED
  BY <1>2, <1>3

\* upsertAuth.
LEMMA UpsertPicks ==
  ASSUME SchedulerSound, PicksInv, NEW a \in Auths, NEW p \in Providers,
         NEW snap \in Snapshots, UpsertAuth(a, p, snap)
  PROVE  PicksInv'
<1> DEFINE m == Forgotten(metas, MovedFrom(a, p), a)
           s == Dropped(shards, MovedFrom(a, p), a)
           n == With(m[p], a, snap)
<1>1. \A r \in Providers : /\ Known(m[r])
                           /\ s[r] # None => ShardInv(s[r], m[r], now)
  BY LeavingInv
<1>2. /\ metas' = [m EXCEPT ![p] = With(@, a, snap)]
      /\ shards' = IF s[p] = None THEN s
                   ELSE [s EXCEPT ![p] = IF snap.supports THEN UpsertEntry(@, a, snap)
                                         ELSE RemoveEntry(@, a)]
      /\ now' = now /\ mixedCursor' = mixedCursor
  BY DEF UpsertAuth
<1>3. DOMAIN m = Providers /\ DOMAIN s = Providers
  BY DEF PicksInv, IndexInv, Forgotten, Dropped
<1>4. ~snap.supports => /\ Serving(n) = Serving(m[p]) \ {a}
                        /\ \A b \in Serving(n) : n[b] = m[p][b]
  BY DEF Serving, With
<1>5. Known(n)
  BY <1>1 DEF Known, With
<1>6. now \in Nat /\ mixedCursor \in Nat /\ IndexInv'
  BY UpsertStep DEF PicksInv
<1> HIDE DEF m, s
<1>7. ASSUME NEW r \in Providers
      PROVE  /\ Known(metas'[r])
             /\ shards'[r] # None => ShardInv(shards'[r], metas'[r], now')
  <2>1. CASE r # p
    <3>1. shards'[r] = s[r] /\ metas'[r] = m[r]
      BY <1>2, <1>3, <2>1
    <3> QED
      BY <1>1, <1>2, <3>1
  <2>2. CASE r = p
    <3>1. metas'[r] = n
      BY <1>2, <1>3, <2>2
    <3> HIDE DEF n
    <3>2. ASSUME shards'[r] # None
          PROVE  ShardInv(shards'[r], n, now)
      <4>1. /\ s[p] # None
            /\ shards'[r] = IF snap.supports THEN UpsertEntry(s[p], a, snap)
                            ELSE RemoveEntry(s[p], a)
        BY <1>2, <1>3, <2>2, <3>2
      <4>2. ShardInv(s[p], m[p], now) /\ Known(m[p])
        BY <1>1, <4>1
      <4>3. CASE snap.supports
        <5>1. ShardInv(UpsertEntry(s[p], a, snap), With(m[p], a, snap), now)
          BY <1>6, <4>2, <4>3, UpsertInv
        <5> QED
          BY <4>1, <4>3, <5>1 DEF n
      <4>4. CASE ~snap.supports
        <5>1. ShardInv(RemoveEntry(s[p], a), n, now)
          BY <1>4, <4>2, <4>4, RemoveInv
        <5> QED
          BY <4>1, <4>4, <5>1
      <4> QED
        BY <4>3, <4>4
    <3> QED
      BY <1>2, <1>5, <3>1, <3>2
  <2> QED
    BY <2>1, <2>2
<1> QED
  BY <1>2, <1>6, <1>7, PicksInvNext

LEMMA PicksInvStep ==
  ASSUME SchedulerSound, PicksInv, [Next]_vars
  PROVE  PicksInv'
<1>1. IndexInv' /\ now \in Nat /\ mixedCursor \in Nat
      /\ DOMAIN metas = Providers /\ DOMAIN shards = Providers
      /\ \A p \in Providers : /\ Known(metas[p])
                              /\ shards[p] # None => ShardInv(shards[p], metas[p], now)
  BY IndexInvStep DEF PicksInv, IndexInv
<1>2. ASSUME NEW a \in Auths, NEW p \in Providers, NEW snap \in Snapshots,
             UpsertAuth(a, p, snap)
      PROVE  PicksInv'
  BY <1>2, UpsertPicks
<1>3. ASSUME NEW a \in Auths, RemoveAuth(a)
      PROVE  PicksInv'
  <2>1. /\ metas' = Forgotten(metas, owner[a], a) /\ shards' = Dropped(shards, owner[a], a)
        /\ now' = now /\ mixedCursor' = mixedCursor
    BY <1>3 DEF RemoveAuth
  <2>2. \A p \in Providers : /\ Known(metas'[p])
                             /\ shards'[p] # None => ShardInv(shards'[p], metas'[p], now')
    BY <2>1, LeavingInv
  <2> QED
    BY <1>1, <2>1, <2>2, PicksInvNext
<1>4. CASE Rebuild
  <2>1. /\ metas' = metas /\ now' = now /\ mixedCursor' = 0
        /\ \A p \in Providers : shards'[p] = None
    BY <1>4 DEF Rebuild
  <2> QED
    BY <1>1, <2>1, PicksInvNext
<1>5. ASSUME NEW s \in Strategies, SetSelector(s)
      PROVE  PicksInv'
  <2>1. metas' = metas /\ shards' = shards /\ now' = now /\ mixedCursor' = 0
    BY <1>5 DEF SetSelector
  <2> QED
    BY <1>1, <2>1, PicksInvNext
<1>6. CASE Tick
  <2>1. metas' = metas /\ shards' = shards /\ now' = now + 1 /\ mixedCursor' = mixedCursor
    BY <1>6 DEF Tick
  <2>2. ASSUME NEW p \in Providers, shards[p] # None
        PROVE  ShardInv(shards[p], metas[p], now + 1)
    <3>1. ShardInv(shards[p], metas[p], now) /\ Known(metas[p])
      BY <1>1, <2>2
    <3>2. \A a \in DOMAIN shards[p].entries : shards[p].entries[a].snap.next \in Nat
      BY <3>1 DEF ShardInv, Consistent, EntriesFollow, Serving, Known, SchedulerSound
    <3>3. Timed(shards[p].entries, now + 1)
      BY <1>1, <3>1, <3>2 DEF ShardInv, Timed
    <3> QED
      BY <3>1, <3>3 DEF ShardInv
  <2> QED
    BY <1>1, <2>1, <2>2, PicksInvNext
<1>7. ASSUME NEW allowed, NEW providers, PickNothing(providers, allowed)
      PROVE  PicksInv'
  <2>1. /\ metas' = metas /\ now' = now /\ mixedCursor' = mixedCursor
        /\ shards' = [p \in Providers |-> IF p \in providers THEN Ensured(p) ELSE shards[p]]
    BY <1>7 DEF PickNothing
  <2>2. \A p \in Providers : /\ Known(metas'[p])
                             /\ shards'[p] # None => ShardInv(shards'[p], metas'[p], now')
    BY <1>1, <2>1, EnsuredInv
  <2> QED
    BY <1>1, <2>1, <2>2, PicksInvNext
<1>8. ASSUME NEW allowed, NEW p \in Providers, NEW preferWs \in BOOLEAN,
             PickSingle(p, preferWs, allowed)
      PROVE  PicksInv'
  <2> DEFINE shard == SinglePick(p, preferWs, allowed).shard
  <2>1. /\ metas' = metas /\ now' = now /\ mixedCursor' = mixedCursor
        /\ shards' = [shards EXCEPT ![p] = shard]
        /\ Candidates(Ensured(p), allowed) # {}
    BY <1>8 DEF PickSingle
  <2>2. ShardInv(shard, metas[p], now)
    BY <2>1, SingleFinds
  <2> HIDE DEF shard
  <2>3. \A r \in Providers : /\ Known(metas'[r])
                             /\ shards'[r] # None => ShardInv(shards'[r], metas'[r], now')
    BY <1>1, <2>1, <2>2
  <2> QED
    BY <1>1, <2>1, <2>3, PicksInvNext
<1>9. ASSUME NEW allowed, PickMixed(allowed)
      PROVE  PicksInv'
  <2> DEFINE s == [p \in Providers |-> Ensured(p)]
             pick == MixedPick(s, allowed)
  <2>1. /\ metas' = metas /\ now' = now /\ mixedCursor' = pick.cursor
        /\ shards' = [s EXCEPT ![pick.provider] = pick.shard]
        /\ \E p \in Providers : Candidates(Ensured(p), allowed) # {}
    BY <1>9 DEF PickMixed
  <2>2. /\ pick.provider \in Providers /\ pick.cursor \in Nat
        /\ ShardInv(pick.shard, metas[pick.provider], now)
    BY <2>1, MixedFinds
  <2> HIDE DEF pick
  <2>3. \A r \in Providers : /\ Known(metas'[r])
                             /\ shards'[r] # None => ShardInv(shards'[r], metas'[r], now')
    BY <1>1, <2>1, <2>2, EnsuredInv
  <2> QED
    BY <1>1, <2>1, <2>2, <2>3, PicksInvNext
<1>10. CASE UNCHANGED vars
  <2>1. metas' = metas /\ shards' = shards /\ now' = now /\ mixedCursor' = mixedCursor
    BY <1>10 DEF vars
  <2> QED
    BY <1>1, <2>1, PicksInvNext
<1> QED
  BY <1>2, <1>3, <1>4, <1>5, <1>6, <1>7, <1>8, <1>9, <1>10 DEF Next

\* What is ready in a shard that is up to date is free, and what is surely
\* free is ready.
LEMMA FreeIsReady ==
  ASSUME SchedulerSound, PicksInv, NEW p \in Providers, NEW allowed
  PROVE  /\ \A a \in Ready(Ensured(p)) : a \in allowed => a \in Free(p, allowed)
         /\ \A a \in SurelyFree(p, allowed) : a \in Ready(Ensured(p)) /\ a \in allowed
<1> DEFINE shard == Ensured(p)
<1>1. /\ ShardInv(shard, metas[p], now) /\ Known(metas[p]) /\ now \in Nat
      /\ \A a \in DOMAIN shard.entries :
            shard.entries[a].state # "ready" =>
               shard.entries[a].snap.next > now \/ shard.entries[a].retry > now
  BY EnsuredInv DEF PicksInv
<1> HIDE DEF shard
<1>2. ASSUME NEW a \in Ready(shard), a \in allowed
      PROVE  a \in Free(p, allowed)
  BY <1>1, <1>2 DEF Ready, Free, ShardInv, Consistent, EntriesFollow, Serving, Timed
<1>3. ASSUME NEW a \in SurelyFree(p, allowed)
      PROVE  a \in Ready(shard) /\ a \in allowed
  <2>1. /\ a \in DOMAIN metas[p] /\ a \in allowed /\ metas[p][a].supports
        /\ metas[p][a].next <= now /\ metas[p][a].recover <= metas[p][a].next
    BY <1>3 DEF SurelyFree, Free
  <2>2. a \in DOMAIN shard.entries /\ shard.entries[a].snap = metas[p][a]
    BY <1>1, <2>1 DEF ShardInv, Consistent, EntriesFollow, Serving
  <2>3. metas[p][a].next \in Nat /\ metas[p][a].recover \in Nat
    BY <1>1, <2>1 DEF Known, SchedulerSound
  <2>4. ASSUME shard.entries[a].state # "ready"
        PROVE  FALSE
    <3>1. shard.entries[a].retry \in {metas[p][a].next, metas[p][a].recover}
      BY <1>1, <2>2, <2>4 DEF ShardInv, Timed
    <3>2. metas[p][a].next > now \/ shard.entries[a].retry > now
      BY <1>1, <2>2, <2>4
    <3> QED
      BY <1>1, <2>1, <2>3, <3>1, <3>2
  <2> QED
    BY <2>1, <2>2, <2>4 DEF Ready
<1> QED
  BY <1>2, <1>3 DEF shard

LEMMA PicksInvIsBest ==
  ASSUME SchedulerSound, PicksInv
  PROVE  PickIsBest
<1> SUFFICES ASSUME NEW allowed \in SUBSET Auths
             PROVE  LET s == [p \in Providers |-> Ensured(p)]
                        sure == [p \in Providers |-> SurelyFree(p, allowed)]
                        only(p) == [r \in Providers |-> IF r = p THEN sure[p] ELSE {}]
                    IN  /\ \A p \in Providers :
                              IF Candidates(s[p], allowed) = {} THEN sure[p] = {}
                              ELSE LET a == SinglePick(p, FALSE, allowed).auth
                                   IN  a \in Free(p, allowed) /\ BestOf(a, p, only(p))
                        /\ (\E p \in Providers : Candidates(s[p], allowed) # {}) =>
                              LET pick == MixedPick(s, allowed)
                              IN  /\ pick.auth \in Free(pick.provider, allowed)
                                  /\ BestOf(pick.auth, pick.provider, sure)
  BY DEF PickIsBest
<1> DEFINE s == [p \in Providers |-> Ensured(p)]
           sure == [p \in Providers |-> SurelyFree(p, allowed)]
           only(p) == [r \in Providers |-> IF r = p THEN sure[p] ELSE {}]
<1>1. \A p \in Providers : s[p] = Ensured(p) /\ sure[p] = SurelyFree(p, allowed)
  OBVIOUS
<1>2. \A p \in Providers :
         /\ \A a \in Ready(s[p]) : a \in allowed => a \in Free(p, allowed)
         /\ \A a \in sure[p] : a \in Ready(s[p]) /\ a \in allowed
  BY <1>1, FreeIsReady
<1>3. ASSUME NEW p \in Providers
      PROVE  IF Candidates(s[p], allowed) = {} THEN sure[p] = {}
             ELSE LET a == SinglePick(p, FALSE, allowed).auth
                  IN  a \in Free(p, allowed) /\ BestOf(a, p, only(p))
  <2>1. CASE Candidates(s[p], allowed) = {}
    <3>1. ShardInv(s[p], metas[p], now) /\ Known(metas[p])
      BY <1>1, EnsuredInv DEF PicksInv
    <3>2. Candidates(s[p], allowed) =
             {metas[p][a].priority : a \in {b \in Ready(s[p]) : b \in allowed}}
      BY <3>1, CandidatesAre
    <3> QED
      BY <1>2, <2>1, <3>2
  <2>2. CASE Candidates(s[p], allowed) # {}
    <3> DEFINE a == SinglePick(p, FALSE, allowed).auth
    <3>1. /\ a \in Ready(Ensured(p)) /\ a \in allowed
          /\ \A b \in Ready(Ensured(p)) :
                b \in allowed => metas[p][a].priority >= metas[p][b].priority
      BY <1>1, <2>2, SingleFinds
    <3> HIDE DEF a
    <3>2. a \in Free(p, allowed)
      BY <1>1, <1>2, <3>1
    <3>3. \A r \in Providers : \A b \in only(p)[r] :
             metas[p][a].priority >= metas[r][b].priority
      <4> TAKE r \in Providers
      <4> TAKE b \in only(p)[r]
      <4>1. r = p /\ b \in sure[p]
        OBVIOUS
      <4> QED
        BY <1>1, <1>2, <3>1, <4>1
    <3> QED
      BY <2>2, <3>2, <3>3 DEF BestOf, a
  <2> QED
    BY <2>1, <2>2
<1>4. ASSUME \E p \in Providers : Candidates(s[p], allowed) # {}
      PROVE  LET pick == MixedPick(s, allowed)
             IN  /\ pick.auth \in Free(pick.provider, allowed)
                 /\ BestOf(pick.auth, pick.provider, sure)
  <2> DEFINE pick == MixedPick(s, allowed)
             r == pick.provider
  <2>1. \E p \in Providers : Candidates(Ensured(p), allowed) # {}
    BY <1>1, <1>4
  <2>2. /\ r \in Providers /\ pick.auth \in Ready(Ensured(r)) /\ pick.auth \in allowed
        /\ \A p \in Providers : \A b \in Ready(Ensured(p)) :
              b \in allowed => metas[r][pick.auth].priority >= metas[p][b].priority
    BY <2>1, MixedFinds
  <2> HIDE DEF pick
  <2>3. pick.auth \in Free(r, allowed)
    BY <1>1, <1>2, <2>2
  <2>4. \A p \in Providers : \A b \in sure[p] :
           metas[r][pick.auth].priority >= metas[p][b].priority
    BY <1>1, <1>2, <2>2
  <2> QED
    BY <2>3, <2>4 DEF BestOf, pick
<1> QED
  BY <1>3, <1>4

\* A pick finds a credential whenever one is free, the one it finds is free,
\* and no free one of any provider of the request has a higher priority,
\* whatever was updated, blocked and promoted before
\* (scheduler.go:400-628, 663-760, 776-900).
THEOREM PicksAreBest == ASSUME SchedulerSound PROVE Spec => []PickIsBest
<1>1. Init => PicksInv
  <2> SUFFICES ASSUME Init PROVE PicksInv
    OBVIOUS
  <2>1. \A p \in Providers : metas[p] = NoEntries /\ shards[p] = None
    BY DEF Init
  <2>2. Known(NoEntries)
    BY DEF Known, NoEntries
  <2> QED
    BY <2>1, <2>2 DEF Init, PicksInv, IndexInv
<1>2. PicksInv /\ [Next]_vars => PicksInv'
  BY PicksInvStep
<1>3. PicksInv => PickIsBest
  BY PicksInvIsBest
<1> QED
  BY <1>1, <1>2, <1>3, PTL DEF Spec

-----------------------------------------------------------------------------
(* Remainders *)

LEMMA Division ==
  ASSUME NEW n \in Nat \ {0}, NEW c \in Nat
  PROVE  c \div n \in Nat /\ c % n \in 0..(n - 1) /\ c = n * (c \div n) + (c % n)
OBVIOUS

\* Numbers less than a round apart have different remainders.
LEMMA RemaindersDiffer ==
  ASSUME NEW n \in Nat \ {0}, NEW x \in Nat, NEW y \in Nat, x % n = y % n,
         x - y < n, y - x < n
  PROVE  x = y
<1> DEFINE k == x \div n
           l == y \div n
           r == x % n
<1>1. k \in Nat /\ l \in Nat /\ r \in Nat /\ x = n * k + r /\ y = n * l + r
  <2>1. x \div n \in Nat /\ x % n \in Nat /\ x = n * (x \div n) + (x % n)
    BY ONLY n \in Nat \ {0}, x \in Nat, Division
  <2>2. y \div n \in Nat /\ y = n * (y \div n) + (y % n)
    BY ONLY n \in Nat \ {0}, y \in Nat, Division
  <2> QED
    BY ONLY <2>1, <2>2, x % n = y % n
<1> HIDE DEF k, l, r
<1>2. n * k \in Nat /\ n * l \in Nat
  BY <1>1
<1>3. CASE k > l
  <2>1. n * k >= n * l + n
    BY <1>1, <1>3
  <2> QED
    BY <1>1, <1>2, <2>1
<1>4. CASE l > k
  <2>1. n * l >= n * k + n
    BY <1>1, <1>4
  <2> QED
    BY <1>1, <1>2, <2>1
<1>5. CASE k = l
  BY <1>1, <1>5
<1> QED
  BY <1>1, <1>3, <1>4, <1>5

\* Only the remainder of a number matters for the remainder of a sum.
LEMMA RemainderOfSum ==
  ASSUME NEW n \in Nat \ {0}, NEW c \in Nat, NEW e \in Nat
  PROVE  (c + e) % n = ((c % n) + e) % n
<1> DEFINE k == c \div n
           r == c % n
           l == (r + e) \div n
           t == (r + e) % n
<1>1. k \in Nat /\ r \in Nat /\ c = n * k + r
  BY Division
<1> HIDE DEF k, r
<1>2. l \in Nat /\ t \in 0..(n - 1) /\ r + e = n * l + t
  BY <1>1, Division
<1> HIDE DEF l, t
<1>3. n * (k + l) = n * k + n * l /\ n * k \in Nat /\ n * l \in Nat
  BY <1>1, <1>2
<1>4. c + e = n * (k + l) + t
  BY <1>1, <1>2, <1>3
<1>5. (n * (k + l) + t) % n = t
  <2> DEFINE m == k + l
  <2>1. m \in Nat /\ t \in 0..(n - 1)
    BY <1>1, <1>2
  <2> HIDE DEF m
  <2>2. (n * m + t) % n = t
    BY <2>1, RoundsLeave
  <2> QED
    BY <2>2 DEF m
<1> QED
  BY <1>4, <1>5 DEF t, r

LEMMA SameRemainders ==
  ASSUME NEW n \in Nat \ {0}, NEW c \in Nat, NEW d \in Nat, c % n = d % n, NEW e \in Nat
  PROVE  (c + e) % n = (d + e) % n
<1>1. (c + e) % n = ((c % n) + e) % n
  BY RemainderOfSum
<1>2. (d + e) % n = ((d % n) + e) % n
  BY RemainderOfSum
<1> QED
  BY ONLY <1>1, <1>2, c % n = d % n

\* A whole round makes no difference.
LEMMA RoundAdded ==
  ASSUME NEW n \in Nat \ {0}, NEW c \in Nat
  PROVE  (c + n) % n = c % n /\ (c % n) % n = c % n
<1> DEFINE k == c \div n
           r == c % n
<1>1. k \in Nat /\ r \in 0..(n - 1) /\ c = n * k + r
  BY Division
<1> HIDE DEF k, r
<1>2. n * (k + 1) = n * k + n
  BY <1>1
<1>3. c + n = n * (k + 1) + r
  BY <1>1, <1>2
<1>4. (n * (k + 1) + r) % n = r /\ (n * 0 + r) % n = r
  BY <1>1, RoundsLeave
<1> QED
  BY <1>1, <1>3, <1>4 DEF r

-----------------------------------------------------------------------------
(* Walks around a circle *)

\* A circle of n different places.
Circle(G, n) == /\ n \in Nat \ {0} /\ DOMAIN G = 0..(n - 1)
                /\ \A i, j \in 0..(n - 1) : G[i] = G[j] => i = j

\* Of a circle, seen has the last places before c, at most one round of them.
Walks(seen, G, n, c) ==
    /\ Circle(G, n) /\ c \in Nat
    /\ \E X : seen \in Seq(X)
    /\ Len(seen) \in 1..n
    /\ \A k \in 1..Len(seen) : seen[k] = G[(c + (n - 1 - (Len(seen) - k))) % n]

\* What was seen on a walk is different.
LEMMA WalkIsInjective ==
  ASSUME NEW seen, NEW G, NEW n, NEW c, Walks(seen, G, n, c)
  PROVE  IsInjective(seen)
<1> DEFINE L == Len(seen)
           at(k) == c + (n - 1 - (L - k))
<1>1. n \in Nat \ {0} /\ c \in Nat /\ L \in 1..n /\ DOMAIN seen = 1..L
  BY LenProperties DEF Walks, Circle
<1>2. \A k \in 1..L : seen[k] = G[at(k) % n]
  BY DEF Walks
<1> HIDE DEF L
<1>3. ASSUME NEW j \in 1..L, NEW k \in 1..L, seen[j] = seen[k]
      PROVE  j = k
  <2>1. at(j) \in Nat /\ at(k) \in Nat /\ at(j) - at(k) < n /\ at(k) - at(j) < n
    BY <1>1
  <2>2. at(j) = at(k) => j = k
    BY <1>1
  <2> HIDE DEF at
  <2>3. at(j) % n \in 0..(n - 1) /\ at(k) % n \in 0..(n - 1)
    BY <1>1, <2>1, Division
  <2>4. at(j) % n = at(k) % n
    BY <1>2, <1>3, <2>3 DEF Walks, Circle
  <2> QED
    BY <1>1, <2>1, <2>2, <2>4, RemaindersDiffer
<1> QED
  BY <1>1, <1>3 DEF IsInjective

\* Rounds walked before do not matter.
LEMMA WalkSame ==
  ASSUME NEW seen, NEW G, NEW n, NEW c, Walks(seen, G, n, c), NEW d \in Nat,
         d % n = c % n
  PROVE  Walks(seen, G, n, d)
<1>1. n \in Nat \ {0} /\ c \in Nat /\ Len(seen) \in 1..n
  BY DEF Walks, Circle
<1>2. \A k \in 1..Len(seen) : seen[k] = G[(d + (n - 1 - (Len(seen) - k))) % n]
  <2> TAKE k \in 1..Len(seen)
  <2> DEFINE e == n - 1 - (Len(seen) - k)
  <2>1. e \in Nat
    BY <1>1
  <2>2. seen[k] = G[(c + e) % n]
    BY DEF Walks
  <2> HIDE DEF e
  <2>3. (c + e) % n = (d + e) % n
    BY <1>1, <2>1, SameRemainders
  <2> QED
    BY <2>2, <2>3 DEF e
<1> QED
  BY <1>2 DEF Walks

\* The first place of a walk.
LEMMA WalkStarts ==
  ASSUME NEW G, NEW n, Circle(G, n), NEW c \in Nat, NEW a, a = G[c % n]
  PROVE  Walks(<<a>>, G, n, (c % n) + 1)
<1>1. n \in Nat \ {0} /\ c % n \in 0..(n - 1)
  BY Division DEF Circle
<1> DEFINE r == c % n
<1>2. r % n = r /\ (r + n) % n = r
  <2>1. r \in 0..(n - 1) /\ r \in Nat
    BY <1>1
  <2>2. (r + n) % n = r % n
    BY <1>1, <2>1, RoundAdded
  <2>3. (c % n) % n = c % n
    BY <1>1, RoundAdded
  <2> QED
    BY ONLY <2>2, <2>3 DEF r
<1> HIDE DEF r
<1>3. r + 1 + (n - 1 - (1 - 1)) = r + n
  BY <1>1 DEF r
<1>4. <<a>> \in Seq({a}) /\ Len(<<a>>) = 1 /\ <<a>>[1] = a
  OBVIOUS
<1>5. \A k \in 1..1 : <<a>>[k] = G[(r + 1 + (n - 1 - (1 - k))) % n]
  BY <1>2, <1>3, <1>4 DEF r
<1>6. r + 1 \in Nat /\ 1 \in 1..n
  BY <1>1 DEF r
<1> HIDE <1>5
<1> QED
  BY <1>4, <1>5, <1>6 DEF Walks, r

\* One step on.
LEMMA WalkStep ==
  ASSUME NEW seen, NEW G, NEW n, NEW c, Walks(seen, G, n, c), NEW a, a = G[c % n]
  PROVE  Walks(Latest(Append(seen, a), n), G, n, (c % n) + 1)
<1> DEFINE L == Len(seen)
           r == c % n
           t == Append(seen, a)
           m == IF L + 1 > n THEN 2 ELSE 1
           u == SubSeq(t, m, L + 1)
<1>1. PICK X : seen \in Seq(X)
  BY DEF Walks
<1>2. /\ n \in Nat \ {0} /\ c \in Nat /\ L \in 1..n /\ Circle(G, n)
      /\ \A k \in 1..L : seen[k] = G[(c + (n - 1 - (L - k))) % n]
  BY DEF Walks, Circle
<1> DEFINE Y == X \cup {a}
<1>3. seen \in Seq(Y) /\ a \in Y
  <2>1. \A k \in 1..L : seen[k] \in Y
    BY <1>1
  <2> QED
    BY <1>1, <2>1
<1>4. /\ t \in Seq(Y) /\ Len(t) = L + 1 /\ t[L + 1] = a
      /\ \A k \in 1..L : t[k] = seen[k]
  <2> HIDE DEF Y
  <2> QED
    BY <1>3, AppendProperties
<1>5. r \in 0..(n - 1) /\ (r + n) % n = r
  <2>1. c % n \in 0..(n - 1) /\ (c % n) % n = c % n
    BY <1>2, Division, RoundAdded
  <2> DEFINE d == c % n
  <2>2. d \in Nat /\ n \in Nat \ {0}
    BY <1>2, <2>1
  <2> HIDE DEF d
  <2>3. (d + n) % n = d % n
    BY ONLY <2>2, RoundAdded
  <2> QED
    BY <2>1, <2>3 DEF d
<1> HIDE DEF L, t, r, Y
<1>6. Latest(t, n) = u
  <2> DEFINE x == Len(t)
             y == IF x > n THEN x - n + 1 ELSE 1
  <2>1. Latest(t, n) = SubSeq(t, y, x)
    BY DEF Latest
  <2>2. x = L + 1
    BY <1>4
  <2> HIDE DEF x
  <2>3. y = m
    <3>1. n \in Nat /\ L \in Nat /\ L <= n
      BY <1>2
    <3> QED
      BY <2>2, <3>1
  <2> HIDE DEF y, m
  <2> QED
    BY <2>1, <2>2, <2>3
<1>7. m \in 1..2 /\ L + 1 \in Nat /\ L + 2 - m \in 1..n
  BY <1>2
<1>8. \A k \in m..(L + 1) : t[k] \in Y
  BY <1>4, <1>7
<1> HIDE DEF m
<1>9. /\ u \in Seq(Y) /\ Len(u) = L + 2 - m
      /\ \A k \in 1..(L + 2 - m) : u[k] = t[k + m - 1]
  <2> DEFINE h == L + 1
  <2>1. t \in Seq(Y) /\ m \in Int /\ h \in Int /\ m <= h + 1 /\ \A k \in m..h : t[k] \in Y
    BY <1>4, <1>7, <1>8, <1>2
  <2>2. h - m + 1 = L + 2 - m
    BY <1>7, <1>2
  <2> HIDE DEF h
  <2>3. /\ SubSeq(t, m, h) \in Seq(Y)
        /\ Len(SubSeq(t, m, h)) = IF m <= h THEN h - m + 1 ELSE 0
        /\ \A k \in 1..(h - m + 1) : SubSeq(t, m, h)[k] = t[m + k - 1]
    BY ONLY <2>1, SubSeqProperties
  <2> QED
    BY <1>7, <1>2, <2>2, <2>3 DEF h
<1> HIDE DEF u
<1>10. ASSUME NEW k \in 1..Len(u)
       PROVE  u[k] = G[(r + 1 + (n - 1 - (Len(u) - k))) % n]
  <2> DEFINE p == Len(u)
  <2>0. p = L + 2 - m /\ k \in 1..p
    BY <1>9
  <2> HIDE DEF p
  <2>1. CASE k = p
    <3>1. u[k] = a
      BY <1>2, <1>4, <1>7, <1>9, <2>0, <2>1
    <3>2. r + 1 + (n - 1 - (p - k)) = r + n
      BY <2>0, <1>2, <1>5, <1>7, <2>1
    <3> QED
      BY <1>5, <3>1, <3>2 DEF r, p
  <2>2. CASE k # p
    <3> DEFINE j == k + m - 1
               e == n - 1 - (L - j)
    <3>1. j \in 1..L /\ e \in Nat /\ r + 1 + (n - 1 - (p - k)) = r + e
      BY <2>0, <1>2, <1>5, <1>7, <2>2
    <3>2. u[k] = seen[j] /\ seen[j] = G[(c + e) % n]
      BY <1>2, <1>4, <1>9, <2>0, <3>1
    <3> HIDE DEF e, j
    <3>3. (c + e) % n = (r + e) % n
      BY <1>2, <3>1, RemainderOfSum DEF r
    <3> QED
      BY <3>1, <3>2, <3>3 DEF p
  <2> QED
    BY <2>1, <2>2
<1>11. r + 1 \in Nat /\ u \in Seq(Y) /\ Len(u) \in 1..n
  BY <1>5, <1>7, <1>9
<1>12. Walks(u, G, n, r + 1)
  <2>1. \E Z : u \in Seq(Z)
    BY <1>9
  <2> QED
    BY <1>2, <1>10, <1>11, <2>1 DEF Walks
<1> QED
  BY <1>6, <1>12 DEF t, r

-----------------------------------------------------------------------------
(* Lists and cursors of a shard *)

Flat(shard, q)   == shard.buckets[q].all.flat
Cursor(shard, q) == shard.buckets[q].all.cursor

\* A list that stays keeps its cursor, up to whole rounds.
Kept(shard, s) ==
    \A q \in DOMAIN shard.buckets \cap DOMAIN s.buckets :
        Flat(s, q) = Flat(shard, q) =>
            Cursor(s, q) % Len(Flat(s, q)) = Cursor(shard, q) % Len(Flat(s, q))

LEMMA RebuiltKept ==
  ASSUME SchedulerSound, NEW entries, DOMAIN entries \subseteq Auths,
         NEW shard, Cursors(shard.buckets)
  PROVE  Kept(shard, Rebuilt(entries, shard.buckets))
<1> DEFINE buckets == shard.buckets
           priorities == {entries[a].snap.priority :
                             a \in {b \in DOMAIN entries : entries[b].state = "ready"}}
           wsAt(q) == {a \in ReadyAt(entries, q) : entries[a].snap.ws}
           old(q) == IF q \in DOMAIN buckets
                     THEN <<buckets[q].all.cursor, buckets[q].ws.cursor>>
                     ELSE <<0, 0>>
           new == [q \in priorities |->
                     [all |-> View(ReadyAt(entries, q), old(q)[1]),
                      ws  |-> View(wsAt(q), old(q)[2])]]
           r == Rebuilt(entries, buckets)
<1>1. r.buckets = new
  BY DEF Rebuilt
<1>2. ASSUME NEW q \in DOMAIN shard.buckets, q \in priorities
      PROVE  Cursor(r, q) % Len(Flat(r, q)) = Cursor(shard, q) % Len(Flat(r, q))
  <2> DEFINE S == ReadyAt(entries, q)
             c == Cursor(shard, q)
             n == Cardinality(S)
  <2>1. r.buckets[q].all = View(S, c)
    BY <1>1, <1>2 DEF Cursor
  <2>2. S \in SUBSET Auths /\ S # {} /\ c \in Nat
    BY <1>2 DEF ReadyAt, Cursors, Cursor
  <2> HIDE DEF S, c, r
  <2>3. IsFiniteSet(S) /\ n \in Nat \ {0} /\ S \in SUBSET Nat
    BY <2>2, FS_Subset, FS_CardinalityType, FS_EmptySet DEF SchedulerSound
  <2>4. Flat(r, q) = Sorted(S) /\ Cursor(r, q) = c % n
    BY <2>1, <2>2 DEF View, Flat, Cursor
  <2>5. Len(Flat(r, q)) = n
    BY <2>1, <2>3, <2>4, ListFacts DEF Lists, Flat
  <2>6. (c % n) % n = c % n
    BY <2>2, <2>3, RoundAdded
  <2> QED
    BY <2>4, <2>5, <2>6 DEF c
<1>3. DOMAIN new = priorities
  OBVIOUS
<1> HIDE DEF new, priorities
<1> QED
  BY <1>1, <1>2, <1>3 DEF Kept

LEMMA UpsertKept ==
  ASSUME SchedulerSound, NEW shard, DOMAIN shard.entries \subseteq Auths,
         Cursors(shard.buckets), ShardShape(shard), NEW a \in Auths, NEW snap
  PROVE  Kept(shard, UpsertEntry(shard, a, snap))
<1> DEFINE entries == With(shard.entries, a, Entry(snap))
<1>1. DOMAIN entries \subseteq Auths
  BY DEF With
<1>2. \/ UpsertEntry(shard, a, snap) = [shard EXCEPT !.entries = entries]
      \/ UpsertEntry(shard, a, snap) = Rebuilt(entries, shard.buckets)
  BY DEF UpsertEntry
<1>3. [shard EXCEPT !.entries = entries].buckets = shard.buckets
  BY DEF ShardShape
<1> HIDE DEF entries
<1>4. Kept(shard, Rebuilt(entries, shard.buckets))
  BY <1>1, RebuiltKept
<1> QED
  BY <1>2, <1>3, <1>4 DEF Kept, Flat, Cursor

LEMMA RemoveKept ==
  ASSUME SchedulerSound, NEW shard, DOMAIN shard.entries \subseteq Auths,
         Cursors(shard.buckets), NEW a
  PROVE  Kept(shard, RemoveEntry(shard, a))
<1>1. DOMAIN Without(shard.entries, a) \subseteq Auths
  BY DEF Without
<1>2. Kept(shard, Rebuilt(Without(shard.entries, a), shard.buckets))
  BY <1>1, RebuiltKept
<1> QED
  BY <1>2 DEF RemoveEntry, Kept, Flat, Cursor

LEMMA PromotedKept ==
  ASSUME SchedulerSound, NEW shard, DOMAIN shard.entries \subseteq Auths,
         Cursors(shard.buckets)
  PROVE  Kept(shard, Promoted(shard))
<1> DEFINE entries == [a \in DOMAIN shard.entries |->
                         IF a \in Expired(shard) THEN Entry(shard.entries[a].snap)
                         ELSE shard.entries[a]]
<1>1. DOMAIN entries \subseteq Auths
  OBVIOUS
<1>2. Promoted(shard) = IF Expired(shard) = {} THEN shard ELSE Rebuilt(entries, shard.buckets)
  BY DEF Promoted
<1> HIDE DEF entries
<1>3. Kept(shard, Rebuilt(entries, shard.buckets))
  BY <1>1, RebuiltKept
<1> QED
  BY <1>2, <1>3 DEF Kept, Flat, Cursor

-----------------------------------------------------------------------------
(* Between picks *)

KeptAll ==
    \A p \in Providers :
        shards[p] # None /\ shards'[p] # None => Kept(shards[p], shards'[p])

\* No credential is known to a provider that does not own it.
Owned == /\ DOMAIN owner = Auths
         /\ \A p \in Providers : \A a \in DOMAIN metas[p] : a \in Auths /\ owner[a] = p

LEMMA ShardBasics ==
  ASSUME SchedulerSound, NEW m, Known(m), NEW t, NEW shard, ShardInv(shard, m, t)
  PROVE  /\ DOMAIN shard.entries \subseteq Auths /\ DOMAIN shard.entries \subseteq DOMAIN m
         /\ Cursors(shard.buckets) /\ ShardShape(shard)
BY DEF ShardInv, Consistent, EntriesFollow, Serving, Known

LEMMA KeptSelf == ASSUME NEW shard PROVE Kept(shard, shard)
BY DEF Kept

LEMMA DroppedKept ==
  ASSUME SchedulerSound, PicksInv, NEW a, NEW from, NEW p \in Providers, shards[p] # None
  PROVE  Kept(shards[p], Dropped(shards, from, a)[p])
<1>1. /\ DOMAIN shards = Providers
      /\ DOMAIN shards[p].entries \subseteq Auths /\ Cursors(shards[p].buckets)
  BY ShardBasics DEF PicksInv, IndexInv
<1>2. \/ Dropped(shards, from, a)[p] = shards[p]
      \/ Dropped(shards, from, a)[p] = RemoveEntry(shards[p], a)
  BY <1>1 DEF Dropped
<1> QED
  BY <1>1, <1>2, KeptSelf, RemoveKept

LEMMA UpsertKeepsAll ==
  ASSUME SchedulerSound, PicksInv, NEW a \in Auths, NEW p \in Providers, NEW snap,
         UpsertAuth(a, p, snap)
  PROVE  KeptAll
<1> SUFFICES ASSUME NEW r \in Providers, shards[r] # None
             PROVE  Kept(shards[r], shards'[r])
  BY DEF KeptAll
<1> DEFINE from == MovedFrom(a, p)
           s == Dropped(shards, from, a)
<1>1. /\ DOMAIN shards = Providers
      /\ DOMAIN shards[r].entries \subseteq Auths /\ Cursors(shards[r].buckets)
      /\ ShardShape(shards[r])
  BY ShardBasics DEF PicksInv, IndexInv
<1>2. DOMAIN s = Providers /\ Kept(shards[r], s[r])
  BY <1>1, DroppedKept DEF Dropped
<1>3. from = None \/ from # p
  BY DEF MovedFrom
<1>4. s[p] = shards[p]
  BY <1>1, <1>3 DEF Dropped
<1>5. shards' = IF s[p] = None THEN s
                ELSE [s EXCEPT ![p] = IF snap.supports THEN UpsertEntry(@, a, snap)
                                      ELSE RemoveEntry(@, a)]
  BY DEF UpsertAuth
<1> HIDE DEF s, from
<1>6. CASE s[p] = None
  BY <1>2, <1>5, <1>6
<1>7. CASE s[p] # None /\ r # p
  <2>1. shards'[r] = s[r]
    BY <1>2, <1>5, <1>7
  <2> QED
    BY <1>2, <2>1
<1>8. CASE s[p] # None /\ r = p
  <2>1. shards'[r] = UpsertEntry(shards[r], a, snap) \/ shards'[r] = RemoveEntry(shards[r], a)
    BY <1>2, <1>4, <1>5, <1>8
  <2> QED
    BY <1>1, <2>1, UpsertKept, RemoveKept
<1> QED
  BY <1>6, <1>7, <1>8

LEMMA RemoveKeepsAll ==
  ASSUME SchedulerSound, PicksInv, NEW a \in Auths, RemoveAuth(a)
  PROVE  KeptAll
BY DroppedKept DEF KeptAll, RemoveAuth

LEMMA EnsuredKept ==
  ASSUME SchedulerSound, PicksInv, NEW p \in Providers, shards[p] # None
  PROVE  Kept(shards[p], Ensured(p))
<1>1. DOMAIN shards[p].entries \subseteq Auths /\ Cursors(shards[p].buckets)
  BY ShardBasics DEF PicksInv
<1>2. Ensured(p) = Promoted(shards[p])
  BY DEF Ensured
<1> QED
  BY <1>1, <1>2, PromotedKept

LEMMA NothingKeepsAll ==
  ASSUME SchedulerSound, PicksInv, NEW providers, NEW allowed, PickNothing(providers, allowed)
  PROVE  KeptAll
<1> SUFFICES ASSUME NEW p \in Providers, shards[p] # None
             PROVE  Kept(shards[p], shards'[p])
  BY DEF KeptAll
<1>1. shards'[p] = Ensured(p) \/ shards'[p] = shards[p]
  BY DEF PickNothing
<1> QED
  BY <1>1, EnsuredKept, KeptSelf

\* A credential leaves its provider before it enters another.
LEMMA OwnedStep ==
  ASSUME None \notin Providers, IndexInv, Owned, [Next]_vars
  PROVE  Owned'
<1>0. DOMAIN metas = Providers
  BY DEF IndexInv
<1>1. ASSUME NEW a \in Auths, NEW p \in Providers, NEW snap, UpsertAuth(a, p, snap)
      PROVE  Owned'
  <2> DEFINE from == MovedFrom(a, p)
             m == Forgotten(metas, from, a)
  <2>1. /\ owner' = [owner EXCEPT ![a] = p]
        /\ metas' = [m EXCEPT ![p] = With(@, a, snap)]
    BY <1>1 DEF UpsertAuth
  <2>2. /\ DOMAIN m = Providers
        /\ \A r \in Providers : DOMAIN m[r] \subseteq DOMAIN metas[r]
        /\ \A r \in Providers : r = from => a \notin DOMAIN m[r]
    BY <1>0 DEF Forgotten, Without
  <2>3. owner[a] # p => from = owner[a]
    BY DEF MovedFrom
  <2> HIDE DEF from, m
  <2>4. ASSUME NEW r \in Providers, NEW b \in DOMAIN metas'[r]
        PROVE  b \in Auths /\ owner'[b] = r
    <3>1. CASE r = p
      <4>1. DOMAIN metas'[r] = DOMAIN m[r] \cup {a}
        BY <2>1, <2>2, <3>1 DEF With
      <4> QED
        BY <2>1, <2>2, <3>1, <4>1 DEF Owned
    <3>2. CASE r # p
      <4>1. b \in DOMAIN m[r]
        BY <2>1, <2>2, <3>2, <2>4
      <4>2. b \in DOMAIN metas[r] /\ b \in Auths /\ owner[b] = r
        BY <2>2, <4>1 DEF Owned
      <4>3. b # a
        BY <2>2, <2>3, <3>2, <4>1, <4>2
      <4> QED
        BY <2>1, <4>2, <4>3
    <3> QED
      BY <3>1, <3>2
  <2>5. DOMAIN owner' = Auths
    BY <2>1 DEF Owned
  <2> QED
    BY <2>4, <2>5 DEF Owned
<1>2. ASSUME NEW a \in Auths, RemoveAuth(a)
      PROVE  Owned'
  <2>1. owner' = [owner EXCEPT ![a] = None] /\ metas' = Forgotten(metas, owner[a], a)
    BY <1>2 DEF RemoveAuth
  <2>2. \A r \in Providers : /\ DOMAIN metas'[r] \subseteq DOMAIN metas[r]
                             /\ r = owner[a] => a \notin DOMAIN metas'[r]
    BY <1>0, <2>1 DEF Forgotten, Without
  <2> QED
    BY <2>1, <2>2 DEF Owned
<1>3. UNCHANGED <<owner, metas>> => Owned'
  BY DEF Owned
<1> QED
  BY <1>1, <1>2, <1>3
  DEF Next, vars, Rebuild, SetSelector, Tick, PickNothing, PickSingle, PickMixed

-----------------------------------------------------------------------------
(* Turns within a provider *)

\* The list of a priority, counted from nought.
Ring(shard, q) == [i \in 0..(Len(Flat(shard, q)) - 1) |-> Flat(shard, q)[i + 1]]

\* The last picks went round the list of the highest priority up to its cursor.
SingleTurn(shard, seen) ==
    LET q == Highest(DOMAIN shard.buckets)
    IN  /\ q \in DOMAIN shard.buckets
        /\ Walks(seen, Ring(shard, q), Len(Flat(shard, q)), Cursor(shard, q))

SameFlats(shard, s) ==
    /\ DOMAIN s.buckets = DOMAIN shard.buckets
    /\ \A q \in DOMAIN shard.buckets : Flat(s, q) = Flat(shard, q)

LEMMA SingleQuiet ==
  ASSUME NEW shard, NEW s, NEW seen, SingleTurn(shard, seen),
         SameFlats(shard, s), Kept(shard, s), Cursors(s.buckets)
  PROVE  SingleTurn(s, seen)
<1> DEFINE q == Highest(DOMAIN shard.buckets)
           n == Len(Flat(shard, q))
<1>1. /\ q \in DOMAIN shard.buckets /\ Walks(seen, Ring(shard, q), n, Cursor(shard, q))
      /\ DOMAIN s.buckets = DOMAIN shard.buckets
  BY DEF SingleTurn, SameFlats
<1> HIDE DEF q
<1>2. Flat(s, q) = Flat(shard, q) /\ Cursor(s, q) % n = Cursor(shard, q) % n
  BY <1>1 DEF SameFlats, Kept
<1>3. Cursor(s, q) \in Nat /\ Ring(s, q) = Ring(shard, q)
  BY <1>1, <1>2 DEF Cursors, Cursor, Ring
<1> HIDE DEF n
<1>4. Walks(seen, Ring(shard, q), n, Cursor(s, q))
  BY <1>1, <1>2, <1>3, WalkSame
<1> QED
  BY <1>1, <1>2, <1>3, <1>4 DEF SingleTurn, q, n

LEMMA RingIs ==
  ASSUME SchedulerSound, NEW m, Known(m), NEW t, NEW shard, ShardInv(shard, m, t),
         NEW q \in DOMAIN shard.buckets
  PROVE  /\ Circle(Ring(shard, q), Len(Flat(shard, q)))
         /\ Cursor(shard, q) \in Nat
         /\ \A i \in 1..Len(Flat(shard, q)) : Flat(shard, q)[i] \in DOMAIN m \cap Auths
<1> DEFINE S == At(shard, m, q)
           view == shard.buckets[q].all
           n == Len(view.flat)
<1>1. Lists(view, S) /\ view.cursor \in Nat
  <2>1. Lists(Offering(shard, q, FALSE), Offered(shard, m, q, FALSE))
        /\ Offering(shard, q, FALSE).cursor \in Nat
    BY ViewLists
  <2> QED
    BY <2>1 DEF Offering, Offered
<1>2. S # {} /\ S \subseteq DOMAIN m \cap Auths
  BY DEF At, Ready, ShardInv, Consistent, IndexesFollow, EntriesFollow, Serving, Known
<1> HIDE DEF S
<1>3. /\ n \in Nat
      /\ \A i \in 1..n : view.flat[i] \in S
      /\ \A a \in S : \E i \in 1..n : view.flat[i] = a
      /\ \A i, j \in 1..n : view.flat[i] = view.flat[j] => i = j
  <2> HIDE DEF view
  <2> QED
    BY <1>1, ListFacts
<1>4. n \in Nat \ {0}
  BY <1>2, <1>3
<1> HIDE DEF n
<1>5. n = Len(Flat(shard, q)) /\ view.flat = Flat(shard, q) /\ view.cursor = Cursor(shard, q)
  BY DEF n, Flat, Cursor
<1> HIDE DEF view
<1>6. \A i, j \in 0..(n - 1) : Ring(shard, q)[i] = Ring(shard, q)[j] => i = j
  <2> SUFFICES ASSUME NEW i \in 0..(n - 1), NEW j \in 0..(n - 1),
                      Ring(shard, q)[i] = Ring(shard, q)[j]
               PROVE  i = j
    OBVIOUS
  <2>1. view.flat[i + 1] = view.flat[j + 1]
    BY <1>5 DEF Ring
  <2>2. i + 1 \in 1..n /\ j + 1 \in 1..n
    BY <1>4
  <2>3. i + 1 = j + 1
    BY <1>3, <2>1, <2>2
  <2> QED
    BY <2>3
<1>7. DOMAIN Ring(shard, q) = 0..(n - 1)
  BY <1>5 DEF Ring
<1> QED
  BY <1>1, <1>2, <1>3, <1>4, <1>5, <1>6, <1>7 DEF Circle

\* With everybody allowed a rotation takes the credential at the cursor.
LEMMA RotateTakes ==
  ASSUME NEW view, Len(view.flat) \in Nat \ {0}, view.cursor \in Nat, NEW allowed,
         \A i \in 1..Len(view.flat) : view.flat[i] \in allowed
  PROVE  Rotate(view, allowed) =
           [auth |-> view.flat[(view.cursor % Len(view.flat)) + 1],
            cursor |-> (view.cursor % Len(view.flat)) + 1]
<1> DEFINE n == Len(view.flat)
           c == view.cursor
           at(o) == (c + o) % n
           ok(o) == /\ view.flat[at(o) + 1] \in allowed
                    /\ \A q \in 0..(o - 1) : view.flat[at(q) + 1] \notin allowed
           o1 == CHOOSE o \in 0..(n - 1) : ok(o)
<1>1. n \in Nat \ {0} /\ c \in Nat /\ \A i \in 1..n : view.flat[i] \in allowed
  OBVIOUS
<1>2. Rotate(view, allowed) = [auth |-> view.flat[at(o1) + 1], cursor |-> at(o1) + 1]
  BY DEF Rotate
<1> HIDE DEF n, c
<1>3. at(0) = c % n /\ at(0) + 1 \in 1..n
  BY <1>1
<1> HIDE DEF at
<1>4. 0 \in 0..(n - 1) /\ ok(0)
  BY <1>1, <1>3
<1>5. \A o \in 0..(n - 1) : ok(o) => o = 0
  <2> SUFFICES ASSUME NEW o \in 0..(n - 1), ok(o), o # 0 PROVE FALSE
    OBVIOUS
  <2>1. 0 \in 0..(o - 1)
    BY <1>1
  <2> QED
    BY <1>1, <1>3, <2>1
<1> HIDE DEF ok
<1>6. o1 = 0
  BY <1>4, <1>5
<1> QED
  BY <1>2, <1>3, <1>6 DEF n, c

\* Such a pick from a shard; only the list's cursor moves.
LEMMA PickAtTakes ==
  ASSUME SchedulerSound, NEW m, Known(m), NEW t, NEW shard, ShardInv(shard, m, t),
         NEW q \in DOMAIN shard.buckets, NEW ws \in BOOLEAN, ~ws,
         NEW strat, strat # "fill-first"
  PROVE  LET pick == PickAt(shard, q, ws, strat, Auths)
             at == Cursor(shard, q) % Len(Flat(shard, q))
         IN  /\ pick.auth = Flat(shard, q)[at + 1]
             /\ SameFlats(shard, pick.shard) /\ Cursor(pick.shard, q) = at + 1
             /\ \A r \in DOMAIN shard.buckets \ {q} :
                   Cursor(pick.shard, r) = Cursor(shard, r)
             /\ pick.shard.entries = shard.entries
<1> DEFINE view == shard.buckets[q].all
           c == Rotate(view, Auths)
           s == [shard EXCEPT !.buckets[q] = [@ EXCEPT !.all.cursor = c.cursor]]
           pick == PickAt(shard, q, ws, strat, Auths)
           at == view.cursor % Len(view.flat)
<1>1. /\ Len(view.flat) \in Nat \ {0} /\ view.cursor \in Nat
      /\ \A i \in 1..Len(view.flat) : view.flat[i] \in Auths
  BY RingIs DEF Circle, Flat, Cursor
<1>2. c = [auth |-> view.flat[at + 1], cursor |-> at + 1]
  <2> HIDE DEF view
  <2> QED
    BY <1>1, RotateTakes
<1>3. pick = [auth |-> c.auth, shard |-> s]
  BY DEF PickAt
<1> HIDE DEF c, pick
<1>4. pick.auth = c.auth /\ pick.shard = s
  BY <1>3
<1>5. /\ s.entries = shard.entries /\ DOMAIN s.buckets = DOMAIN shard.buckets
      /\ \A r \in DOMAIN shard.buckets \ {q} : s.buckets[r] = shard.buckets[r]
      /\ s.buckets[q] = [shard.buckets[q] EXCEPT !.all.cursor = c.cursor]
  BY DEF ShardInv, Consistent, ShardShape
<1> HIDE DEF s
<1>6. /\ DOMAIN shard.buckets[q] = {"all", "ws"}
      /\ DOMAIN shard.buckets[q].all = {"flat", "cursor"}
  BY DEF ShardInv, Consistent, ShardShape
<1>7. s.buckets[q].all.flat = view.flat /\ s.buckets[q].all.cursor = c.cursor
  BY <1>5, <1>6
<1>8. c.auth = view.flat[at + 1] /\ c.cursor = at + 1
  BY <1>2
<1> HIDE DEF at
<1> QED
  BY <1>4, <1>5, <1>7, <1>8 DEF pick, at, SameFlats, Flat, Cursor

\* The mark of no shard and no list of a provider is neither.
NoneIsNothing ==
    /\ \A shard : ShardShape(shard) => shard # None
    /\ \A S, T : None \notin [S -> T]

\* With everybody allowed the candidates are the priorities of the lists.
LEMMA CandidatesAll ==
  ASSUME SchedulerSound, NEW m, Known(m), NEW t, NEW shard, ShardInv(shard, m, t)
  PROVE  /\ Candidates(shard, Auths) = DOMAIN shard.buckets
         /\ DOMAIN shard.buckets \in SUBSET Int /\ IsFiniteSet(DOMAIN shard.buckets)
<1>1. /\ Candidates(shard, Auths) = {m[a].priority : a \in {b \in Ready(shard) : b \in Auths}}
      /\ Candidates(shard, Auths) \in SUBSET Int /\ IsFiniteSet(Candidates(shard, Auths))
  BY CandidatesAre
<1>2. \A b \in Ready(shard) : b \in Auths
  BY DEF Ready, ShardInv, Consistent, EntriesFollow, Serving, Known
<1>3. DOMAIN shard.buckets = {m[a].priority : a \in Ready(shard)}
  BY DEF ShardInv, Consistent, IndexesFollow
<1>4. {b \in Ready(shard) : b \in Auths} = Ready(shard)
  BY <1>2
<1> QED
  BY <1>1, <1>3, <1>4

\* pickSingle for a request that has tried nothing.
LEMMA SingleTakes ==
  ASSUME SchedulerSound, PicksInv, NEW p \in Providers, strategy # "fill-first",
         Candidates(Ensured(p), Auths) # {}
  PROVE  LET pick == SinglePick(p, FALSE, Auths)
             q == pick.shard.entries[pick.auth].snap.priority
             n == Len(pick.shard.buckets[q].all.flat)
         IN  /\ SameFlats(Ensured(p), pick.shard)
             /\ ShardInv(pick.shard, metas[p], now)
             /\ SingleTurn(pick.shard, <<pick.auth>>)
             /\ \A seen : SingleTurn(Ensured(p), seen) =>
                             SingleTurn(pick.shard, Latest(Append(seen, pick.auth), n))
<1> DEFINE shard == Ensured(p)
           m == metas[p]
           pick == SinglePick(p, FALSE, Auths)
           s == pick.shard
           q == Highest(DOMAIN shard.buckets)
           r == s.entries[pick.auth].snap.priority
           n == Len(Flat(shard, q))
           at == Cursor(shard, q) % n
<1>1. ShardInv(shard, m, now) /\ Known(m)
  BY EnsuredInv DEF PicksInv
<1>2. /\ Candidates(shard, Auths) = DOMAIN shard.buckets /\ DOMAIN shard.buckets # {}
      /\ DOMAIN shard.buckets \in SUBSET Int /\ IsFiniteSet(DOMAIN shard.buckets)
  <2>1. Candidates(shard, Auths) # {}
    OBVIOUS
  <2> HIDE DEF shard, m
  <2> QED
    BY <1>1, <2>1, CandidatesAll
<1>3. q \in DOMAIN shard.buckets
  <2> HIDE DEF shard
  <2> QED
    BY <1>2, HighestIsHighest
<1>4. pick = PickAt(shard, q, FALSE, strategy, Auths)
  BY <1>2 DEF SinglePick
<1>5. /\ pick.auth \in Ready(shard) /\ m[pick.auth].priority = q
      /\ ShardInv(s, m, now)
  <2> DEFINE ws == FALSE
             found == PickAt(shard, q, ws, strategy, Auths)
  <2>1. Has(Offering(shard, q, ws), Auths) /\ ws \in BOOLEAN
    BY <1>2, <1>3 DEF Candidates, Offering
  <2>2. pick = found
    BY <1>4
  <2> HIDE DEF shard, pick, m, q, ws
  <2>3. found.auth \in Ready(shard) /\ m[found.auth].priority = q /\ ShardInv(found.shard, m, now)
    BY <1>1, <1>3, <2>1, PickAtFinds
  <2> QED
    BY <2>2, <2>3
<1> HIDE DEF shard, pick, m, q
<1>6. /\ pick.auth = Flat(shard, q)[at + 1] /\ SameFlats(shard, s)
      /\ Cursor(s, q) = at + 1 /\ s.entries = shard.entries
  <2> DEFINE ws == FALSE
             found == PickAt(shard, q, ws, strategy, Auths)
  <2>1. ws \in BOOLEAN /\ ~ws /\ pick = found
    BY <1>4
  <2> HIDE DEF s, r, n, at, ws
  <2>2. /\ found.auth = Flat(shard, q)[(Cursor(shard, q) % Len(Flat(shard, q))) + 1]
        /\ SameFlats(shard, found.shard)
        /\ Cursor(found.shard, q) = (Cursor(shard, q) % Len(Flat(shard, q))) + 1
        /\ found.shard.entries = shard.entries
    BY <1>1, <1>3, <2>1, PickAtTakes
  <2> QED
    BY <2>1, <2>2 DEF s, n, at
<1>7. Circle(Ring(shard, q), n) /\ Cursor(shard, q) \in Nat
  BY <1>1, <1>3, RingIs
<1>8. r = q
  BY <1>1, <1>5, <1>6 DEF Ready, ShardInv, Consistent, EntriesFollow
<1> HIDE DEF s
<1>9. /\ DOMAIN s.buckets = DOMAIN shard.buckets /\ Flat(s, q) = Flat(shard, q)
      /\ Ring(s, q) = Ring(shard, q)
  BY <1>3, <1>6 DEF SameFlats, Ring
<1>10. pick.auth = Ring(shard, q)[at]
  <2>1. at \in 0..(n - 1)
    BY <1>7 DEF Circle
  <2> HIDE DEF at, n
  <2> QED
    BY <1>6, <2>1 DEF Ring, n
<1>11. s.buckets[r].all.flat = Flat(s, q)
  BY <1>8 DEF Flat
<1> HIDE DEF r, n
<1>12. SingleTurn(s, <<pick.auth>>)
  <2>1. Walks(<<pick.auth>>, Ring(shard, q), n, at + 1)
    BY <1>7, <1>10, WalkStarts
  <2> QED
    BY <1>3, <1>6, <1>9, <2>1 DEF SingleTurn, q, n
<1>13. ASSUME NEW seen, SingleTurn(shard, seen)
       PROVE  SingleTurn(s, Latest(Append(seen, pick.auth), n))
  <2>1. Walks(seen, Ring(shard, q), n, Cursor(shard, q))
    BY <1>13 DEF SingleTurn, q, n
  <2>2. Walks(Latest(Append(seen, pick.auth), n), Ring(shard, q), n, at + 1)
    BY <1>10, <2>1, WalkStep
  <2> QED
    BY <1>3, <1>6, <1>9, <2>2 DEF SingleTurn, q, n
<1> QED
  BY <1>5, <1>6, <1>9, <1>11, <1>12, <1>13 DEF shard, pick, s, m, n, r

\* What the lists of a provider tell before and after.
LEMMA FlatsAgree ==
  ASSUME NEW s, NEW t, Flats(t) = Flats(s), NEW p \in Providers, s[p] # None, t[p] # None
  PROVE  SameFlats(s[p], t[p])
<1>1. /\ Flats(s)[p] = [q \in DOMAIN s[p].buckets |-> s[p].buckets[q].all.flat]
      /\ Flats(t)[p] = [q \in DOMAIN t[p].buckets |-> t[p].buckets[q].all.flat]
  BY DEF Flats
<1> DEFINE f == Flats(s)[p]
<1>2. /\ DOMAIN f = DOMAIN s[p].buckets /\ DOMAIN f = DOMAIN t[p].buckets
      /\ \A q \in DOMAIN f : f[q] = s[p].buckets[q].all.flat /\ f[q] = t[p].buckets[q].all.flat
  <2>1. /\ DOMAIN f = DOMAIN s[p].buckets
        /\ \A q \in DOMAIN f : f[q] = s[p].buckets[q].all.flat
    BY <1>1
  <2>2. /\ DOMAIN Flats(t)[p] = DOMAIN t[p].buckets
        /\ \A q \in DOMAIN Flats(t)[p] : Flats(t)[p][q] = t[p].buckets[q].all.flat
    BY <1>1
  <2> QED
    BY <2>1, <2>2
<1> HIDE DEF f
<1> QED
  BY <1>2 DEF SameFlats, Flat

LEMMA ShardStays ==
  ASSUME NoneIsNothing, NEW s, NEW t, Flats(t) = Flats(s), NEW p \in Providers, s[p] # None
  PROVE  t[p] # None
<1> SUFFICES ASSUME t[p] = None PROVE FALSE
  OBVIOUS
<1> DEFINE f == [q \in DOMAIN s[p].buckets |-> s[p].buckets[q].all.flat]
<1>1. Flats(s)[p] = f /\ Flats(t)[p] = None
  BY DEF Flats
<1>2. f \in [DOMAIN s[p].buckets -> {s[p].buckets[q].all.flat : q \in DOMAIN s[p].buckets}]
  OBVIOUS
<1> DEFINE S == DOMAIN s[p].buckets
           T == {s[p].buckets[q].all.flat : q \in DOMAIN s[p].buckets}
<1>3. f \in [S -> T]
  BY <1>2
<1> HIDE DEF f, S, T
<1>4. None \notin [S -> T]
  BY DEF NoneIsNothing
<1> QED
  BY <1>1, <1>3, <1>4

-----------------------------------------------------------------------------
(* The wheel of a mixed request *)

\* A segment is as long as the list of its provider, ...
LEMMA SegmentsTile ==
  ASSUME SchedulerSound, NEW s, NEW q, \A p \in Providers : Weight(s, q, p) \in Nat,
         NEW i \in 1..Len(Mixed)
  PROVE  SegmentStart(s, q, i + 1) = SegmentStart(s, q, i) + Weight(s, q, Mixed[i])
<1> DEFINE w == Weight(s, q, Mixed[i])
           old == Before(s, q, i)
           new == {i} \X (1..w)
<1>1. Len(Mixed) \in Nat /\ Mixed[i] \in Providers
  BY LenProperties DEF SchedulerSound
<1>2. w \in Nat
  BY <1>1
<1> HIDE DEF w
<1>3. IsFiniteSet(old) /\ Cardinality(old) = SegmentStart(s, q, i)
  <2>1. i \in 1..(Len(Mixed) + 1)
    BY <1>1
  <2> QED
    BY <2>1, SegmentFacts DEF SegmentStart
<1>4. IsFiniteSet(new) /\ Cardinality(new) = w
  <2>1. IsFiniteSet({i}) /\ Cardinality({i}) = 1
    BY FS_Singleton
  <2>2. IsFiniteSet(1..w) /\ Cardinality(1..w) = w
    BY <1>2, FS_Interval
  <2>3. Cardinality(new) = Cardinality({i}) * Cardinality(1..w) /\ IsFiniteSet(new)
    BY <2>1, <2>2, FS_Product
  <2> QED
    BY <1>2, <2>1, <2>2, <2>3
<1>5. old \cap new = {}
  BY DEF Before
<1>6. Before(s, q, i + 1) = old \cup new
  <2>1. 1..((i + 1) - 1) = (1..(i - 1)) \cup {i}
    BY <1>1
  <2> QED
    BY <2>1 DEF Before, w
<1>7. Cardinality(old \cup new) = Cardinality(old) + Cardinality(new) - Cardinality({})
  BY <1>3, <1>4, <1>5, FS_Union
<1>8. Cardinality(old) \in Nat
  BY <1>3, FS_CardinalityType
<1> HIDE DEF old, new
<1> QED
  BY <1>2, <1>3, <1>4, <1>6, <1>7, <1>8, FS_EmptySet DEF SegmentStart, w

\* ... and comes after those before it.
LEMMA SegmentsRise ==
  ASSUME SchedulerSound, NEW s, NEW q, \A p \in Providers : Weight(s, q, p) \in Nat,
         NEW i \in 1..(Len(Mixed) + 1), NEW j \in 1..(Len(Mixed) + 1), i <= j
  PROVE  SegmentStart(s, q, i) <= SegmentStart(s, q, j)
<1>1. Len(Mixed) \in Nat
  BY LenProperties DEF SchedulerSound
<1>2. Before(s, q, i) \subseteq Before(s, q, j)
  <2>1. 1..(i - 1) \subseteq 1..(j - 1)
    BY <1>1
  <2> QED
    BY <2>1 DEF Before
<1>3. IsFiniteSet(Before(s, q, j))
  BY SegmentFacts
<1> QED
  BY <1>2, <1>3, FS_Subset DEF SegmentStart

\* One provider has the turn.
LEMMA StartIs ==
  ASSUME SchedulerSound, NEW s, NEW q, \A p \in Providers : Weight(s, q, p) \in Nat,
         NEW slot \in 0..(TotalWeight(s, q) - 1)
  PROVE  LET i == StartProvider(s, q, slot)
             b == SegmentStart(s, q, i)
             w == Weight(s, q, Mixed[i])
         IN  /\ i \in 1..Len(Mixed) /\ b \in Nat /\ w \in Nat \ {0}
             /\ slot \in b..(b + w - 1) /\ b + w <= TotalWeight(s, q)
             /\ \A j \in 1..Len(Mixed) : j # i =>
                  LET c == SegmentStart(s, q, j)
                      v == Weight(s, q, Mixed[j])
                  IN  c \in Nat /\ v \in Nat /\ (c + v <= b \/ b + w <= c)
<1> DEFINE i == StartProvider(s, q, slot)
           n == Len(Mixed)
           B(j) == SegmentStart(s, q, j)
           W(j) == Weight(s, q, Mixed[j])
<1>1. n \in Nat /\ \A j \in 1..n : Mixed[j] \in Providers
  BY LenProperties DEF SchedulerSound
<1>2. \A j \in 1..(n + 1) : B(j) \in Nat
  BY SegmentFacts
<1>3. TotalWeight(s, q) = B(n + 1) /\ B(n + 1) \in Nat
  BY <1>1, <1>2 DEF TotalWeight
<1>4. i \in 1..n /\ slot >= B(i) /\ slot < B(i + 1) /\ slot \in Nat
  BY <1>3, StartFinds
<1>5. \A j \in 1..n : W(j) \in Nat /\ B(j + 1) = B(j) + W(j)
  BY <1>1, SegmentsTile
<1>6. \A j, k \in 1..(n + 1) : j <= k => B(j) <= B(k)
  BY SegmentsRise
<1> HIDE DEF n, i, B, W
<1>7. ASSUME NEW j \in 1..n, j # i
      PROVE  B(j) + W(j) <= B(i) \/ B(i) + W(i) <= B(j)
  <2>1. CASE j < i
    <3>1. j + 1 <= i /\ j + 1 \in 1..(n + 1) /\ i \in 1..(n + 1)
      BY <1>1, <1>4, <2>1
    <3> QED
      BY <1>5, <1>6, <3>1
  <2>2. CASE i < j
    <3>1. i + 1 <= j /\ i + 1 \in 1..(n + 1) /\ j \in 1..(n + 1)
      BY <1>1, <1>4, <2>2
    <3> QED
      BY <1>4, <1>5, <1>6, <3>1
  <2> QED
    BY <1>4, <1>7, <2>1, <2>2
<1>8. i + 1 \in 1..(n + 1) /\ n + 1 \in 1..(n + 1) /\ i \in 1..(n + 1) /\ i + 1 <= n + 1
  BY <1>1, <1>4
<1>9. B(i) \in Nat /\ W(i) \in Nat /\ B(i + 1) = B(i) + W(i) /\ B(i + 1) <= B(n + 1)
  BY <1>2, <1>4, <1>5, <1>6, <1>8
<1>10. W(i) \in Nat \ {0} /\ slot \in B(i)..(B(i) + W(i) - 1) /\ B(i) + W(i) <= TotalWeight(s, q)
  BY <1>3, <1>4, <1>9
<1>11. \A j \in 1..n : B(j) \in Nat
  BY <1>1, <1>2
<1> QED
  BY <1>4, <1>5, <1>7, <1>9, <1>10, <1>11 DEF i, n, B, W

\* Where a provider's rotation will be at a slot of its segment, when its
\* cursor is c, its segment of w slots starts at b, and the wheel is at u.
Passed(w, b, u) == IF u <= b THEN 0 ELSE IF u < b + w THEN u - b ELSE w
Place(c, w, b, u, slot) == (c + (w - Passed(w, b, u)) + (slot - b)) % w

LEMMA PlaceNow ==
  ASSUME NEW w \in Nat \ {0}, NEW b \in Nat, NEW c \in Nat, NEW slot \in b..(b + w - 1)
  PROVE  Place(c, w, b, slot, slot) = c % w
<1>1. c + (w - Passed(w, b, slot)) + (slot - b) = c + w
  BY DEF Passed
<1>2. (c + w) % w = c % w
  BY RoundAdded
<1> QED
  BY <1>1, <1>2 DEF Place

LEMMA PlaceCursor ==
  ASSUME NEW w \in Nat \ {0}, NEW b \in Nat, NEW c \in Nat,
         NEW u \in Nat, NEW slot \in b..(b + w - 1)
  PROVE  Place(c, w, b, u, slot) = Place(c % w, w, b, u, slot)
<1> DEFINE e == (w - Passed(w, b, u)) + (slot - b)
           r == c % w
<1>1. e \in Nat
  BY DEF Passed
<1>2. r \in Nat
  BY Division
<1>3. (c + e) % w = (r + e) % w
  <2> HIDE DEF e
  <2> QED
    BY <1>1, RemainderOfSum
<1> HIDE DEF r
<1>4. /\ c + (w - Passed(w, b, u)) + (slot - b) = c + e
      /\ r + (w - Passed(w, b, u)) + (slot - b) = r + e
  BY <1>2 DEF Passed
<1> HIDE DEF e
<1>5. Place(c, w, b, u, slot) = (c + e) % w /\ Place(r, w, b, u, slot) = (r + e) % w
  BY <1>4 DEF Place
<1> QED
  BY <1>3, <1>5 DEF r

LEMMA PlaceMoves ==
  ASSUME NEW w \in Nat \ {0}, NEW b \in Nat, NEW c \in Nat,
         NEW at \in b..(b + w - 1), NEW slot \in b..(b + w - 1)
  PROVE  Place((c % w) + 1, w, b, at + 1, slot) = Place(c, w, b, at, slot)
<1> DEFINE r == c % w
<1>1. r \in Nat
  BY Division
<1>2. Place(c, w, b, at, slot) = Place(r, w, b, at, slot)
  <2>1. at \in Nat
    OBVIOUS
  <2> QED
    BY <2>1, PlaceCursor
<1> HIDE DEF r
<1>3. (r + 1) + (w - Passed(w, b, at + 1)) + (slot - b) = r + (w - Passed(w, b, at)) + (slot - b)
  BY <1>1 DEF Passed
<1>4. Place(r + 1, w, b, at + 1, slot) = Place(r, w, b, at, slot)
  BY <1>3 DEF Place
<1> QED
  BY <1>4, <1>2 DEF r

LEMMA PlaceRound ==
  ASSUME NEW w \in Nat \ {0}, NEW b \in Nat, NEW c \in Nat, NEW T \in Nat, b + w <= T,
         NEW slot \in b..(b + w - 1)
  PROVE  Place(c, w, b, T, slot) = Place(c, w, b, 0, slot)
<1>1. /\ c + (w - Passed(w, b, T)) + (slot - b) = c + (slot - b)
      /\ c + (w - Passed(w, b, 0)) + (slot - b) = (c + (slot - b)) + w
      /\ c + (slot - b) \in Nat
  BY DEF Passed
<1>2. ((c + (slot - b)) + w) % w = (c + (slot - b)) % w
  <2> DEFINE d == c + (slot - b)
  <2>1. d \in Nat
    BY <1>1
  <2> HIDE DEF d
  <2>2. (d + w) % w = d % w
    BY <2>1, RoundAdded
  <2> QED
    BY <2>2 DEF d
<1> QED
  BY <1>1, <1>2 DEF Place

LEMMA PlacesDiffer ==
  ASSUME NEW w \in Nat \ {0}, NEW b \in Nat, NEW c \in Nat, NEW u \in Nat,
         NEW j \in b..(b + w - 1), NEW k \in b..(b + w - 1),
         Place(c, w, b, u, j) = Place(c, w, b, u, k)
  PROVE  j = k
<1> DEFINE x == c + (w - Passed(w, b, u)) + (j - b)
           y == c + (w - Passed(w, b, u)) + (k - b)
<1>1. x \in Nat /\ y \in Nat /\ x - y < w /\ y - x < w /\ (x = y => j = k)
  BY DEF Passed
<1>2. x % w = y % w
  BY DEF Place
<1> HIDE DEF x, y
<1> QED
  BY <1>1, <1>2, RemaindersDiffer

LEMMA PlaceIs ==
  ASSUME NEW w \in Nat \ {0}, NEW b \in Nat, NEW c \in Nat, NEW u \in Nat,
         NEW slot \in b..(b + w - 1)
  PROVE  Place(c, w, b, u, slot) + 1 \in 1..w
<1> DEFINE x == c + (w - Passed(w, b, u)) + (slot - b)
<1>1. x \in Nat
  BY DEF Passed
<1>2. Place(c, w, b, u, slot) = x % w
  BY DEF Place
<1> HIDE DEF x
<1>3. x % w \in 0..(w - 1)
  BY <1>1, Division
<1> QED
  BY <1>2, <1>3

\* The shards s of all providers, for the snapshots m.
Fleet(s, m, t) ==
    \A p \in Providers : Known(m[p]) /\ ShardInv(s[p], m[p], t)

LEMMA FleetLists ==
  ASSUME SchedulerSound, NEW s, NEW m, NEW t, Fleet(s, m, t), NEW q, NEW p \in Providers
  PROVE  /\ Weight(s, q, p) \in Nat
         /\ q \in DOMAIN s[p].buckets <=> Weight(s, q, p) # 0
         /\ q \in DOMAIN s[p].buckets =>
              /\ Weight(s, q, p) = Len(Flat(s[p], q)) /\ Cursor(s[p], q) \in Nat
              /\ \A i \in 1..Len(Flat(s[p], q)) : Flat(s[p], q)[i] \in DOMAIN m[p] \cap Auths
              /\ \A i, j \in 1..Len(Flat(s[p], q)) :
                    Flat(s[p], q)[i] = Flat(s[p], q)[j] => i = j
<1>1. CASE q \notin DOMAIN s[p].buckets
  BY <1>1 DEF Weight
<1>2. CASE q \in DOMAIN s[p].buckets
  <2> DEFINE shard == s[p]
             n == Len(Flat(shard, q))
             R == Ring(shard, q)
  <2>1. Known(m[p]) /\ ShardInv(shard, m[p], t) /\ q \in DOMAIN shard.buckets
    BY <1>2 DEF Fleet
  <2>2. Weight(s, q, p) = n
    BY <1>2 DEF Weight, Flat
  <2> HIDE DEF shard
  <2>3. /\ Circle(R, n) /\ Cursor(shard, q) \in Nat
        /\ \A i \in 1..n : Flat(shard, q)[i] \in DOMAIN m[p] \cap Auths
    BY <2>1, RingIs
  <2>4. n \in Nat \ {0} /\ \A i, j \in 0..(n - 1) : R[i] = R[j] => i = j
    BY <2>3 DEF Circle
  <2>5. \A i \in 0..(n - 1) : R[i] = Flat(shard, q)[i + 1]
    BY DEF Ring
  <2> HIDE DEF n, R
  <2>6. ASSUME NEW i \in 1..n, NEW j \in 1..n, Flat(shard, q)[i] = Flat(shard, q)[j]
        PROVE  i = j
    <3>1. i - 1 \in 0..(n - 1) /\ j - 1 \in 0..(n - 1) /\ (i - 1) + 1 = i /\ (j - 1) + 1 = j
      BY <2>4
    <3>2. R[i - 1] = R[j - 1]
      BY <2>5, <2>6, <3>1
    <3>3. i - 1 = j - 1
      BY <2>4, <3>1, <3>2
    <3> QED
      BY <3>1, <3>3
  <2> QED
    BY <2>1, <2>2, <2>3, <2>4, <2>6 DEF n, shard
<1> QED
  BY <1>1, <1>2

\* The credential of a slot when the wheel is at u.
Seat(s, q, u, slot) ==
    LET i == StartProvider(s, q, slot)
        p == Mixed[i]
    IN  Flat(s[p], q)[Place(Cursor(s[p], q), Weight(s, q, p), SegmentStart(s, q, i), u, slot) + 1]
Wheel(s, q, u) == [slot \in 0..(TotalWeight(s, q) - 1) |-> Seat(s, q, u, slot)]

LEMMA TotalIs ==
  ASSUME SchedulerSound, NEW s, NEW m, NEW t, Fleet(s, m, t), NEW q
  PROVE  TotalWeight(s, q) \in Nat
<1>1. \A p \in Providers : Weight(s, q, p) \in Nat
  BY FleetLists
<1>2. Len(Mixed) + 1 \in 1..(Len(Mixed) + 1)
  BY LenProperties DEF SchedulerSound
<1> QED
  BY <1>1, <1>2, SegmentFacts DEF TotalWeight

\* What is known of a slot.
SeatFacts(s, m, q, u, slot) ==
    LET i == StartProvider(s, q, slot)
        p == Mixed[i]
        b == SegmentStart(s, q, i)
        w == Weight(s, q, p)
        c == Cursor(s[p], q)
        k == Place(c, w, b, u, slot) + 1
    IN  /\ i \in 1..Len(Mixed) /\ p \in Providers /\ q \in DOMAIN s[p].buckets
        /\ b \in Nat /\ w \in Nat \ {0} /\ c \in Nat /\ slot \in b..(b + w - 1)
        /\ b + w <= TotalWeight(s, q)
        /\ w = Len(Flat(s[p], q)) /\ k \in 1..w
        /\ Seat(s, q, u, slot) = Flat(s[p], q)[k]
        /\ Seat(s, q, u, slot) \in DOMAIN m[p] \cap Auths

LEMMA SeatIs ==
  ASSUME SchedulerSound, NEW s, NEW m, NEW t, Fleet(s, m, t), NEW q, NEW u \in Nat,
         NEW slot \in 0..(TotalWeight(s, q) - 1)
  PROVE  SeatFacts(s, m, q, u, slot)
<1> DEFINE i == StartProvider(s, q, slot)
           p == Mixed[i]
           b == SegmentStart(s, q, i)
           w == Weight(s, q, p)
           c == Cursor(s[p], q)
           k == Place(c, w, b, u, slot) + 1
<1>1. \A r \in Providers : Weight(s, q, r) \in Nat
  BY FleetLists
<1>2. /\ i \in 1..Len(Mixed) /\ b \in Nat /\ w \in Nat \ {0}
      /\ slot \in b..(b + w - 1) /\ b + w <= TotalWeight(s, q)
  BY <1>1, StartIs
<1>3. Seat(s, q, u, slot) = Flat(s[p], q)[k]
  BY DEF Seat
<1>4. p \in Providers
  <2>1. Len(Mixed) \in Nat /\ \A j \in 1..Len(Mixed) : Mixed[j] \in Providers
    BY LenProperties DEF SchedulerSound
  <2> QED
    BY <1>2, <2>1
<1> HIDE DEF i
<1>5. /\ q \in DOMAIN s[p].buckets /\ w = Len(Flat(s[p], q)) /\ c \in Nat
      /\ \A j \in 1..Len(Flat(s[p], q)) : Flat(s[p], q)[j] \in DOMAIN m[p] \cap Auths
  <2> HIDE DEF p
  <2> QED
    BY <1>2, <1>4, FleetLists
<1> HIDE DEF p, b, w, c
<1>6. k \in 1..w
  BY <1>2, <1>5, PlaceIs
<1> HIDE DEF k
<1>7. Seat(s, q, u, slot) \in DOMAIN m[p] \cap Auths
  BY <1>3, <1>5, <1>6
<1> QED
  BY <1>2, <1>3, <1>4, <1>5, <1>6, <1>7 DEF i, p, b, w, c, k, SeatFacts

\* No credential has two slots of the wheel.
LEMMA WheelIs ==
  ASSUME TurnsSound, NEW s, NEW m, NEW t, Fleet(s, m, t), NEW q, NEW u \in Nat,
         \A p, r \in Providers : p # r => (DOMAIN m[p]) \cap (DOMAIN m[r]) = {},
         TotalWeight(s, q) # 0
  PROVE  Circle(Wheel(s, q, u), TotalWeight(s, q))
<1> DEFINE T == TotalWeight(s, q)
           i(x) == StartProvider(s, q, x)
           p(x) == Mixed[i(x)]
           b(x) == SegmentStart(s, q, i(x))
           w(x) == Weight(s, q, p(x))
           c(x) == Cursor(s[p(x)], q)
           pl(x) == Place(c(x), w(x), b(x), u, x)
<1>0. SchedulerSound
  BY DEF TurnsSound
<1>1. T \in Nat \ {0}
  BY <1>0, TotalIs
<1>2. ASSUME NEW x \in 0..(T - 1), NEW y \in 0..(T - 1), Seat(s, q, u, x) = Seat(s, q, u, y)
      PROVE  x = y
  <2>1. ASSUME NEW z \in 0..(T - 1)
        PROVE  /\ i(z) \in 1..Len(Mixed) /\ p(z) \in Providers /\ q \in DOMAIN s[p(z)].buckets
               /\ b(z) \in Nat /\ w(z) \in Nat \ {0} /\ c(z) \in Nat /\ z \in b(z)..(b(z) + w(z) - 1)
               /\ w(z) = Len(Flat(s[p(z)], q)) /\ pl(z) + 1 \in 1..w(z)
               /\ Seat(s, q, u, z) = Flat(s[p(z)], q)[pl(z) + 1]
               /\ Seat(s, q, u, z) \in DOMAIN m[p(z)]
    <3>1. z \in 0..(TotalWeight(s, q) - 1)
      OBVIOUS
    <3>2. SeatFacts(s, m, q, u, z)
      BY <1>0, <3>1, SeatIs
    <3> QED
      BY <3>2 DEF SeatFacts
  <2>2. p(x) = p(y)
    BY <1>2, <2>1
  <2>3. i(x) = i(y)
    <3>1. i(x) \in 1..Len(Mixed) /\ i(y) \in 1..Len(Mixed)
      BY <2>1
    <3>2. DOMAIN Mixed = 1..Len(Mixed)
      BY <1>0, LenProperties DEF SchedulerSound
    <3> QED
      BY <2>2, <3>1, <3>2 DEF TurnsSound
  <2>4. b(x) = b(y) /\ w(x) = w(y) /\ c(x) = c(y)
    BY <2>3
  <2>5. \A j, k \in 1..Len(Flat(s[p(x)], q)) :
           Flat(s[p(x)], q)[j] = Flat(s[p(x)], q)[k] => j = k
    <3>1. p(x) \in Providers /\ q \in DOMAIN s[p(x)].buckets
      BY <2>1
    <3> DEFINE r == p(x)
    <3> HIDE DEF r
    <3>2. r \in Providers /\ q \in DOMAIN s[r].buckets
      BY <3>1 DEF r
    <3>3. \A j, k \in 1..Len(Flat(s[r], q)) : Flat(s[r], q)[j] = Flat(s[r], q)[k] => j = k
      BY <1>0, <3>2, FleetLists
    <3> QED
      BY <3>3 DEF r
  <2>6. /\ Flat(s[p(x)], q)[pl(x) + 1] = Flat(s[p(x)], q)[pl(y) + 1]
        /\ pl(x) + 1 \in 1..Len(Flat(s[p(x)], q)) /\ pl(y) + 1 \in 1..Len(Flat(s[p(x)], q))
    BY <1>2, <2>1, <2>2, <2>4
  <2>7. pl(x) + 1 = pl(y) + 1
    BY <2>5, <2>6
  <2> DEFINE W == w(x)
             B == b(x)
             C == c(x)
  <2>8. /\ W \in Nat \ {0} /\ B \in Nat /\ C \in Nat
        /\ x \in B..(B + W - 1) /\ y \in B..(B + W - 1)
    BY <2>1, <2>4
  <2>9. Place(C, W, B, u, x) + 1 = Place(C, W, B, u, y) + 1
    BY <2>4, <2>7
  <2> HIDE DEF W, B, C
  <2>10. Place(C, W, B, u, x) + 1 \in 1..W /\ Place(C, W, B, u, y) + 1 \in 1..W
    BY <2>8, PlaceIs
  <2>11. Place(C, W, B, u, x) \in Int /\ Place(C, W, B, u, y) \in Int
    <3>1. /\ C + (W - Passed(W, B, u)) + (x - B) \in Int
          /\ C + (W - Passed(W, B, u)) + (y - B) \in Int
      BY <2>8 DEF Passed
    <3> QED
      BY <2>8, <3>1 DEF Place
  <2>12. Place(C, W, B, u, x) = Place(C, W, B, u, y)
    BY <2>9, <2>11
  <2> QED
    BY <2>8, <2>12, PlacesDiffer
<1> HIDE DEF T
<1>3. DOMAIN Wheel(s, q, u) = 0..(T - 1) /\ \A x \in 0..(T - 1) : Wheel(s, q, u)[x] = Seat(s, q, u, x)
  BY DEF Wheel, T
<1>4. \A x, y \in 0..(T - 1) : Wheel(s, q, u)[x] = Wheel(s, q, u)[y] => x = y
  BY <1>2, <1>3
<1> QED
  BY <1>1, <1>3, <1>4 DEF Circle, T

\* While the lists stay the segments stay.
AllSame(s, z) == \A p \in Providers : SameFlats(s[p], z[p])

LEMMA SegmentsSame ==
  ASSUME SchedulerSound, NEW s, NEW z, AllSame(s, z), NEW q
  PROVE  /\ \A p \in Providers : Weight(z, q, p) = Weight(s, q, p)
         /\ \A i \in 1..(Len(Mixed) + 1) : SegmentStart(z, q, i) = SegmentStart(s, q, i)
         /\ TotalWeight(z, q) = TotalWeight(s, q)
<1>1. Len(Mixed) \in Nat /\ \A j \in 1..Len(Mixed) : Mixed[j] \in Providers
  BY LenProperties DEF SchedulerSound
<1>2. \A p \in Providers : Weight(z, q, p) = Weight(s, q, p)
  BY DEF AllSame, SameFlats, Weight, Flat
<1>3. ASSUME NEW i \in 1..(Len(Mixed) + 1)
      PROVE  SegmentStart(z, q, i) = SegmentStart(s, q, i)
  <2>1. \A j \in 1..(i - 1) : Weight(z, q, Mixed[j]) = Weight(s, q, Mixed[j])
    BY <1>1, <1>2
  <2>2. Before(z, q, i) = Before(s, q, i)
    BY <2>1 DEF Before
  <2> QED
    BY <2>2 DEF SegmentStart
<1>4. Len(Mixed) + 1 \in 1..(Len(Mixed) + 1)
  BY <1>1
<1> QED
  BY <1>2, <1>3, <1>4 DEF TotalWeight

LEMMA StartSame ==
  ASSUME SchedulerSound, NEW s, NEW m, NEW t, Fleet(s, m, t), NEW z, NEW o, NEW v, Fleet(z, o, v),
         AllSame(s, z), NEW q, NEW slot \in 0..(TotalWeight(s, q) - 1)
  PROVE  StartProvider(z, q, slot) = StartProvider(s, q, slot)
<1> DEFINE i == StartProvider(s, q, slot)
           j == StartProvider(z, q, slot)
           B(k) == SegmentStart(s, q, k)
           W(k) == Weight(s, q, Mixed[k])
<1>1. Len(Mixed) \in Nat /\ \A k \in 1..Len(Mixed) : Mixed[k] \in Providers
  BY LenProperties DEF SchedulerSound
<1>2. \A p \in Providers : Weight(s, q, p) \in Nat /\ Weight(z, q, p) \in Nat
  BY FleetLists
<1>3. /\ \A p \in Providers : Weight(z, q, p) = Weight(s, q, p)
      /\ \A k \in 1..(Len(Mixed) + 1) : SegmentStart(z, q, k) = SegmentStart(s, q, k)
      /\ TotalWeight(z, q) = TotalWeight(s, q)
  BY SegmentsSame
<1>4. /\ i \in 1..Len(Mixed) /\ B(i) \in Nat /\ W(i) \in Nat \ {0}
      /\ slot \in B(i)..(B(i) + W(i) - 1)
      /\ \A k \in 1..Len(Mixed) : k # i =>
            /\ B(k) \in Nat /\ W(k) \in Nat
            /\ (B(k) + W(k) <= B(i) \/ B(i) + W(i) <= B(k))
  BY <1>2, StartIs
<1>5. j \in 1..Len(Mixed) /\ slot >= SegmentStart(z, q, j)
      /\ slot < SegmentStart(z, q, j) + Weight(z, q, Mixed[j])
  <2> DEFINE b == SegmentStart(z, q, j)
             w == Weight(z, q, Mixed[j])
  <2>1. slot \in 0..(TotalWeight(z, q) - 1)
    BY <1>3
  <2>2. j \in 1..Len(Mixed) /\ b \in Nat /\ w \in Nat \ {0} /\ slot \in b..(b + w - 1)
    BY <1>2, <2>1, StartIs
  <2> HIDE DEF b, w
  <2>3. slot >= b /\ slot < b + w
    BY <2>2
  <2> QED
    BY <2>2, <2>3 DEF b, w
<1>6. SegmentStart(z, q, j) = B(j) /\ Weight(z, q, Mixed[j]) = W(j)
  <2> HIDE DEF j
  <2>1. j \in 1..(Len(Mixed) + 1) /\ Mixed[j] \in Providers
    BY <1>1, <1>5
  <2> QED
    BY <1>3, <2>1
<1> HIDE DEF i, j, B, W
<1> QED
  BY <1>4, <1>5, <1>6 DEF i, j

\* ... and the wheel too, while cursors move by whole rounds only.
AllKept(s, z) == \A p \in Providers : Kept(s[p], z[p])

LEMMA SeatSame ==
  ASSUME SchedulerSound, NEW s, NEW m, NEW t, Fleet(s, m, t), NEW z, NEW o, NEW v, Fleet(z, o, v),
         AllSame(s, z), AllKept(s, z), NEW q, NEW u \in Nat,
         NEW slot \in 0..(TotalWeight(s, q) - 1)
  PROVE  Seat(z, q, u, slot) = Seat(s, q, u, slot)
<1> DEFINE i == StartProvider(s, q, slot)
           p == Mixed[i]
           b == SegmentStart(s, q, i)
           w == Weight(s, q, p)
           c == Cursor(s[p], q)
           d == Cursor(z[p], q)
<1>1. SeatFacts(s, m, q, u, slot)
  BY SeatIs
<1>2. /\ i \in 1..Len(Mixed) /\ p \in Providers /\ q \in DOMAIN s[p].buckets
      /\ b \in Nat /\ w \in Nat \ {0} /\ c \in Nat /\ slot \in b..(b + w - 1)
      /\ w = Len(Flat(s[p], q))
  BY <1>1 DEF SeatFacts
<1>3. StartProvider(z, q, slot) = i
  BY StartSame
<1>4. SegmentStart(z, q, i) = b /\ Weight(z, q, p) = w
  <2>1. i \in 1..(Len(Mixed) + 1)
    BY <1>2
  <2> HIDE DEF i
  <2>2. SegmentStart(z, q, i) = b
    BY <2>1, SegmentsSame
  <2>3. Weight(z, q, p) = w
    BY <1>2, SegmentsSame
  <2> QED
    BY <2>2, <2>3
<1>5. Seat(z, q, u, slot) = Flat(z[p], q)[Place(d, w, b, u, slot) + 1]
  BY <1>3, <1>4 DEF Seat
<1>6. Seat(s, q, u, slot) = Flat(s[p], q)[Place(c, w, b, u, slot) + 1]
  BY DEF Seat
<1> HIDE DEF i, p
<1>7. q \in DOMAIN z[p].buckets /\ Flat(z[p], q) = Flat(s[p], q)
  BY <1>2 DEF AllSame, SameFlats
<1>8. d \in Nat
  BY <1>2, <1>7, FleetLists
<1>9. c % w = d % w
  BY <1>2, <1>7 DEF AllKept, Kept
<1> HIDE DEF b, w, c, d
<1>10. Place(c, w, b, u, slot) = Place(d, w, b, u, slot)
  <2>1. Place(c, w, b, u, slot) = Place(c % w, w, b, u, slot)
    BY <1>2, PlaceCursor
  <2>2. Place(d, w, b, u, slot) = Place(d % w, w, b, u, slot)
    BY <1>2, <1>8, PlaceCursor
  <2> QED
    BY <1>9, <2>1, <2>2
<1> QED
  BY <1>5, <1>6, <1>7, <1>10

LEMMA WheelSame ==
  ASSUME SchedulerSound, NEW s, NEW m, NEW t, Fleet(s, m, t), NEW z, NEW o, NEW v, Fleet(z, o, v),
         AllSame(s, z), AllKept(s, z), NEW q, NEW u \in Nat
  PROVE  Wheel(z, q, u) = Wheel(s, q, u)
<1>1. TotalWeight(z, q) = TotalWeight(s, q)
  BY SegmentsSame
<1>2. \A slot \in 0..(TotalWeight(s, q) - 1) : Seat(z, q, u, slot) = Seat(s, q, u, slot)
  BY SeatSame
<1> QED
  BY <1>1, <1>2 DEF Wheel

\* A full round of the wheel ends where it started.
LEMMA WheelRound ==
  ASSUME SchedulerSound, NEW s, NEW m, NEW t, Fleet(s, m, t), NEW q
  PROVE  Wheel(s, q, TotalWeight(s, q)) = Wheel(s, q, 0)
<1> DEFINE T == TotalWeight(s, q)
<1>1. T \in Nat
  BY TotalIs
<1>2. ASSUME NEW slot \in 0..(T - 1)
      PROVE  Seat(s, q, T, slot) = Seat(s, q, 0, slot)
  <2> DEFINE i == StartProvider(s, q, slot)
             p == Mixed[i]
             b == SegmentStart(s, q, i)
             w == Weight(s, q, p)
             c == Cursor(s[p], q)
  <2>1. SeatFacts(s, m, q, 0, slot)
    BY SeatIs
  <2>2. /\ b \in Nat /\ w \in Nat \ {0} /\ c \in Nat /\ slot \in b..(b + w - 1) /\ b + w <= T
    BY <2>1 DEF SeatFacts
  <2>3. /\ Seat(s, q, T, slot) = Flat(s[p], q)[Place(c, w, b, T, slot) + 1]
        /\ Seat(s, q, 0, slot) = Flat(s[p], q)[Place(c, w, b, 0, slot) + 1]
    BY DEF Seat
  <2> HIDE DEF p, b, w, c, T
  <2>4. Place(c, w, b, T, slot) = Place(c, w, b, 0, slot)
    BY <1>1, <2>2, PlaceRound
  <2> QED
    BY <2>3, <2>4
<1> QED
  BY <1>2 DEF Wheel

\* What is picked is the wheel's credential.
LEMMA SeatNow ==
  ASSUME SchedulerSound, NEW s, NEW m, NEW t, Fleet(s, m, t), NEW q,
         NEW at \in 0..(TotalWeight(s, q) - 1)
  PROVE  LET p == Mixed[StartProvider(s, q, at)]
         IN  Seat(s, q, at, at) = Flat(s[p], q)[(Cursor(s[p], q) % Len(Flat(s[p], q))) + 1]
<1> DEFINE i == StartProvider(s, q, at)
           p == Mixed[i]
           b == SegmentStart(s, q, i)
           w == Weight(s, q, p)
           c == Cursor(s[p], q)
<1>0. at \in Nat
  <2>1. TotalWeight(s, q) \in Nat
    BY TotalIs
  <2> QED
    BY <2>1
<1>1. SeatFacts(s, m, q, at, at)
  BY <1>0, SeatIs
<1>2. /\ b \in Nat /\ w \in Nat \ {0} /\ c \in Nat /\ at \in b..(b + w - 1)
      /\ w = Len(Flat(s[p], q))
  BY <1>1 DEF SeatFacts
<1>3. Seat(s, q, at, at) = Flat(s[p], q)[Place(c, w, b, at, at) + 1]
  BY DEF Seat
<1> HIDE DEF p, b, w, c
<1>4. Place(c, w, b, at, at) = c % w
  BY <1>2, PlaceNow
<1> QED
  BY <1>2, <1>3, <1>4 DEF p, c

\* After it the wheel is the same, one slot on.
LEMMA WheelMoves ==
  ASSUME TurnsSound, NEW s, NEW m, NEW t, Fleet(s, m, t), NEW z, Fleet(z, m, t),
         AllSame(s, z), NEW q, NEW at \in 0..(TotalWeight(s, q) - 1),
         LET p == Mixed[StartProvider(s, q, at)]
         IN  /\ Cursor(z[p], q) = (Cursor(s[p], q) % Len(Flat(s[p], q))) + 1
             /\ \A r \in Providers \ {p} : z[r] = s[r]
  PROVE  Wheel(z, q, at + 1) = Wheel(s, q, at)
<1> DEFINE T == TotalWeight(s, q)
           i(x) == StartProvider(s, q, x)
           p(x) == Mixed[i(x)]
           b(x) == SegmentStart(s, q, i(x))
           w(x) == Weight(s, q, p(x))
           c(x) == Cursor(s[p(x)], q)
           d(x) == Cursor(z[p(x)], q)
<1>a. SchedulerSound
  BY DEF TurnsSound
<1> USE <1>a
<1>0. T \in Nat /\ at \in Nat /\ at + 1 \in Nat
  <2>1. T \in Nat
    BY TotalIs
  <2> QED
    BY <2>1
<1>1. ASSUME NEW x \in 0..(T - 1)
      PROVE  /\ i(x) \in 1..Len(Mixed) /\ p(x) \in Providers /\ q \in DOMAIN s[p(x)].buckets
             /\ b(x) \in Nat /\ w(x) \in Nat \ {0} /\ c(x) \in Nat
             /\ x \in b(x)..(b(x) + w(x) - 1) /\ w(x) = Len(Flat(s[p(x)], q))
  <2>1. SeatFacts(s, m, q, at, x)
    BY <1>0, SeatIs
  <2> QED
    BY <2>1 DEF SeatFacts
<1>2. ASSUME NEW x \in 0..(T - 1)
      PROVE  /\ Seat(z, q, at + 1, x) =
                   Flat(s[p(x)], q)[Place(d(x), w(x), b(x), at + 1, x) + 1]
             /\ Seat(s, q, at, x) = Flat(s[p(x)], q)[Place(c(x), w(x), b(x), at, x) + 1]
  <2> DEFINE j == i(x)
             r == p(x)
  <2>1. StartProvider(z, q, x) = j
    BY StartSame
  <2>2. j \in 1..(Len(Mixed) + 1) /\ r \in Providers /\ q \in DOMAIN s[r].buckets
    BY <1>1
  <2>3. r = Mixed[j]
    OBVIOUS
  <2>4. Seat(s, q, at, x) =
           Flat(s[r], q)[Place(Cursor(s[r], q), Weight(s, q, r), SegmentStart(s, q, j), at, x) + 1]
    BY DEF Seat
  <2>5. Seat(z, q, at + 1, x) =
           Flat(z[r], q)[Place(Cursor(z[r], q), Weight(z, q, r), SegmentStart(z, q, j), at + 1, x) + 1]
    BY <2>1 DEF Seat
  <2> HIDE DEF j, r
  <2>6. SegmentStart(z, q, j) = SegmentStart(s, q, j) /\ Weight(z, q, r) = Weight(s, q, r)
    BY <2>2, SegmentsSame
  <2>7. Flat(z[r], q) = Flat(s[r], q)
    BY <2>2 DEF AllSame, SameFlats
  <2> QED
    BY <2>4, <2>5, <2>6, <2>7 DEF j, r
<1>3. ASSUME NEW x \in 0..(T - 1)
      PROVE  Place(d(x), w(x), b(x), at + 1, x) = Place(c(x), w(x), b(x), at, x)
  <2> DEFINE W == w(x)
             B == b(x)
             C == c(x)
             D == d(x)
  <2>1. W \in Nat \ {0} /\ B \in Nat /\ C \in Nat /\ x \in B..(B + W - 1) /\ W = Len(Flat(s[p(x)], q))
    BY <1>1
  <2>2. CASE i(x) = i(at)
    <3>1. at \in B..(B + W - 1)
      BY <1>1, <2>2
    <3>2. D = (C % W) + 1
      BY <2>1, <2>2
    <3> HIDE DEF W, B, C, D
    <3>3. Place((C % W) + 1, W, B, at + 1, x) = Place(C, W, B, at, x)
      BY <2>1, <3>1, PlaceMoves
    <3> QED
      BY <3>2, <3>3 DEF W, B, C, D
  <2>3. CASE i(x) # i(at)
    <3>1. p(x) # p(at)
      <4>1. DOMAIN Mixed = 1..Len(Mixed)
        BY LenProperties DEF SchedulerSound
      <4> QED
        BY <1>1, <2>3, <4>1 DEF TurnsSound
    <3>2. D = C
      BY <1>1, <3>1
    <3>3. Passed(W, B, at + 1) = Passed(W, B, at)
      <4>1. at < B \/ at >= B + W
        <5>1. \A r \in Providers : Weight(s, q, r) \in Nat
          BY FleetLists
        <5> DEFINE j == i(at)
                   E == SegmentStart(s, q, j)
                   V == Weight(s, q, Mixed[j])
        <5>2. /\ E \in Nat /\ V \in Nat \ {0} /\ at \in E..(E + V - 1)
              /\ \A k \in 1..Len(Mixed) : k # j =>
                    LET f == SegmentStart(s, q, k)
                        v == Weight(s, q, Mixed[k])
                    IN  f \in Nat /\ v \in Nat /\ (f + v <= E \/ E + V <= f)
          BY <5>1, StartIs
        <5> HIDE DEF E, V
        <5>3. B + W <= E \/ E + V <= B
          BY <1>1, <2>3, <5>2
        <5> HIDE DEF B, W
        <5> QED
          BY <2>1, <5>2, <5>3
      <4> HIDE DEF W, B
      <4> QED
        BY <1>0, <2>1, <4>1 DEF Passed
    <3> HIDE DEF W, B, C, D
    <3> QED
      BY <3>2, <3>3 DEF Place, W, B, C, D
  <2> QED
    BY <2>2, <2>3
<1>4. \A x \in 0..(T - 1) : Seat(z, q, at + 1, x) = Seat(s, q, at, x)
  BY <1>2, <1>3
<1>5. TotalWeight(z, q) = T
  BY SegmentsSame
<1> QED
  BY <1>4, <1>5 DEF Wheel

-----------------------------------------------------------------------------
(* Turns over several providers *)

Top(s) == Highest(UNION {DOMAIN s[p].buckets : p \in Providers})

\* The last picks went round the wheel of the highest priority up to the cursor.
MixedTurn(s, u, seen) ==
    LET q == Top(s)
        n == TotalWeight(s, q)
    IN  u \in 1..n /\ Walks(seen, Wheel(s, q, u), n, u)

LEMMA TopSame == ASSUME NEW s, NEW z, AllSame(s, z) PROVE Top(z) = Top(s)
BY DEF AllSame, SameFlats, Top

LEMMA MixedQuiet ==
  ASSUME SchedulerSound, NEW s, NEW m, NEW t, Fleet(s, m, t), NEW z, NEW o, NEW v,
         Fleet(z, o, v), AllSame(s, z), AllKept(s, z), NEW u, NEW seen,
         MixedTurn(s, u, seen)
  PROVE  MixedTurn(z, u, seen)
<1> DEFINE q == Top(s)
           n == TotalWeight(s, q)
<1>1. u \in 1..n /\ Walks(seen, Wheel(s, q, u), n, u)
  BY DEF MixedTurn
<1>2. u \in Nat
  <2>1. n \in Nat
    BY TotalIs
  <2> HIDE DEF n
  <2> QED
    BY <1>1, <2>1
<1>3. Top(z) = q
  BY TopSame
<1> HIDE DEF q
<1>4. TotalWeight(z, q) = n
  BY SegmentsSame
<1>5. Wheel(z, q, u) = Wheel(s, q, u)
  BY <1>2, WheelSame
<1> QED
  BY <1>1, <1>3, <1>4, <1>5 DEF MixedTurn

\* A provider with credentials at the priority has turns.
LEMMA TotalPositive ==
  ASSUME SchedulerSound, NEW s, NEW m, NEW t, Fleet(s, m, t), NEW q,
         NEW p \in Providers, q \in DOMAIN s[p].buckets
  PROVE  TotalWeight(s, q) \in Nat \ {0}
<1>1. TotalWeight(s, q) \in Nat
  BY TotalIs
<1>2. Len(Mixed) \in Nat /\ DOMAIN Mixed = 1..Len(Mixed)
  BY LenProperties DEF SchedulerSound
<1>3. PICK i \in 1..Len(Mixed) : Mixed[i] = p
  BY <1>2 DEF SchedulerSound
<1>4. \A r \in Providers : Weight(s, q, r) \in Nat
  BY FleetLists
<1>5. Weight(s, q, p) # 0
  BY FleetLists
<1>6. SegmentStart(s, q, i + 1) = SegmentStart(s, q, i) + Weight(s, q, Mixed[i])
  BY <1>4, SegmentsTile
<1>7. i \in 1..(Len(Mixed) + 1) /\ i + 1 \in 1..(Len(Mixed) + 1)
      /\ Len(Mixed) + 1 \in 1..(Len(Mixed) + 1) /\ i + 1 <= Len(Mixed) + 1
  BY <1>2
<1>8. SegmentStart(s, q, i) \in Nat
  BY <1>4, <1>7, SegmentFacts
<1>9. SegmentStart(s, q, i + 1) <= TotalWeight(s, q)
  BY <1>4, <1>7, SegmentsRise DEF TotalWeight
<1>10. SegmentStart(s, q, i + 1) \in Nat /\ SegmentStart(s, q, i + 1) # 0
  BY <1>3, <1>4, <1>5, <1>6, <1>8
<1> QED
  BY <1>1, <1>9, <1>10

\* The provider whose turn it is serves when it may.
LEMMA NextIsFrom ==
  ASSUME NEW s, NEW q, NEW allowed, Len(Mixed) \in Nat, NEW from \in 1..Len(Mixed),
         Serves(s, q, from, allowed)
  PROVE  NextProvider(s, q, from, allowed) = from
<1> DEFINE n == Len(Mixed)
           at(o) == ((from - 1 + o) % n) + 1
           Good(o) == /\ Serves(s, q, at(o), allowed)
                      /\ \A r \in 0..(o - 1) : ~Serves(s, q, at(r), allowed)
           o == CHOOSE o \in 0..(n - 1) : Good(o)
<1>1. NextProvider(s, q, from, allowed) = at(o)
  BY DEF NextProvider
<1>2. n \in Nat \ {0} /\ from - 1 \in 0..(n - 1) /\ from - 1 + 0 = from - 1
  OBVIOUS
<1>3. at(0) = from
  <2>1. (from - 1) % n = from - 1
    BY <1>2
  <2> QED
    BY <1>2, <2>1
<1>4. Good(0)
  BY <1>3
<1>5. 0 \in 0..(n - 1)
  BY <1>2
<1>6. o \in 0..(n - 1) /\ Good(o)
  <2> HIDE DEF Good, n
  <2> QED
    BY <1>4, <1>5
<1>7. o = 0
  <2>1. SUFFICES ASSUME o # 0 PROVE FALSE
    OBVIOUS
  <2>2. 0 \in 0..(o - 1)
    <3>1. o \in 0..(n - 1)
      BY <1>6
    <3> HIDE DEF o
    <3> QED
      BY <1>2, <2>1, <3>1
  <2>3. ~Serves(s, q, at(0), allowed)
    <3> HIDE DEF o, at
    <3> QED
      BY <1>6, <2>2
  <2> QED
    BY <1>3, <2>3
<1> QED
  BY <1>1, <1>3, <1>7

\* The priority of a request over several providers that has tried nothing.
LEMMA BestIsTop ==
  ASSUME SchedulerSound, NEW s, NEW m, NEW t, Fleet(s, m, t),
         \E p \in Providers : Candidates(s[p], Auths) # {}
  PROVE  /\ Best(s, Auths) = Top(s)
         /\ \E p \in Providers : Top(s) \in DOMAIN s[p].buckets
         /\ \A p \in Providers : Candidates(s[p], Auths) = DOMAIN s[p].buckets
<1> DEFINE sets == {DOMAIN s[p].buckets : p \in Providers}
           all == UNION sets
           f == [p \in Providers |-> DOMAIN s[p].buckets]
<1>1. \A p \in Providers : /\ Candidates(s[p], Auths) = DOMAIN s[p].buckets
                           /\ DOMAIN s[p].buckets \in SUBSET Int
                           /\ IsFiniteSet(DOMAIN s[p].buckets)
  BY CandidatesAll DEF Fleet
<1>2. all \in SUBSET Int /\ all # {}
  BY <1>1
<1>3. IsFiniteSet(all)
  <2>1. f \in Surjection(Providers, sets)
    BY DEF Surjection
  <2>2. \A T \in sets : IsFiniteSet(T)
    BY <1>1
  <2> HIDE DEF f, sets
  <2>3. IsFiniteSet(sets)
    BY <2>1, ProvidersFinite, FS_Surjection
  <2> QED
    BY <2>2, <2>3, FS_UNION
<1>4. Top(s) = Highest(all)
  BY DEF Top
<1>5. {Candidates(s[p], Auths) : p \in Providers} = sets
  BY <1>1
<1>6. Best(s, Auths) = Highest(all)
  BY <1>5 DEF Best
<1>7. Top(s) \in all
  <2> HIDE DEF all
  <2> QED
    BY <1>2, <1>3, <1>4, HighestIsHighest
<1> QED
  BY <1>1, <1>4, <1>6, <1>7

\* pickMixed for a request that has tried nothing.
LEMMA MixedTakes ==
  ASSUME TurnsSound, PicksInv, Owned, strategy # "fill-first",
         \E p \in Providers : Candidates(Ensured(p), Auths) # {}
  PROVE  LET s == [p \in Providers |-> Ensured(p)]
             pick == MixedPick(s, Auths)
             z == [s EXCEPT ![pick.provider] = pick.shard]
             n == TotalWeight(s, Best(s, Auths))
         IN  /\ Fleet(s, metas, now) /\ Fleet(z, metas, now) /\ AllSame(s, z)
             /\ MixedTurn(z, pick.cursor, <<pick.auth>>)
             /\ \A seen : MixedTurn(s, mixedCursor, seen) =>
                   MixedTurn(z, pick.cursor, Latest(Append(seen, pick.auth), n))
<1> DEFINE s == [p \in Providers |-> Ensured(p)]
           m == metas
           t == now
           pick == MixedPick(s, Auths)
           z == [s EXCEPT ![pick.provider] = pick.shard]
           q == Top(s)
           n == TotalWeight(s, q)
           u == mixedCursor
           slot == u % n
           start == StartProvider(s, q, slot)
           p == Mixed[start]
           i == NextProvider(s, q, start, Auths)
           found == PickAt(s[p], q, FALSE, strategy, Auths)
           G == Wheel(s, q, slot)
<1>0. SchedulerSound
  BY DEF TurnsSound
<1> USE <1>0
<1>1. Fleet(s, m, t)
  BY EnsuredInv DEF PicksInv, Fleet
<1>2. /\ pick.provider \in Providers /\ ShardInv(pick.shard, m[pick.provider], t)
      /\ pick.cursor \in Nat
  BY MixedFinds
<1>3. \E r \in Providers : Candidates(s[r], Auths) # {}
  OBVIOUS
<1>4. pick = LET b == Best(s, Auths)
                 x == u % TotalWeight(s, b)
                 y == StartProvider(s, b, x)
                 j == NextProvider(s, b, y, Auths)
                 f == PickAt(s[Mixed[j]], b, FALSE, strategy, Auths)
             IN  [auth |-> f.auth, provider |-> Mixed[j], shard |-> f.shard,
                  cursor |-> Slot(s, b, j, y, x) + 1]
  BY DEF MixedPick
<1>5. DOMAIN s = Providers
  OBVIOUS
<1> HIDE DEF s, m, t
<1>6. /\ Best(s, Auths) = q
      /\ \E r \in Providers : q \in DOMAIN s[r].buckets
      /\ \A r \in Providers : Candidates(s[r], Auths) = DOMAIN s[r].buckets
  BY <1>1, <1>3, BestIsTop
<1> HIDE DEF q
<1>7. n \in Nat \ {0}
  <2>1. PICK r \in Providers : q \in DOMAIN s[r].buckets
    BY <1>6
  <2> QED
    BY <1>1, <2>1, TotalPositive
<1>8. u \in Nat
  BY DEF PicksInv
<1>9. slot \in 0..(n - 1) /\ slot \in Nat
  <2> HIDE DEF n, u
  <2>1. u % n \in 0..(n - 1)
    BY <1>7, <1>8, Division
  <2> QED
    BY <1>7, <2>1
<1> HIDE DEF slot
<1>10. SeatFacts(s, m, q, slot, slot)
  BY <1>1, <1>9, SeatIs
<1>11. start \in 1..Len(Mixed) /\ p \in Providers /\ q \in DOMAIN s[p].buckets
  BY <1>10 DEF SeatFacts
<1>12. i = start
  <2>1. Len(Mixed) \in Nat
    BY LenProperties DEF SchedulerSound
  <2>2. Serves(s, q, start, Auths)
    BY <1>6, <1>11 DEF Serves
  <2> HIDE DEF start
  <2> QED
    BY <1>11, <2>1, <2>2, NextIsFrom
<1>13. pick = [auth |-> found.auth, provider |-> p, shard |-> found.shard,
               cursor |-> Slot(s, q, start, start, slot) + 1]
  BY <1>4, <1>6, <1>12 DEF slot
<1>14. pick.auth = found.auth /\ pick.provider = p /\ pick.shard = found.shard
       /\ pick.cursor = slot + 1
  BY <1>13 DEF Slot
<1> HIDE DEF pick
<1>15. /\ pick.auth = Flat(s[p], q)[(Cursor(s[p], q) % Len(Flat(s[p], q))) + 1]
       /\ SameFlats(s[p], pick.shard)
       /\ Cursor(pick.shard, q) = (Cursor(s[p], q) % Len(Flat(s[p], q))) + 1
  <2> DEFINE shard == s[p]
             ws == FALSE
             got == PickAt(shard, q, ws, strategy, Auths)
  <2>1. ws \in BOOLEAN /\ ~ws /\ found = got
    OBVIOUS
  <2>2. Known(m[p]) /\ ShardInv(shard, m[p], t) /\ q \in DOMAIN shard.buckets
    BY <1>1, <1>11 DEF Fleet
  <2> HIDE DEF shard, ws, p, found
  <2>3. /\ got.auth = Flat(shard, q)[(Cursor(shard, q) % Len(Flat(shard, q))) + 1]
        /\ SameFlats(shard, got.shard)
        /\ Cursor(got.shard, q) = (Cursor(shard, q) % Len(Flat(shard, q))) + 1
    BY <2>1, <2>2, PickAtTakes
  <2> QED
    BY <1>14, <2>1, <2>3 DEF shard
<1>16. z[p] = pick.shard /\ \A r \in Providers \ {p} : z[r] = s[r]
  BY <1>5, <1>11, <1>14
<1> HIDE DEF z, found
<1>17. Fleet(z, m, t)
  <2>1. ASSUME NEW r \in Providers PROVE Known(m[r]) /\ ShardInv(z[r], m[r], t)
    <3> HIDE DEF p
    <3>1. CASE r = p
      BY <1>1, <1>2, <1>14, <1>16, <3>1 DEF Fleet
    <3>2. CASE r # p
      BY <1>1, <1>16, <3>2 DEF Fleet
    <3> QED
      BY <3>1, <3>2
  <2> QED
    BY <2>1 DEF Fleet
<1>18. AllSame(s, z)
  <2> HIDE DEF p
  <2>1. ASSUME NEW r \in Providers PROVE SameFlats(s[r], z[r])
    <3>1. CASE r = p
      BY <1>15, <1>16, <3>1
    <3>2. CASE r # p
      <4>1. z[r] = s[r]
        BY <1>16, <3>2
      <4> QED
        BY <4>1 DEF SameFlats
    <3> QED
      BY <3>1, <3>2
  <2> QED
    BY <2>1 DEF AllSame
<1>19. Wheel(z, q, slot + 1) = G
  <2>1. /\ Cursor(z[p], q) = (Cursor(s[p], q) % Len(Flat(s[p], q))) + 1
        /\ \A r \in Providers \ {p} : z[r] = s[r]
    BY <1>15, <1>16
  <2> QED
    BY <1>1, <1>9, <1>17, <1>18, <2>1, WheelMoves
<1>20. pick.auth = G[u % n]
  <2>1. Seat(s, q, slot, slot) = pick.auth
    BY <1>1, <1>9, <1>15, SeatNow
  <2>2. G[slot] = Seat(s, q, slot, slot)
    BY <1>9 DEF Wheel
  <2> QED
    BY <2>1, <2>2 DEF slot
<1>21. Circle(G, n)
  <2>1. \A r, r2 \in Providers : r # r2 => (DOMAIN m[r]) \cap (DOMAIN m[r2]) = {}
    BY DEF Owned, m
  <2> QED
    BY <1>1, <1>7, <1>9, <2>1, WheelIs
<1>22. Top(z) = q /\ TotalWeight(z, q) = n
  <2>1. Top(z) = q
    BY <1>18, TopSame DEF q
  <2> QED
    BY <1>18, <2>1, SegmentsSame
<1>23. slot + 1 \in 1..n /\ (u % n) + 1 = slot + 1
  BY <1>7, <1>9 DEF slot
<1> HIDE DEF G, n
<1>24. ASSUME NEW seen, Walks(seen, G, n, slot + 1)
       PROVE  MixedTurn(z, pick.cursor, seen)
  BY <1>14, <1>19, <1>22, <1>23, <1>24 DEF MixedTurn
<1>25. MixedTurn(z, pick.cursor, <<pick.auth>>)
  <2>1. Walks(<<pick.auth>>, G, n, (u % n) + 1)
    BY <1>8, <1>20, <1>21, WalkStarts
  <2> QED
    BY <1>23, <1>24, <2>1
<1>26. ASSUME NEW seen, MixedTurn(s, u, seen)
       PROVE  MixedTurn(z, pick.cursor, Latest(Append(seen, pick.auth), n))
  <2>1. u \in 1..n /\ Walks(seen, Wheel(s, q, u), n, u)
    BY <1>26 DEF MixedTurn, n, q
  <2>2. Wheel(s, q, u) = G
    <3>1. CASE u = n
      <4>1. slot = 0
        <5>1. n % n = 0
          BY <1>7
        <5> QED
          BY <3>1, <5>1 DEF slot
      <4>2. Wheel(s, q, n) = Wheel(s, q, 0)
        BY <1>1, WheelRound DEF n
      <4> QED
        BY <3>1, <4>1, <4>2 DEF G
    <3>2. CASE u # n
      <4>1. u % n = u
        BY <1>7, <2>1, <3>2
      <4> QED
        BY <4>1 DEF G, slot
    <3> QED
      BY <3>1, <3>2
  <2>3. Walks(Latest(Append(seen, pick.auth), n), G, n, (u % n) + 1)
    BY <1>20, <2>1, <2>2, WalkStep
  <2> QED
    BY <1>23, <1>24, <2>3
<1> QED
  BY <1>1, <1>6, <1>17, <1>18, <1>25, <1>26 DEF s, m, t, z, pick, n

-----------------------------------------------------------------------------
(* The turns of all requests *)

Turns ==
    turn # None =>
        /\ turn = [kind |-> turn.kind, seen |-> turn.seen]
        /\ \/ /\ turn.kind \in Providers /\ shards[turn.kind] # None
              /\ SingleTurn(shards[turn.kind], turn.seen)
           \/ /\ turn.kind = "mixed" /\ \A p \in Providers : shards[p] # None
              /\ MixedTurn(shards, mixedCursor, turn.seen)
TurnInv == PicksInv /\ Owned /\ Turns

LEMMA SameAsThird ==
  ASSUME NEW a, NEW b, NEW c, SameFlats(a, c), SameFlats(b, c)
  PROVE  SameFlats(a, b)
BY DEF SameFlats

\* A step that picks nothing.
LEMMA QuietStep ==
  ASSUME TurnsSound, NoneIsNothing, TurnInv, PicksInv', KeptAll, KeepTurn,
         mixedCursor' = mixedCursor
  PROVE  Turns'
<1> SUFFICES ASSUME turn' # None PROVE Turns'
  BY DEF Turns
<1>0. SchedulerSound
  BY DEF TurnsSound
<1>1. Flats(shards') = Flats(shards) /\ turn' = turn /\ turn # None
  BY DEF KeepTurn
<1>2. turn = [kind |-> turn.kind, seen |-> turn.seen]
  BY <1>1 DEF TurnInv, Turns
<1>3. \A p \in Providers : shards[p] # None => shards'[p] # None /\ SameFlats(shards[p], shards'[p])
                                               /\ Kept(shards[p], shards'[p])
  <2> TAKE p \in Providers
  <2> HAVE shards[p] # None
  <2>1. shards'[p] # None
    BY <1>1, ShardStays
  <2>2. SameFlats(shards[p], shards'[p])
    BY <1>1, <2>1, FlatsAgree
  <2> QED
    BY <2>1, <2>2 DEF KeptAll
<1>4. CASE /\ turn.kind \in Providers /\ shards[turn.kind] # None
           /\ SingleTurn(shards[turn.kind], turn.seen)
  <2> DEFINE p == turn.kind
             old == shards[p]
             new == shards'[p]
  <2>1. new # None /\ SameFlats(old, new) /\ Kept(old, new)
    BY <1>3, <1>4
  <2>2. Cursors(new.buckets)
    BY <1>4, <2>1 DEF PicksInv, ShardInv
  <2> HIDE DEF old, new
  <2>3. SingleTurn(old, turn.seen)
    BY <1>4 DEF old
  <2>4. SingleTurn(new, turn.seen)
    BY <2>1, <2>2, <2>3, SingleQuiet
  <2> QED
    BY <1>1, <1>2, <1>4, <2>1, <2>4 DEF Turns, new
<1>5. CASE /\ turn.kind = "mixed" /\ \A p \in Providers : shards[p] # None
           /\ MixedTurn(shards, mixedCursor, turn.seen)
  <2>1. \A p \in Providers : shards'[p] # None
    BY <1>3, <1>5
  <2>2. Fleet(shards, metas, now) /\ Fleet(shards', metas', now')
    BY <1>5, <2>1 DEF Fleet, TurnInv, PicksInv
  <2>3. AllSame(shards, shards') /\ AllKept(shards, shards')
    BY <1>3, <1>5 DEF AllSame, AllKept
  <2>4. MixedTurn(shards', mixedCursor, turn.seen)
    BY <1>0, <1>5, <2>2, <2>3, MixedQuiet
  <2> QED
    BY <1>1, <1>2, <1>5, <2>1, <2>4 DEF Turns
<1> QED
  BY <1>1, <1>4, <1>5 DEF TurnInv, Turns

\* A pick from one provider.
LEMMA SingleTurnStep ==
  ASSUME TurnsSound, NoneIsNothing, TurnInv, NEW p \in Providers, NEW preferWs \in BOOLEAN,
         NEW allowed, PickSingle(p, preferWs, allowed)
  PROVE  Turns'
<1> SUFFICES ASSUME turn' # None PROVE Turns'
  BY DEF Turns
<1> DEFINE pick == SinglePick(p, FALSE, Auths)
           q == pick.shard.entries[pick.auth].snap.priority
           n == Len(pick.shard.buckets[q].all.flat)
           s == pick.shard
           a == pick.auth
<1>0. SchedulerSound /\ PicksInv /\ DOMAIN shards = Providers
  BY DEF TurnsSound, TurnInv, PicksInv, IndexInv
<1>1. ~preferWs /\ allowed = Auths /\ strategy # "fill-first"
  BY DEF PickSingle
<1>2. /\ Candidates(Ensured(p), Auths) # {}
      /\ shards' = [shards EXCEPT ![p] = s]
      /\ turn' = Extended(p, a, n, Flats(shards') = Flats(shards))
  BY <1>1 DEF PickSingle
<1>3. /\ SameFlats(Ensured(p), s) /\ ShardInv(s, metas[p], now)
      /\ SingleTurn(s, <<a>>)
      /\ \A seen : SingleTurn(Ensured(p), seen) => SingleTurn(s, Latest(Append(seen, a), n))
  BY <1>0, <1>1, <1>2, SingleTakes
<1> HIDE DEF n, s, a
<1>4. s # None
  BY <1>3 DEF NoneIsNothing, ShardInv, Consistent
<1>5. shards'[p] = s
  BY <1>0, <1>2
<1>6. CASE Flats(shards') = Flats(shards) /\ turn # None /\ turn.kind = p
  <2>1. turn = [kind |-> p, seen |-> turn.seen] /\ shards[p] # None
        /\ SingleTurn(shards[p], turn.seen)
    BY <1>6 DEF TurnInv, Turns, TurnsSound
  <2>2. SameFlats(shards[p], s)
    BY <1>4, <1>5, <1>6, <2>1, FlatsAgree
  <2>3. SameFlats(shards[p], Ensured(p))
    BY <1>3, <2>2, SameAsThird
  <2>4. Kept(shards[p], Ensured(p)) /\ Cursors(Ensured(p).buckets)
    BY <1>0, <2>1, EnsuredKept, EnsuredInv DEF ShardInv
  <2>5. SingleTurn(Ensured(p), turn.seen)
    BY <2>1, <2>3, <2>4, SingleQuiet
  <2> DEFINE new == Latest(Append(turn.seen, a), n)
  <2>6. SingleTurn(s, new)
    BY <1>3, <2>5
  <2>7. turn' = [turn EXCEPT !.seen = new]
    BY <1>2, <1>6 DEF Extended
  <2> HIDE DEF new
  <2>8. turn' = [kind |-> p, seen |-> new]
    BY <2>1, <2>7
  <2> QED
    BY <1>4, <1>5, <2>6, <2>8 DEF Turns
<1>7. CASE ~(Flats(shards') = Flats(shards) /\ turn # None /\ turn.kind = p)
  <2>1. turn' = [kind |-> p, seen |-> <<a>>]
    BY <1>2, <1>7 DEF Extended
  <2> QED
    BY <1>3, <1>4, <1>5, <2>1 DEF Turns
<1> QED
  BY <1>6, <1>7

\* A pick from several.
LEMMA MixedTurnStep ==
  ASSUME TurnsSound, NoneIsNothing, TurnInv, NEW allowed, PickMixed(allowed)
  PROVE  Turns'
<1> SUFFICES ASSUME turn' # None PROVE Turns'
  BY DEF Turns
<1> DEFINE s == [p \in Providers |-> Ensured(p)]
           pick == MixedPick(s, Auths)
           z == [s EXCEPT ![pick.provider] = pick.shard]
           n == TotalWeight(s, Best(s, Auths))
           a == pick.auth
           u == pick.cursor
<1>0. SchedulerSound /\ PicksInv /\ Owned
  BY DEF TurnsSound, TurnInv
<1>1. allowed = Auths /\ strategy # "fill-first"
  BY DEF PickMixed
<1>2. /\ \E p \in Providers : Candidates(Ensured(p), Auths) # {}
      /\ shards' = z /\ mixedCursor' = u
      /\ turn' = Extended("mixed", a, n, Flats(shards') = Flats(shards))
  BY <1>1 DEF PickMixed
<1>3. /\ Fleet(s, metas, now) /\ Fleet(z, metas, now) /\ AllSame(s, z)
      /\ MixedTurn(z, u, <<a>>)
      /\ \A seen : MixedTurn(s, mixedCursor, seen) =>
            MixedTurn(z, u, Latest(Append(seen, a), n))
  BY <1>0, <1>1, <1>2, MixedTakes
<1>7. \A p \in Providers : s[p] = Ensured(p)
  OBVIOUS
<1> HIDE DEF s, z, n, a, u
<1>4. \A p \in Providers : z[p] # None
  BY <1>3 DEF NoneIsNothing, Fleet, ShardInv, Consistent
<1>5. CASE Flats(shards') = Flats(shards) /\ turn # None /\ turn.kind = "mixed"
  <2>1. turn = [kind |-> "mixed", seen |-> turn.seen] /\ (\A p \in Providers : shards[p] # None)
        /\ MixedTurn(shards, mixedCursor, turn.seen)
    BY <1>5 DEF TurnInv, Turns, TurnsSound
  <2>2. ASSUME NEW p \in Providers
        PROVE  SameFlats(shards[p], s[p]) /\ Kept(shards[p], s[p])
    <3>1. SameFlats(shards[p], z[p])
      <4>1. shards[p] # None /\ z[p] # None /\ Flats(z) = Flats(shards)
        BY <1>2, <1>4, <1>5, <2>1
      <4> QED
        BY <4>1, FlatsAgree
    <3>2. SameFlats(s[p], z[p])
      BY <1>3 DEF AllSame
    <3>3. SameFlats(shards[p], s[p])
      BY <3>1, <3>2, SameAsThird
    <3>4. Kept(shards[p], Ensured(p))
      BY <1>0, <2>1, EnsuredKept
    <3> QED
      BY <1>7, <3>3, <3>4
  <2>3. AllSame(shards, s) /\ AllKept(shards, s)
    BY <2>2 DEF AllSame, AllKept
  <2>4. Fleet(shards, metas, now)
    BY <1>0, <2>1 DEF Fleet, PicksInv
  <2>5. MixedTurn(s, mixedCursor, turn.seen)
    BY <1>0, <1>3, <2>1, <2>3, <2>4, MixedQuiet
  <2> DEFINE new == Latest(Append(turn.seen, a), n)
  <2>6. MixedTurn(z, u, new)
    BY <1>3, <2>5
  <2>7. turn' = [turn EXCEPT !.seen = new]
    BY <1>2, <1>5 DEF Extended
  <2> HIDE DEF new
  <2>8. turn' = [kind |-> "mixed", seen |-> new]
    BY <2>1, <2>7
  <2> QED
    BY <1>2, <1>4, <2>6, <2>8 DEF Turns
<1>6. CASE ~(Flats(shards') = Flats(shards) /\ turn # None /\ turn.kind = "mixed")
  <2>1. turn' = [kind |-> "mixed", seen |-> <<a>>]
    BY <1>2, <1>6 DEF Extended
  <2> QED
    BY <1>2, <1>3, <1>4, <2>1 DEF Turns
<1> QED
  BY <1>5, <1>6

LEMMA TurnInvStep ==
  ASSUME TurnsSound, NoneIsNothing, TurnInv, [Next]_vars
  PROVE  TurnInv'
<1>0. /\ SchedulerSound /\ None \notin Providers /\ PicksInv /\ IndexInv /\ Owned
  BY DEF TurnsSound, TurnInv, PicksInv
<1>1. PicksInv'
  BY <1>0, PicksInvStep
<1>2. Owned'
  BY <1>0, OwnedStep
<1>3. ASSUME NEW a \in Auths, NEW p \in Providers, NEW snap \in Snapshots, UpsertAuth(a, p, snap)
      PROVE  Turns'
  <2>1. KeptAll
    BY <1>0, <1>3, UpsertKeepsAll
  <2>2. KeepTurn /\ mixedCursor' = mixedCursor
    BY <1>3 DEF UpsertAuth
  <2> QED
    BY <1>1, <2>1, <2>2, QuietStep
<1>4. ASSUME NEW a \in Auths, RemoveAuth(a)
      PROVE  Turns'
  <2>1. KeptAll
    BY <1>0, <1>4, RemoveKeepsAll
  <2>2. KeepTurn /\ mixedCursor' = mixedCursor
    BY <1>4 DEF RemoveAuth
  <2> QED
    BY <1>1, <2>1, <2>2, QuietStep
<1>5. ASSUME Rebuild
      PROVE  Turns'
  BY <1>5 DEF Rebuild, Turns
<1>6. ASSUME NEW s \in Strategies, SetSelector(s)
      PROVE  Turns'
  BY <1>6 DEF SetSelector, Turns
<1>7. ASSUME NEW providers, NEW allowed, PickNothing(providers, allowed)
      PROVE  Turns'
  <2>1. KeptAll
    BY <1>0, <1>7, NothingKeepsAll
  <2>2. KeepTurn /\ mixedCursor' = mixedCursor
    BY <1>7 DEF PickNothing
  <2> QED
    BY <1>1, <2>1, <2>2, QuietStep
<1>8. ASSUME NEW allowed, NEW p \in Providers, NEW preferWs \in BOOLEAN,
             PickSingle(p, preferWs, allowed)
      PROVE  Turns'
  BY <1>8, SingleTurnStep
<1>9. ASSUME NEW allowed, PickMixed(allowed)
      PROVE  Turns'
  BY <1>9, MixedTurnStep
<1>10. ASSUME Tick \/ UNCHANGED vars
       PROVE  Turns'
  <2>1. shards' = shards /\ turn' = turn /\ mixedCursor' = mixedCursor
    BY <1>10 DEF Tick, vars
  <2> QED
    BY <2>1 DEF TurnInv, Turns
<1> QED
  BY <1>1, <1>2, <1>3, <1>4, <1>5, <1>6, <1>7, <1>8, <1>9, <1>10 DEF Next, TurnInv

\* As long as the ready credentials stay the same, the requests that have tried
\* nothing yet take them in turn: none is picked again before each of the others,
\* within a provider or over several (scheduler.go:341-398, 663-760, 860-960).
THEOREM TurnsAreFair ==
  ASSUME TurnsSound, NoneIsNothing
  PROVE  Spec => []FairTurns
<1>1. Init => TurnInv
  <2> SUFFICES ASSUME Init PROVE TurnInv
    OBVIOUS
  <2>1. \A p \in Providers : metas[p] = NoEntries /\ shards[p] = None
    BY DEF Init
  <2>2. Known(NoEntries) /\ DOMAIN NoEntries = {}
    BY DEF Known, NoEntries
  <2>3. PicksInv
    BY <2>1, <2>2 DEF Init, PicksInv, IndexInv
  <2>4. Owned
    BY <2>1, <2>2 DEF Init, Owned
  <2> QED
    BY <2>3, <2>4 DEF TurnInv, Turns, Init
<1>2. TurnInv /\ [Next]_vars => TurnInv'
  BY TurnInvStep
<1>3. TurnInv => FairTurns
  <2> SUFFICES ASSUME TurnInv, turn # None PROVE IsInjective(turn.seen)
    BY DEF FairTurns
  <2>1. CASE turn.kind \in Providers /\ SingleTurn(shards[turn.kind], turn.seen)
    BY <2>1, WalkIsInjective DEF SingleTurn
  <2>2. CASE MixedTurn(shards, mixedCursor, turn.seen)
    BY <2>2, WalkIsInjective DEF MixedTurn
  <2> QED
    BY <2>1, <2>2 DEF TurnInv, Turns
<1> QED
  BY <1>1, <1>2, <1>3, PTL DEF Spec
=============================================================================
