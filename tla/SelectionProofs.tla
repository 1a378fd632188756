--------------------------- MODULE SelectionProofs ---------------------------
(***************************************************************************)
(* CountsExact and CacheFresh for any clients, models, providers, readers  *)
(* and clocks, and the scheduler's properties from the theorems that come  *)
(* with it.                                                                *)
(*                                                                         *)
(* A registration that is exact for what the other clients list and for    *)
(* what one client lists stays exact when that client lists something      *)
(* else, whatever its provider was and becomes.  That the counts are exact *)
(* is also what keeps a registration there as long as a client refers to   *)
(* it, and so its quota marks times, which CacheFresh needs: a client that *)
(* is out of quota at some time was so at any earlier one, and none that   *)
(* was recovers before the cached list expires.                            *)
(***************************************************************************)
EXTENDS Selection, FiniteSetTheorems, WellFoundedInduction, TLAPS

Shapes == [count : Nat, providers : [Providers -> Nat],
           exceeded : [Clients -> Nat], suspended : [Clients -> Reasons]]

\* Finitely many clients, and an absent registration is none.
Sound == /\ IsFiniteSet(Clients) /\ MaxCopies \in Nat /\ Window \in Nat
         /\ None \notin Shapes /\ None \notin Providers

\* The bindings to model m of the clients in C, when f is what they list.
SlotsOf(f, m, C) == {b \in C \X (1..MaxCopies) : b[2] <= f[b[1]][m]}
BindingsOf(f, m, C) == Cardinality(SlotsOf(f, m, C))
Through(g, C, p) == {d \in C : g[d] = p}

\* A registration is exact for total bindings, counts[p] of them through p.
Exact(reg, total, counts) ==
    IF total = 0 THEN reg = None
    ELSE reg \in Shapes /\ reg.count = total /\ reg.providers = counts

-----------------------------------------------------------------------------
(* Bindings *)

\* Finitely many clients have finitely many bindings, ...
LEMMA SlotsFinite ==
  ASSUME Sound, NEW f, NEW m, NEW C \in SUBSET Clients
  PROVE  IsFiniteSet(SlotsOf(f, m, C)) /\ BindingsOf(f, m, C) \in Nat
<1>1. IsFiniteSet(C) /\ IsFiniteSet(1..MaxCopies)
  BY FS_Subset, FS_Interval DEF Sound
<1>2. IsFiniteSet(C \X (1..MaxCopies))
  BY <1>1, FS_Product
<1>3. SlotsOf(f, m, C) \in SUBSET (C \X (1..MaxCopies))
  BY DEF SlotsOf
<1>4. IsFiniteSet(SlotsOf(f, m, C))
  BY <1>2, <1>3, FS_Subset
<1> QED
  BY <1>4, FS_CardinalityType DEF BindingsOf

\* ... a client has as many as it lists copies, ...
LEMMA OwnBindings ==
  ASSUME Sound, NEW c, NEW k \in 0..MaxCopies
  PROVE  IsFiniteSet({c} \X (1..k)) /\ Cardinality({c} \X (1..k)) = k
<1>1. IsFiniteSet({c}) /\ Cardinality({c}) = 1
  BY FS_Singleton
<1>2. IsFiniteSet(1..k) /\ Cardinality(1..k) = k
  BY FS_Interval DEF Sound
<1>3. /\ IsFiniteSet({c} \X (1..k))
      /\ Cardinality({c} \X (1..k)) = Cardinality({c}) * Cardinality(1..k)
  BY <1>1, <1>2, FS_Product
<1>4. Cardinality({c} \X (1..k)) = 1 * k
  BY <1>1, <1>2, <1>3
<1> QED
  BY <1>3, <1>4

\* ... and they add up.
LEMMA BindingsSplit ==
  ASSUME Sound, NEW f \in [Clients -> Listings], NEW m \in Models,
         NEW C \in SUBSET Clients, NEW c \in C
  PROVE  /\ BindingsOf(f, m, C) = BindingsOf(f, m, C \ {c}) + f[c][m]
         /\ BindingsOf(f, m, C \ {c}) \in Nat /\ f[c][m] \in 0..MaxCopies
<1> DEFINE A == SlotsOf(f, m, C \ {c})
           B == {c} \X (1..f[c][m])
<1>1. f[c][m] \in 0..MaxCopies
  BY DEF Listings
<1>2. IsFiniteSet(B) /\ Cardinality(B) = f[c][m]
  BY <1>1, OwnBindings
<1>3. IsFiniteSet(A) /\ Cardinality(A) \in Nat
  BY SlotsFinite DEF BindingsOf
<1>4. A \cap B = {}
  BY DEF SlotsOf
<1>5. SlotsOf(f, m, C) = A \cup B
  <2>1. ASSUME NEW b \in SlotsOf(f, m, C)
        PROVE  b \in A \cup B
    <3>1. /\ b \in C \X (1..MaxCopies) /\ b[2] <= f[b[1]][m]
          /\ b = <<b[1], b[2]>> /\ b[1] \in C /\ b[2] \in 1..MaxCopies
      BY <2>1 DEF SlotsOf
    <3>2. CASE b[1] = c
      BY <1>1, <3>1, <3>2 DEF Sound
    <3>3. CASE b[1] # c
      BY <3>1, <3>3 DEF SlotsOf
    <3> QED
      BY <3>2, <3>3
  <2>2. ASSUME NEW b \in B
        PROVE  b \in SlotsOf(f, m, C)
    BY <1>1, <2>2 DEF SlotsOf, Sound
  <2>3. A \subseteq SlotsOf(f, m, C)
    BY DEF SlotsOf
  <2> QED
    BY <2>1, <2>2, <2>3
<1> HIDE DEF A, B
<1>6. Cardinality(A \cup B) = Cardinality(A) + Cardinality(B) - Cardinality(A \cap B)
  BY <1>2, <1>3, FS_Union
<1>7. Cardinality(A \cap B) = 0
  BY <1>4, FS_EmptySet
<1>8. Cardinality(A \cup B) = Cardinality(A) + Cardinality(B)
  BY <1>1, <1>2, <1>3, <1>6, <1>7
<1> QED
  BY <1>1, <1>2, <1>3, <1>5, <1>8 DEF BindingsOf, A

\* They depend on the clients they are counted for alone.
LEMMA BindingsSame ==
  ASSUME NEW f, NEW g, NEW m, NEW C, \A d \in C : f[d][m] = g[d][m]
  PROVE  BindingsOf(f, m, C) = BindingsOf(g, m, C)
<1>1. \A b \in C \X (1..MaxCopies) : f[b[1]][m] = g[b[1]][m]
  OBVIOUS
<1>2. SlotsOf(f, m, C) = SlotsOf(g, m, C)
  BY <1>1 DEF SlotsOf
<1> QED
  BY <1>2 DEF BindingsOf

-----------------------------------------------------------------------------
(* Registrations.  others and each[p] are what the other clients bind.       *)

WithOne(each, p, k) ==
    [q \in Providers |-> IF q = p THEN each[q] + k ELSE each[q]]

\* The update that adds k bindings through p.
LEMMA CountedUp ==
  ASSUME NEW reg \in Shapes, NEW p \in Providers, NEW k \in Nat
  PROVE  LET r == [reg EXCEPT !.count = @ + k, !.providers[p] = @ + k]
         IN  /\ r \in Shapes /\ r.count = reg.count + k
             /\ r.providers = WithOne(reg.providers, p, k)
<1> DEFINE r == [reg EXCEPT !.count = @ + k, !.providers[p] = @ + k]
           ps == [reg.providers EXCEPT ![p] = @ + k]
<1>1. /\ DOMAIN r = {"count", "providers", "exceeded", "suspended"}
      /\ r.count = reg.count + k /\ r.exceeded = reg.exceeded
      /\ r.suspended = reg.suspended
  BY DEF Shapes
<1>2. r.providers = ps
  BY DEF Shapes
<1>4. ps = WithOne(reg.providers, p, k) /\ ps \in [Providers -> Nat]
  BY DEF WithOne, Shapes
<1> HIDE DEF ps
<1>5. r.count \in Nat
  BY <1>1 DEF Shapes
<1>6. r \in Shapes
  BY <1>2, <1>4, <1>5 DEF Shapes
<1> QED
  BY <1>1, <1>2, <1>4, <1>6

\* addModelRegistration for a client that had no binding.
LEMMA AddedExact ==
  ASSUME Sound, NEW others \in Nat, NEW each \in [Providers -> Nat],
         others = 0 => \A p \in Providers : each[p] = 0,
         NEW reg, Exact(reg, others, each), NEW p \in Providers, NEW k \in Nat
  PROVE  Exact(Added(reg, p, k), others + k, WithOne(each, p, k))
<1>1. CASE k = 0
  <2>1. WithOne(each, p, k) = each
    BY <1>1 DEF WithOne
  <2> QED
    BY <1>1, <2>1 DEF Added
<1>2. CASE k > 0 /\ others = 0
  <2>1. reg = None /\ Empty \in Shapes
    BY <1>2 DEF Exact, Empty, Shapes, Reasons
  <2> DEFINE r == [Empty EXCEPT !.count = @ + k, !.providers[p] = @ + k]
  <2>2. Added(reg, p, k) = r
    BY <1>2, <2>1 DEF Added
  <2>3. /\ r \in Shapes /\ r.count = Empty.count + k
        /\ r.providers = WithOne(Empty.providers, p, k)
    BY <2>1, CountedUp
  <2> HIDE DEF r
  <2>4. r.count = k /\ r.providers = WithOne(each, p, k)
    BY <1>2, <2>3 DEF Empty, WithOne
  <2> QED
    BY <1>2, <2>2, <2>3, <2>4 DEF Exact
<1>3. CASE k > 0 /\ others > 0
  <2>1. reg \in Shapes /\ reg.count = others /\ reg.providers = each /\ reg # None
    BY <1>3 DEF Exact, Sound
  <2> DEFINE r == [reg EXCEPT !.count = @ + k, !.providers[p] = @ + k]
             base == IF reg = None THEN Empty ELSE reg
  <2>2. Added(reg, p, k) = [base EXCEPT !.count = @ + k, !.providers[p] = @ + k]
    BY <1>3 DEF Added
  <2>3. base = reg
    BY <2>1
  <2>4. Added(reg, p, k) = r
    BY <2>2, <2>3
  <2>5. /\ r \in Shapes /\ r.count = reg.count + k
        /\ r.providers = WithOne(reg.providers, p, k)
    BY <2>1, CountedUp
  <2> HIDE DEF r
  <2> QED
    BY <1>3, <2>1, <2>4, <2>5 DEF Exact
<1> QED
  BY <1>1, <1>2, <1>3

\* removeModelRegistration for all the bindings of a client.
LEMMA RemovedExact ==
  ASSUME Sound, NEW others \in Nat, NEW each \in [Providers -> Nat],
         NEW reg, NEW c \in Clients, NEW p \in Providers, NEW k \in Nat,
         Exact(reg, others + k, WithOne(each, p, k))
  PROVE  Exact(Removed(reg, c, p, k), others, each)
<1>1. CASE k = 0
  <2>1. WithOne(each, p, k) = each
    BY <1>1 DEF WithOne
  <2> QED
    BY <1>1, <2>1 DEF Removed
<1>2. CASE k > 0
  <2>1. /\ reg \in Shapes /\ reg.count = others + k /\ reg.providers = WithOne(each, p, k)
        /\ reg # None
    BY <1>2 DEF Exact, Sound
  <2>2. CASE others = 0
    BY <1>2, <2>1, <2>2 DEF Removed, Exact
  <2>3. CASE others > 0
    <3> DEFINE r == [reg EXCEPT !.count = @ - k, !.providers[p] = Minus(@, k),
                                !.exceeded[c] = 0, !.suspended[c] = ""]
    <3>1. Removed(reg, c, p, k) = r
      BY <1>2, <2>1, <2>3 DEF Removed
    <3>2. \A n \in Nat : Minus(n + k, k) = n
      BY DEF Minus
    <3>3. r.count = others
      BY <2>1 DEF Shapes
    <3>4. r.providers = each
      BY <2>1, <3>2 DEF Shapes, WithOne
    <3>5. r \in Shapes
      BY <2>1, <3>3, <3>4 DEF Shapes, Reasons
    <3> QED
      BY <2>3, <3>1, <3>3, <3>4, <3>5 DEF Exact
  <2> QED
    BY <2>2, <2>3
<1> QED
  BY <1>1, <1>2

-----------------------------------------------------------------------------
(* A client that lists anew: old bindings through from become new bindings   *)
(* through to.                                                               *)

\* The last update of RegisterClient for a binding that remains.
Again(reg, c, p, k) ==
    [reg EXCEPT !.providers[p] = @ + k, !.exceeded[c] = 0, !.suspended[c] = ""]

\* It gives the binding a fresh snapshot, and counts what changed providers.
LEMMA Refreshed ==
  ASSUME NEW reg \in Shapes, NEW c \in Clients, NEW p \in Providers, NEW k \in Nat
  PROVE  /\ Again(reg, c, p, k) \in Shapes
         /\ Again(reg, c, p, k).count = reg.count
         /\ Again(reg, c, p, k).providers = WithOne(reg.providers, p, k)
<1> DEFINE r == Again(reg, c, p, k)
           ps == [reg.providers EXCEPT ![p] = @ + k]
<1>1. r.count = reg.count
  BY DEF Shapes, Again
<1>2. r.providers = ps
  BY DEF Shapes, Again
<1>3. ps = WithOne(reg.providers, p, k) /\ ps \in [Providers -> Nat]
  BY DEF WithOne, Shapes
<1> HIDE DEF ps
<1>4. r \in Shapes
  BY <1>2, <1>3 DEF Shapes, Reasons, Again
<1> QED
  BY <1>1, <1>2, <1>3, <1>4

\* The overlap changes providers, the rest is removed and added.
LEMMA ReconciledExact ==
  ASSUME Sound, NEW others \in Nat, NEW each \in [Providers -> Nat],
         others = 0 => \A p \in Providers : each[p] = 0,
         NEW reg, NEW c \in Clients, NEW from \in Providers, NEW to \in Providers,
         NEW old \in Nat, NEW new \in Nat,
         Exact(reg, others + old, WithOne(each, from, old))
  PROVE  Exact(Reconciled(reg, c, from, to, old, new),
               others + new, WithOne(each, to, new))
<1> DEFINE L       == Least(old, new)
           overlap == IF from = to THEN 0 ELSE L
           stays   == IF from = to THEN L ELSE 0
           less    == Minus(old, new)
           more    == Minus(new, old)
           a == IF overlap = 0 THEN reg
                ELSE [reg EXCEPT !.providers[from] = Minus(@, overlap)]
           b == Removed(a, c, from, less)
           d == Added(b, to, more)
           kept == others + L
           counts == WithOne(each, from, stays)
<1>1. /\ L \in Nat /\ less \in Nat /\ more \in Nat
      /\ old = L + less /\ new = L + more
      /\ overlap \in Nat /\ stays \in Nat /\ overlap + stays = L
      /\ kept \in Nat
  BY DEF Least, Minus
<1>2. /\ counts \in [Providers -> Nat]
      /\ kept = 0 => \A p \in Providers : counts[p] = 0
  <2> HIDE DEF stays, L
  <2>1. kept = 0 => others = 0 /\ stays = 0
    BY <1>1
  <2> QED
    BY <1>1, <2>1 DEF WithOne
<1>3. Exact(a, kept + less, WithOne(counts, from, less))
  <2>1. others + old = kept + less
    BY <1>1
  <2>2. CASE overlap = 0
    <3>1. stays = L
      BY <1>1, <2>2
    <3> HIDE DEF stays, L, less
    <3>2. WithOne(counts, from, less) = WithOne(each, from, old)
      BY <1>1, <3>1 DEF WithOne
    <3> QED
      BY <2>1, <2>2, <3>2
  <2>3. CASE overlap # 0
    <3>1. stays = 0 /\ overlap = L /\ L > 0
      BY <1>1, <2>3
    <3>2. reg \in Shapes /\ reg.count = others + old /\ reg.providers = WithOne(each, from, old)
      BY <1>1, <3>1 DEF Exact
    <3> DEFINE ps == [reg.providers EXCEPT ![from] = Minus(@, L)]
    <3>3. a.count = reg.count /\ a.providers = ps
      BY <2>3, <3>1, <3>2 DEF Shapes
    <3>4. ps = WithOne(counts, from, less) /\ ps \in [Providers -> Nat]
      <4>1. \A n \in Nat : Minus(n + old, L) = n + less
        BY <1>1 DEF Minus
      <4>2. counts = each
        BY <3>1 DEF WithOne
      <4> HIDE DEF L, less, counts
      <4>3. ps = WithOne(each, from, less)
        <5>1. /\ reg.providers \in [Providers -> Nat]
              /\ reg.providers[from] = each[from] + old
          BY <3>2 DEF WithOne, Shapes
        <5>2. Minus(reg.providers[from], L) = each[from] + less
          BY <4>1, <5>1
        <5>3. /\ DOMAIN ps = Providers /\ ps[from] = each[from] + less
              /\ \A q \in Providers \ {from} : ps[q] = each[q]
          BY <3>2, <5>1, <5>2 DEF WithOne
        <5>4. ps = [q \in DOMAIN ps |-> ps[q]]
          BY <5>1
        <5> HIDE DEF ps
        <5> QED
          BY <5>3, <5>4 DEF WithOne
      <4>4. WithOne(each, from, less) \in [Providers -> Nat]
        BY <1>1 DEF WithOne
      <4> QED
        BY <4>2, <4>3, <4>4
    <3> HIDE DEF ps
    <3>5. a \in Shapes
      BY <2>3, <3>1, <3>2, <3>3, <3>4 DEF Shapes
    <3> QED
      BY <1>1, <2>1, <3>1, <3>2, <3>3, <3>4, <3>5 DEF Exact
  <2> QED
    BY <2>2, <2>3
<1> HIDE DEF a, kept, counts, less, more
<1>4. Exact(b, kept, counts)
  BY <1>1, <1>2, <1>3, RemovedExact
<1> HIDE DEF b
<1>5. Exact(d, kept + more, WithOne(counts, to, more))
  BY <1>1, <1>2, <1>4, AddedExact
<1>6. Reconciled(reg, c, from, to, old, new) =
         IF new = 0 THEN d
         ELSE Again(d, c, to, overlap)
  BY DEF Reconciled, Again, a, b, less, more
<1>7. kept + more = others + new
  BY <1>1 DEF kept
<1> HIDE DEF d
<1>8. CASE new = 0
  <2>1. L = 0 /\ more = 0 /\ stays = 0
    BY <1>1, <1>8
  <2>2. WithOne(counts, to, more) = WithOne(each, to, new)
    BY <1>8, <2>1 DEF WithOne, counts
  <2> QED
    BY <1>5, <1>6, <1>7, <1>8, <2>2
<1>9. CASE new > 0
  <2> HIDE DEF overlap
  <2> DEFINE r == Again(d, c, to, overlap)
  <2>1. d \in Shapes /\ d.count = others + new /\ d.providers = WithOne(counts, to, more)
    BY <1>5, <1>7, <1>9 DEF Exact
  <2>2. /\ r \in Shapes /\ r.count = d.count
        /\ r.providers = WithOne(d.providers, to, overlap)
    BY <1>1, <2>1, Refreshed, ZenonT(30)
  <2>3. WithOne(WithOne(counts, to, more), to, overlap) = WithOne(each, to, new)
    <3> USE DEF overlap
    <3>1. CASE from = to
      <4>1. overlap = 0 /\ stays = L
        BY <3>1
      <4> HIDE DEF L
      <4> QED
        BY <1>1, <3>1, <4>1 DEF WithOne, counts
    <3>2. CASE from # to
      <4>1. overlap = L /\ stays = 0
        BY <3>2
      <4> HIDE DEF L
      <4> QED
        BY <1>1, <3>2, <4>1 DEF WithOne, counts
    <3> QED
      BY <3>1, <3>2
  <2> HIDE DEF r
  <2>4. Reconciled(reg, c, from, to, old, new) = r
    BY <1>6, <1>9 DEF r
  <2> QED
    BY <1>9, <2>1, <2>2, <2>3, <2>4 DEF Exact
<1> QED
  BY <1>8, <1>9

-----------------------------------------------------------------------------
(* What one client binds, and what the others do                             *)

Counts(f, g, m)  == [p \in Providers |-> BindingsOf(f, m, Through(g, Clients, p))]
Others(f, m, c)  == BindingsOf(f, m, Clients \ {c})
Each(f, g, m, c) == [p \in Providers |-> BindingsOf(f, m, Through(g, Clients \ {c}, p))]

\* The bindings through each provider, of the others and of one more client.
Combined(each, p, k) == IF p \in Providers THEN WithOne(each, p, k) ELSE each

Shared(f, g, m, c) ==
    /\ Others(f, m, c) \in Nat /\ Each(f, g, m, c) \in [Providers -> Nat]
    /\ Others(f, m, c) = 0 => \A p \in Providers : Each(f, g, m, c)[p] = 0
    /\ f[c][m] \in Nat
    /\ BindingsOf(f, m, Clients) = Others(f, m, c) + f[c][m]
    /\ Counts(f, g, m) = Combined(Each(f, g, m, c), g[c], f[c][m])

\* One client's bindings and those of the others make up all of them.
LEMMA ClientShare ==
  ASSUME Sound, NEW f \in [Clients -> Listings], NEW g, NEW m \in Models,
         NEW c \in Clients
  PROVE  Shared(f, g, m, c)
<1> DEFINE k == f[c][m]
           each == Each(f, g, m, c)
<1>1. \A p : Through(g, Clients \ {c}, p) \in SUBSET (Clients \ {c})
  BY DEF Through
<1>2. each \in [Providers -> Nat] /\ Others(f, m, c) \in Nat
  BY <1>1, SlotsFinite DEF Each, Others
<1>3. ASSUME Others(f, m, c) = 0, NEW p \in Providers
      PROVE  each[p] = 0
  <2> DEFINE T == Through(g, Clients \ {c}, p)
  <2>1. SlotsOf(f, m, T) \in SUBSET SlotsOf(f, m, Clients \ {c})
    BY DEF SlotsOf, Through
  <2>2. IsFiniteSet(SlotsOf(f, m, Clients \ {c}))
    BY SlotsFinite
  <2>3. SlotsOf(f, m, Clients \ {c}) = {}
    BY <1>3, <2>2, FS_EmptySet DEF Others, BindingsOf
  <2>4. BindingsOf(f, m, T) = 0
    BY <2>1, <2>3, FS_EmptySet DEF BindingsOf
  <2> QED
    BY <2>4 DEF Each
<1>4. \A C \in SUBSET Clients : c \in C =>
         BindingsOf(f, m, C) = BindingsOf(f, m, C \ {c}) + k
  BY BindingsSplit
<1> k \in Nat
  BY DEF Listings, Sound
<1>5. \A p \in Providers :
         BindingsOf(f, m, Through(g, Clients, p)) =
            IF g[c] = p THEN each[p] + k ELSE each[p]
  <2> TAKE p \in Providers
  <2>1. Through(g, Clients, p) \in SUBSET Clients
    BY DEF Through
  <2>2. CASE g[c] = p
    <3>1. /\ c \in Through(g, Clients, p)
          /\ Through(g, Clients, p) \ {c} = Through(g, Clients \ {c}, p)
      BY <2>2 DEF Through
    <3>2. BindingsOf(f, m, Through(g, Clients, p)) =
             BindingsOf(f, m, Through(g, Clients \ {c}, p)) + k
      BY <1>4, <2>1, <3>1
    <3> HIDE DEF k
    <3> QED
      BY <2>2, <3>2 DEF Each
  <2>3. CASE g[c] # p
    <3>1. Through(g, Clients, p) = Through(g, Clients \ {c}, p)
      BY <2>3 DEF Through
    <3> QED
      BY <2>3, <3>1 DEF Each
  <2> QED
    BY <2>2, <2>3
<1> HIDE DEF k, each
<1>6. Counts(f, g, m) = Combined(each, g[c], k)
  <2>1. CASE g[c] \in Providers
    BY <1>5, <2>1 DEF Counts, Combined, WithOne
  <2>2. CASE g[c] \notin Providers
    <3>1. \A q \in Providers : BindingsOf(f, m, Through(g, Clients, q)) = each[q]
      BY <1>5, <2>2
    <3>2. Counts(f, g, m) = [q \in Providers |-> each[q]]
      BY <3>1 DEF Counts
    <3> QED
      BY <1>2, <2>2, <3>2 DEF Combined
  <2> QED
    BY <2>1, <2>2
<1>7. BindingsOf(f, m, Clients) = Others(f, m, c) + k
  BY <1>4 DEF Others
<1> QED
  BY <1>2, <1>3, <1>6, <1>7 DEF k, each, Shared

\* The others' part is their own.
Agree(f, g, f2, g2, c) == \A d \in Clients \ {c} : f2[d] = f[d] /\ g2[d] = g[d]

\* What one client lists is nothing to the others.
LEMMA OthersKeep ==
  ASSUME NEW f, NEW g, NEW f2, NEW g2, NEW m \in Models, NEW c \in Clients,
         Agree(f, g, f2, g2, c)
  PROVE  Others(f2, m, c) = Others(f, m, c) /\ Each(f2, g2, m, c) = Each(f, g, m, c)
<1>1. Others(f2, m, c) = Others(f, m, c)
  BY BindingsSame DEF Others, Agree
<1>2. \A p : Through(g2, Clients \ {c}, p) = Through(g, Clients \ {c}, p)
  BY DEF Through, Agree
<1>3. \A p : BindingsOf(f2, m, Through(g, Clients \ {c}, p)) =
             BindingsOf(f, m, Through(g, Clients \ {c}, p))
  <2> TAKE p
  <2>1. \A d \in Through(g, Clients \ {c}, p) : f2[d][m] = f[d][m]
    BY DEF Through, Agree
  <2> QED
    BY <2>1, BindingsSame
<1> QED
  BY <1>1, <1>2, <1>3 DEF Each

-----------------------------------------------------------------------------
(* The invariant of the registrations *)

BindingInv ==
    /\ now \in Nat
    /\ bound \in [Clients -> Listings] /\ DOMAIN provider = Clients
    /\ \A c \in Clients : bound[c] # Nothing => provider[c] \in Providers
    /\ DOMAIN models = Models

ExactInv ==
    \A m \in Models :
        Exact(models[m], BindingsOf(bound, m, Clients), Counts(bound, provider, m))

\* Every registration takes it over when client c lists new through p.
Carried(reg, reg2, from, old, p, new) ==
    \A others \in Nat, each \in [Providers -> Nat] :
       /\ others = 0 => \A q \in Providers : each[q] = 0
       /\ Exact(reg, others + old, Combined(each, from, old))
       => Exact(reg2, others + new, Combined(each, p, new))
TakenOver(c, p, new) ==
    \A m \in Models : Carried(models[m], models'[m], provider[c], bound[c][m], p, new[m])

\* One client rebinds: every registration takes it over.
LEMMA Rebinding ==
  ASSUME Sound, BindingInv, ExactInv, NEW c \in Clients, NEW new \in Listings,
         NEW p, p \in Providers \/ new = Nothing,
         bound' = [bound EXCEPT ![c] = new], provider' = [provider EXCEPT ![c] = p],
         DOMAIN models' = Models, now' \in Nat,
         TakenOver(c, p, new)
  PROVE  BindingInv' /\ ExactInv'
<1>1. BindingInv'
  BY DEF BindingInv
<1>2. ASSUME NEW m \in Models
      PROVE  Exact(models'[m], BindingsOf(bound', m, Clients), Counts(bound', provider', m))
  <2> DEFINE others == Others(bound, m, c)
             each == Each(bound, provider, m, c)
  <2>1. bound \in [Clients -> Listings] /\ bound' \in [Clients -> Listings]
    BY <1>1 DEF BindingInv
  <2>2. /\ others \in Nat /\ each \in [Providers -> Nat]
        /\ others = 0 => \A q \in Providers : each[q] = 0
        /\ BindingsOf(bound, m, Clients) = others + bound[c][m]
        /\ Counts(bound, provider, m) = Combined(each, provider[c], bound[c][m])
    <3>1. Shared(bound, provider, m, c)
      BY <2>1, ClientShare
    <3> QED
      BY <3>1 DEF Shared
  <2>3. Others(bound', m, c) = others /\ Each(bound', provider', m, c) = each
    <3>1. Agree(bound, provider, bound', provider', c)
      BY DEF BindingInv, Agree
    <3> QED
      BY <3>1, OthersKeep
  <2>4. /\ BindingsOf(bound', m, Clients) = Others(bound', m, c) + bound'[c][m]
        /\ Counts(bound', provider', m) =
              Combined(Each(bound', provider', m, c), provider'[c], bound'[c][m])
    <3>1. Shared(bound', provider', m, c)
      BY <2>1, ClientShare
    <3> QED
      BY <3>1 DEF Shared
  <2>5. bound'[c] = new /\ provider'[c] = p
    BY DEF BindingInv
  <2> HIDE DEF others, each
  <2>6. /\ BindingsOf(bound', m, Clients) = others + new[m]
        /\ Counts(bound', provider', m) = Combined(each, p, new[m])
    BY <2>3, <2>4, <2>5
  <2>7. Exact(models[m], others + bound[c][m], Combined(each, provider[c], bound[c][m]))
    BY <2>2 DEF ExactInv
  <2> QED
    BY <2>2, <2>6, <2>7 DEF TakenOver, Carried
<1> QED
  BY <1>1, <1>2 DEF ExactInv, Counts

-----------------------------------------------------------------------------
(* Clients that register and clients that go *)

\* RegisterClient of a client the registry does not know, ...
LEMMA RegisterNewStep ==
  ASSUME Sound, BindingInv, ExactInv, NEW c \in Clients, NEW p \in Providers,
         NEW new \in Listings, RegisterNew(c, p, new)
  PROVE  BindingInv' /\ ExactInv'
<1>1. /\ bound[c] = Nothing
      /\ models' = [m \in Models |-> Added(models[m], p, new[m])]
      /\ bound' = [bound EXCEPT ![c] = new] /\ provider' = [provider EXCEPT ![c] = p]
      /\ now' \in Nat
  BY DEF RegisterNew, BindingInv
<1>2. ASSUME NEW m \in Models
      PROVE  Carried(models[m], models'[m], provider[c], bound[c][m], p, new[m])
  <2>1. bound[c][m] = 0 /\ new[m] \in Nat /\ models'[m] = Added(models[m], p, new[m])
    BY <1>1 DEF Nothing, Listings, Sound
  <2> SUFFICES ASSUME NEW others \in Nat, NEW each \in [Providers -> Nat],
                      others = 0 => \A q \in Providers : each[q] = 0,
                      Exact(models[m], others + 0, Combined(each, provider[c], 0))
               PROVE  Exact(models'[m], others + new[m], Combined(each, p, new[m]))
    BY <2>1 DEF Carried
  <2>2. Combined(each, provider[c], 0) = each /\ others + 0 = others
    BY DEF Combined, WithOne
  <2>3. Exact(Added(models[m], p, new[m]), others + new[m], WithOne(each, p, new[m]))
    BY <2>1, <2>2, AddedExact
  <2> QED
    BY <2>1, <2>3 DEF Combined
<1>3. TakenOver(c, p, new) /\ DOMAIN models' = Models
  BY <1>1, <1>2 DEF TakenOver
<1> QED
  BY <1>1, <1>3, Rebinding

\* ... or knows already, ...
LEMMA RegisterAgainStep ==
  ASSUME Sound, BindingInv, ExactInv, NEW c \in Clients, NEW p \in Providers,
         NEW new \in Listings, RegisterAgain(c, p, new)
  PROVE  BindingInv' /\ ExactInv'
<1>1. /\ bound[c] # Nothing /\ provider[c] \in Providers
      /\ models' = [m \in Models |-> Reconciled(models[m], c, provider[c], p,
                                                bound[c][m], new[m])]
      /\ bound' = [bound EXCEPT ![c] = new] /\ provider' = [provider EXCEPT ![c] = p]
      /\ now' \in Nat
  BY DEF RegisterAgain, BindingInv
<1>2. ASSUME NEW m \in Models
      PROVE  Carried(models[m], models'[m], provider[c], bound[c][m], p, new[m])
  <2>1. /\ bound[c][m] \in Nat /\ new[m] \in Nat
        /\ models'[m] = Reconciled(models[m], c, provider[c], p, bound[c][m], new[m])
    BY <1>1 DEF Listings, Sound, BindingInv
  <2> SUFFICES ASSUME NEW others \in Nat, NEW each \in [Providers -> Nat],
                      others = 0 => \A q \in Providers : each[q] = 0,
                      Exact(models[m], others + bound[c][m],
                            Combined(each, provider[c], bound[c][m]))
               PROVE  Exact(models'[m], others + new[m], Combined(each, p, new[m]))
    BY DEF Carried
  <2>2. Exact(models[m], others + bound[c][m], WithOne(each, provider[c], bound[c][m]))
    BY <1>1 DEF Combined
  <2>3. Exact(Reconciled(models[m], c, provider[c], p, bound[c][m], new[m]),
              others + new[m], WithOne(each, p, new[m]))
    BY <1>1, <2>1, <2>2, ReconciledExact
  <2> QED
    BY <2>1, <2>3 DEF Combined
<1>3. TakenOver(c, p, new) /\ DOMAIN models' = Models
  BY <1>1, <1>2 DEF TakenOver
<1> QED
  BY <1>1, <1>3, Rebinding

\* A removal takes the credential out of the registry first, ...
LEMMA UnregisterStep ==
  ASSUME Sound, BindingInv, ExactInv, NEW c \in Clients, Unregister(c)
  PROVE  BindingInv' /\ ExactInv'
<1>1. /\ models' = [m \in Models |-> Removed(models[m], c, provider[c], bound[c][m])]
      /\ bound' = [bound EXCEPT ![c] = Nothing] /\ provider' = [provider EXCEPT ![c] = None]
      /\ now' \in Nat
  BY DEF Unregister, BindingInv
<1>2. ASSUME NEW m \in Models
      PROVE  Carried(models[m], models'[m], provider[c], bound[c][m], None, Nothing[m])
  <2>1. /\ bound[c][m] \in Nat /\ Nothing[m] = 0
        /\ models'[m] = Removed(models[m], c, provider[c], bound[c][m])
        /\ bound[c][m] # 0 => provider[c] \in Providers
    BY <1>1 DEF Listings, Sound, BindingInv, Nothing
  <2> SUFFICES ASSUME NEW others \in Nat, NEW each \in [Providers -> Nat],
                      Exact(models[m], others + bound[c][m],
                            Combined(each, provider[c], bound[c][m]))
               PROVE  Exact(models'[m], others + 0, Combined(each, None, 0))
    BY <2>1 DEF Carried
  <2>2. Combined(each, None, 0) = each /\ others + 0 = others
    BY DEF Combined, Sound
  <2>3. CASE bound[c][m] = 0
    <3>1. Combined(each, provider[c], 0) = each
      BY DEF Combined, WithOne
    <3> QED
      BY <2>1, <2>2, <2>3, <3>1 DEF Removed
  <2>4. CASE bound[c][m] # 0
    <3>1. Exact(models[m], others + bound[c][m], WithOne(each, provider[c], bound[c][m]))
      BY <2>1, <2>4 DEF Combined
    <3>2. Exact(Removed(models[m], c, provider[c], bound[c][m]), others, each)
      BY <2>1, <2>4, <3>1, RemovedExact
    <3> QED
      BY <2>1, <2>2, <3>2
  <2> QED
    BY <2>3, <2>4
<1>3. TakenOver(c, None, Nothing) /\ DOMAIN models' = Models
  BY <1>1, <1>2 DEF TakenOver
<1>4. Nothing \in Listings
  BY DEF Nothing, Listings, Sound
<1> QED
  BY <1>1, <1>3, <1>4, Rebinding

-----------------------------------------------------------------------------
(* Marks: whatever changes nothing but who is set aside *)

\* A registration that keeps its counts stays exact.
LEMMA MarksStep ==
  ASSUME Sound, BindingInv, ExactInv, UNCHANGED <<bound, provider>>, now' \in Nat,
         DOMAIN models' = Models,
         \A m \in Models : \/ models'[m] = models[m]
                           \/ /\ models[m] # None
                              /\ models[m] \in Shapes => /\ models'[m] \in Shapes
                                                         /\ models'[m].count = models[m].count
                                                         /\ models'[m].providers = models[m].providers
  PROVE  BindingInv' /\ ExactInv'
<1>1. BindingInv'
  BY DEF BindingInv
<1>2. ASSUME NEW m \in Models
      PROVE  Exact(models'[m], BindingsOf(bound, m, Clients), Counts(bound, provider, m))
  <2>1. Exact(models[m], BindingsOf(bound, m, Clients), Counts(bound, provider, m))
    BY DEF ExactInv
  <2> HIDE DEF BindingsOf, Counts
  <2> QED
    BY <2>1 DEF Exact
<1> QED
  BY <1>1, <1>2 DEF ExactInv, Counts

\* A client is set aside for a model, or no longer.
LEMMA SetAsideStep ==
  ASSUME Sound, BindingInv, ExactInv, NEW c \in Clients, NEW m \in Models,
         \/ SetModelQuotaExceeded(c, m)
         \/ ClearModelQuotaExceeded(c, m)
         \/ \E reason \in Reasons \ {""} : SuspendClientModel(c, m, reason)
         \/ ResumeClientModel(c, m)
  PROVE  BindingInv' /\ ExactInv'
<1>1. /\ now \in Nat /\ DOMAIN models = Models
      /\ now' \in Nat /\ UNCHANGED <<bound, provider>> /\ models[m] # None
  BY DEF BindingInv, SetModelQuotaExceeded, ClearModelQuotaExceeded, SuspendClientModel,
         ResumeClientModel
<1>2. \/ \E t \in Nat : models' = [models EXCEPT ![m].exceeded[c] = t]
      \/ \E reason \in Reasons : models' = [models EXCEPT ![m].suspended[c] = reason]
  <2>1. CASE SetModelQuotaExceeded(c, m)
    BY <1>1, <2>1 DEF SetModelQuotaExceeded
  <2>2. CASE ClearModelQuotaExceeded(c, m)
    BY <2>2 DEF ClearModelQuotaExceeded
  <2>3. CASE \E reason \in Reasons \ {""} : SuspendClientModel(c, m, reason)
    BY <2>3 DEF SuspendClientModel
  <2>4. CASE ResumeClientModel(c, m)
    BY <2>4 DEF ResumeClientModel, Reasons
  <2> QED
    BY <2>1, <2>2, <2>3, <2>4
<1>3. \/ \E t \in Nat : models' = [models EXCEPT ![m] = [models[m] EXCEPT !.exceeded[c] = t]]
      \/ \E reason \in Reasons :
            models' = [models EXCEPT ![m] = [models[m] EXCEPT !.suspended[c] = reason]]
  BY <1>2
<1>4. DOMAIN models' = Models /\ \A n \in Models \ {m} : models'[n] = models[n]
  BY <1>1, <1>3
<1>5. models[m] \in Shapes => /\ models'[m] \in Shapes
                              /\ models'[m].count = models[m].count
                              /\ models'[m].providers = models[m].providers
  <2>1. CASE \E t \in Nat :
                models' = [models EXCEPT ![m] = [models[m] EXCEPT !.exceeded[c] = t]]
    <3>1. PICK t \in Nat : models'[m] = [models[m] EXCEPT !.exceeded[c] = t]
      BY <1>1, <2>1
    <3> DEFINE e == [models[m].exceeded EXCEPT ![c] = t]
    <3>2. models'[m] = [models[m] EXCEPT !.exceeded = e]
      BY <3>1
    <3>3. models[m] \in Shapes => e \in [Clients -> Nat]
      BY DEF Shapes
    <3> HIDE DEF e
    <3> QED
      BY <3>2, <3>3 DEF Shapes
  <2>2. CASE \E reason \in Reasons :
                models' = [models EXCEPT ![m] = [models[m] EXCEPT !.suspended[c] = reason]]
    <3>1. PICK reason \in Reasons : models'[m] = [models[m] EXCEPT !.suspended[c] = reason]
      BY <1>1, <2>2
    <3> DEFINE e == [models[m].suspended EXCEPT ![c] = reason]
    <3>2. models'[m] = [models[m] EXCEPT !.suspended = e]
      BY <3>1
    <3>3. models[m] \in Shapes => e \in [Clients -> Reasons]
      BY DEF Shapes
    <3> HIDE DEF e
    <3> QED
      BY <3>2, <3>3 DEF Shapes
  <2> QED
    BY <1>3, <2>1, <2>2
<1> QED
  BY <1>1, <1>4, <1>5, MarksStep

\* The expired marks go.
LEMMA CleanupStep ==
  ASSUME Sound, BindingInv, ExactInv, CleanupExpiredQuotas
  PROVE  BindingInv' /\ ExactInv'
<1> DEFINE stale(m, c) == /\ models[m] # None
                          /\ models[m].exceeded[c] # 0
                          /\ now >= Recovers(m, c)
           kept(m) == [c \in Clients |-> IF stale(m, c) THEN 0 ELSE models[m].exceeded[c]]
<1>1. /\ models' = [m \in Models |-> IF models[m] = None THEN None
                                     ELSE [models[m] EXCEPT !.exceeded = kept(m)]]
      /\ UNCHANGED <<bound, provider>> /\ now' \in Nat
  BY DEF CleanupExpiredQuotas, BindingInv
<1> HIDE DEF stale
<1>2. ASSUME NEW m \in Models, models[m] \in Shapes, models[m] # None
      PROVE  /\ models'[m] \in Shapes /\ models'[m].count = models[m].count
             /\ models'[m].providers = models[m].providers
  <2>1. kept(m) \in [Clients -> Nat]
    BY <1>2 DEF Shapes
  <2> HIDE DEF kept
  <2> QED
    BY <1>1, <1>2, <2>1 DEF Shapes
<1> HIDE DEF kept
<1>3. \A m \in Models : models[m] = None => models'[m] = models[m]
  BY <1>1
<1> QED
  BY <1>1, <1>2, <1>3, MarksStep

-----------------------------------------------------------------------------
(* The cached list *)

\* A list was built from the registrations as they still are, with a time
\* that has been.
CacheInv ==
    /\ DOMAIN asked = Readers
    /\ \A r \in Readers : asked[r] # None => asked[r] \in Nat /\ asked[r] <= now
    /\ cache # None => \E t \in Nat : t <= now /\ cache = Built(t)

\* The earliest of some times is one of them and none is earlier.
LEMMA MinOfTimes ==
  ASSUME NEW S \in SUBSET Nat, S # {}
  PROVE  Min(S) \in S /\ \A x \in S : Min(S) <= x
<1>1. PICK x \in S : \A y \in S : ~(<<y, x>> \in OpToRel(<, Nat))
  BY NatLessThanWellFounded, WFMin
<1>2. \A y \in S : ~(y < x)
  BY <1>1 DEF OpToRel
<1>3. \A y \in S : x <= y
  BY <1>2
<1> QED
  BY <1>3 DEF Min

\* Until a list expires, it is the one that would be built.
LEMMA ListHolds ==
  ASSUME Sound, BindingInv, ExactInv, NEW t \in Nat, t <= now, cache = Built(t),
         Usable(now)
  PROVE  cache.models = Listed(now)
<1> DEFINE registered == {n \in Models : models[n] # None}
<1>1. \A m \in registered, c \in Clients : models[m].exceeded[c] \in Nat /\ Recovers(m, c) \in Nat
  BY DEF ExactInv, Exact, Shapes, Recovers, Sound
<1>2. now \in Nat
  BY DEF BindingInv
<1>3. ASSUME NEW m \in registered, NEW c \in Exceeding(m, t)
      PROVE  now < Recovers(m, c)
  <2>1. c \in Clients /\ t < Recovers(m, c)
    BY DEF Exceeding
  <2>2. Recovers(m, c) \in Recoveries(t)
    BY DEF Recoveries
  <2>3. Recoveries(t) \in SUBSET Nat
    BY <1>1 DEF Recoveries, Exceeding
  <2>4. \A x \in Recoveries(t) : t < x
    BY DEF Recoveries, Exceeding
  <2>5. /\ Min(Recoveries(t)) \in Recoveries(t)
        /\ Min(Recoveries(t)) <= Recovers(m, c)
    BY <2>2, <2>3, MinOfTimes
  <2>6. cache.expires = Min(Recoveries(t))
    BY <2>2 DEF Built
  <2>7. Min(Recoveries(t)) # 0 /\ Min(Recoveries(t)) \in Nat
    BY <2>3, <2>4, <2>5
  <2>8. now < Min(Recoveries(t))
    BY <2>6, <2>7 DEF Usable
  <2> QED
    BY <1>1, <1>2, <2>1, <2>5, <2>7, <2>8
<1>4. \A m \in registered : Exceeding(m, now) = Exceeding(m, t)
  <2> TAKE m \in registered
  <2>1. \A c \in Clients : now < Recovers(m, c) => t < Recovers(m, c)
    BY <1>1, <1>2
  <2> QED
    BY <1>3, <2>1 DEF Exceeding
<1>5. cache.models = Listed(t)
  BY DEF Built
<1>6. Listed(now) = Listed(t)
  BY <1>4 DEF Listed
<1> QED
  BY <1>5, <1>6

\* The list is dropped whenever the registrations change.
LEMMA CacheStep ==
  ASSUME BindingInv, BindingInv', CacheInv, [Next]_vars
  PROVE  CacheInv'
<1>1. CASE cache' = None /\ UNCHANGED <<now, asked>>
  BY <1>1 DEF CacheInv
<1>2. CASE UNCHANGED <<models, cache>> /\ now' \in {now, now + 1}
           /\ \/ UNCHANGED asked
              \/ \E r \in Readers : asked' = [asked EXCEPT ![r] = now]
  <2>1. DOMAIN asked' = Readers /\ now' \in Nat /\ now \in Nat /\ now <= now'
    BY <1>2 DEF CacheInv, BindingInv
  <2>2. \A r \in Readers : asked'[r] # None => asked'[r] \in Nat /\ asked'[r] <= now'
    BY <1>2, <2>1 DEF CacheInv
  <2>3. cache' # None => \E t \in Nat : t <= now' /\ cache' = Built(t)'
    <3>1. \A t : Built(t)' = Built(t)
      BY <1>2 DEF Built, Listed, Recoveries, Exceeding, Recovers, Suspended
    <3> QED
      BY <1>2, <2>1, <3>1 DEF CacheInv
  <2> QED
    BY <2>1, <2>2, <2>3 DEF CacheInv
<1>3. ASSUME NEW r \in Readers, Build(r)
      PROVE  CacheInv'
  <2>1. /\ now' = now /\ models' = models /\ asked' = [asked EXCEPT ![r] = None]
        /\ asked[r] # None /\ (cache' = cache \/ cache' = Built(asked[r]))
    BY <1>3 DEF Build
  <2>2. \A t : Built(t)' = Built(t)
    BY <2>1 DEF Built, Listed, Recoveries, Exceeding, Recovers, Suspended
  <2>3. cache' # None => \E t \in Nat : t <= now /\ cache' = Built(t)
    BY <2>1 DEF CacheInv
  <2> QED
    BY <2>1, <2>2, <2>3 DEF CacheInv
<1> QED
  BY <1>1, <1>2, <1>3 DEF Next, vars, RegisterNew, RegisterAgain, Unregister,
     SetModelQuotaExceeded, ClearModelQuotaExceeded, SuspendClientModel,
     ResumeClientModel, CleanupExpiredQuotas, ReadCache, Tick

-----------------------------------------------------------------------------
(* The theorems *)

RegistryInv == BindingInv /\ ExactInv /\ CacheInv

\* Nothing is registered at first.
LEMMA InitRegistry == ASSUME Sound, Init PROVE RegistryInv
<1>1. BindingInv
  BY DEF Init, BindingInv, Listings, Nothing, Sound
<1>2. CacheInv
  BY DEF Init, CacheInv
<1>3. ASSUME NEW m \in Models
      PROVE  Exact(models[m], BindingsOf(bound, m, Clients), Counts(bound, provider, m))
  <2>1. SlotsOf(bound, m, Clients) = {}
    BY DEF SlotsOf, Init, Nothing, Sound
  <2>2. BindingsOf(bound, m, Clients) = 0
    BY <2>1, FS_EmptySet DEF BindingsOf
  <2> QED
    BY <2>2 DEF Exact, Init
<1> QED
  BY <1>1, <1>2, <1>3 DEF RegistryInv, ExactInv

\* No step leaves one where it does not.
LEMMA RegistryStep == ASSUME Sound, RegistryInv, [Next]_vars PROVE RegistryInv'
<1> USE DEF RegistryInv
<1>1. ASSUME UNCHANGED <<bound, provider, models>>, now' \in Nat
      PROVE  BindingInv' /\ ExactInv'
  <2>1. /\ DOMAIN models' = Models /\ UNCHANGED <<bound, provider>>
        /\ \A m \in Models : models'[m] = models[m]
    BY <1>1 DEF BindingInv
  <2> QED
    BY <1>1, <2>1, MarksStep
<1>2. ASSUME NEW c \in Clients, NEW p \in Providers, NEW new \in Listings,
             RegisterNew(c, p, new)
      PROVE  BindingInv' /\ ExactInv'
  BY <1>2, RegisterNewStep
<1>3. ASSUME NEW c \in Clients, NEW p \in Providers, NEW new \in Listings,
             RegisterAgain(c, p, new)
      PROVE  BindingInv' /\ ExactInv'
  BY <1>3, RegisterAgainStep
<1>4. ASSUME NEW c \in Clients, Unregister(c)
      PROVE  BindingInv' /\ ExactInv'
  BY <1>4, UnregisterStep
<1>5. ASSUME NEW c \in Clients, NEW m \in Models,
             \/ SetModelQuotaExceeded(c, m)
             \/ ClearModelQuotaExceeded(c, m)
             \/ \E reason \in Reasons \ {""} : SuspendClientModel(c, m, reason)
             \/ ResumeClientModel(c, m)
      PROVE  BindingInv' /\ ExactInv'
  BY <1>5, SetAsideStep
<1>6. ASSUME CleanupExpiredQuotas PROVE BindingInv' /\ ExactInv'
  BY <1>6, CleanupStep
<1>7. ASSUME NEW r \in Readers, ReadCache(r) \/ Build(r)
      PROVE  BindingInv' /\ ExactInv'
  BY <1>1, <1>7 DEF ReadCache, Build, BindingInv
<1>8. ASSUME Tick PROVE BindingInv' /\ ExactInv'
  BY <1>1, <1>8 DEF Tick, BindingInv
<1>9. ASSUME UNCHANGED vars PROVE BindingInv' /\ ExactInv'
  BY <1>1, <1>9 DEF vars, BindingInv
<1>10. BindingInv' /\ ExactInv'
  BY <1>2, <1>3, <1>4, <1>5, <1>6, <1>7, <1>8, <1>9 DEF Next
<1> QED
  BY <1>10, CacheStep

\* The invariant holds throughout.
LEMMA RegistryAlways == ASSUME Sound PROVE Spec => []RegistryInv
<1>1. Init => RegistryInv
  BY InitRegistry
<1>2. RegistryInv /\ [Next]_vars => RegistryInv'
  BY RegistryStep
<1> QED
  BY <1>1, <1>2, PTL DEF Spec

\* However often clients register, list a model twice, move to another
\* provider and go, a model's counts are exactly the bindings to it, in all
\* and through each provider, and it is registered while there is one
\* (model_registry.go:277-688).
THEOREM ReferencesAreCounted == ASSUME Sound PROVE Spec => []CountsExact
<1>1. RegistryInv => CountsExact
  <2> SUFFICES ASSUME RegistryInv, NEW m \in Models
               PROVE  IF Bindings(m, Clients) = 0 THEN models[m] = None
                      ELSE /\ models[m] # None
                           /\ models[m].count = Bindings(m, Clients)
                           /\ \A p \in Providers :
                                 models[m].providers[p] =
                                     Bindings(m, {c \in Clients : provider[c] = p})
    BY DEF CountsExact
  <2>1. \A C : Bindings(m, C) = BindingsOf(bound, m, C)
    BY DEF Bindings, BindingsOf, SlotsOf
  <2>2. Exact(models[m], BindingsOf(bound, m, Clients), Counts(bound, provider, m))
    BY DEF RegistryInv, ExactInv
  <2> QED
    BY <2>1, <2>2 DEF Exact, Counts, Through, Sound
<1> QED
  BY <1>1, RegistryAlways, PTL

\* A cached list of models that is still usable is the list that would be
\* built now, though it was built with a time read before the lock was taken
\* and other goroutines change the registry in between
\* (model_registry.go:813-839).
THEOREM ListIsCurrent == ASSUME Sound PROVE Spec => []CacheFresh
<1>1. ASSUME RegistryInv, Usable(now)
      PROVE  cache.models = Listed(now)
  <2>1. PICK t \in Nat : t <= now /\ cache = Built(t)
    BY <1>1 DEF RegistryInv, CacheInv, Usable
  <2> QED
    BY <1>1, <2>1, ListHolds DEF RegistryInv
<1>2. RegistryInv => CacheFresh
  BY <1>1 DEF CacheFresh
<1> QED
  BY <1>2, RegistryAlways, PTL

-----------------------------------------------------------------------------
(* The scheduler's part *)

\* The indexes of every shard say what the latest snapshots of the provider's
\* credentials say, after any upserts, removals, promotions and picks
\* (scheduler.go:631-660, 730-775, 961-1020).
THEOREM IndexesAreCurrent == Picks!Spec => []IndexesConsistent
<1>1. Picks!IndexesConsistent => IndexesConsistent
  BY DEF IndexesConsistent
<1>2. Picks!Spec => []Picks!IndexesConsistent
  BY Picks!IndexesFollowSnapshots
<1> QED
  BY <1>1, <1>2, PTL

\* A pick finds a free credential whenever there is one, and none of a higher
\* priority is passed over, over all the providers of a request
\* (scheduler.go:400-628, 663-760, 776-900).
THEOREM PickedIsBest == Picks!Spec => []PickIsBest
<1>1. Picks!PickIsBest => PickIsBest
  BY DEF PickIsBest
<1>2. Picks!Spec => []Picks!PickIsBest
  BY PicksSound, Picks!PicksAreBest
<1> QED
  BY <1>1, <1>2, PTL

\* As long as the ready credentials stay the same, requests that have tried
\* nothing yet take them in turn: none is picked again before each of the
\* others, within a provider or over several
\* (scheduler.go:341-398, 663-760, 860-960).
THEOREM TurnsAreTaken == ASSUME Turns!NoneIsNothing PROVE Turns!Spec => []FairTurns
<1>1. Turns!FairTurns => FairTurns
  BY DEF FairTurns
<1>2. Turns!Spec => []Turns!FairTurns
  BY RotationSound, Turns!TurnsAreFair
<1> QED
  BY <1>1, <1>2, PTL
=============================================================================
