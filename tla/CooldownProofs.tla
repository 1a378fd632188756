--------------------------- MODULE CooldownProofs ----------------------------
(***************************************************************************)
(* Proofs about the cooldowns of one credential, for any models, durations *)
(* and results.  Numbers come first (the aggregate takes the least and the *)
(* greatest of sets, the ladder powers of two), then what the functions of *)
(* AuthState make of a record, then the inductive invariants: TypeInv,     *)
(* DeadlineInv (the credential's deadline and its models'), FileInv and    *)
(* OwnInv (what is on file of what is held) and LadderInv.                 *)
(***************************************************************************)
EXTENDS Cooldown, FiniteSetTheorems, WellFoundedInduction, TLAPS

-----------------------------------------------------------------------------
(* Numbers *)

\* A non-empty set of numbers has a least element, which Least picks.
LEMMA LeastIsLeast ==
  ASSUME NEW S \in SUBSET Nat, S # {}
  PROVE  Least(S) \in S /\ \A x \in S : Least(S) <= x
<1>1. PICK x \in S : \A y \in S : ~(<<y, x>> \in OpToRel(<, Nat))
  BY NatLessThanWellFounded, WFMin
<1>2. \A y \in S : ~(y < x)
  BY <1>1 DEF OpToRel
<1>3. \A y \in S : x <= y
  BY <1>2
<1> QED
  BY <1>3 DEF Least

\* A finite set of numbers is bounded: otherwise some shortest prefix of its
\* enumeration would not be, but without its last element it is.
LEMMA FiniteIsBounded ==
  ASSUME NEW S \in SUBSET Nat, IsFiniteSet(S)
  PROVE  \E b \in Nat : \A x \in S : x <= b
<1>1. PICK n \in Nat : ExistsSurjection(1..n, S)
  BY FS_NatSurjection
<1>2. PICK f : f \in Surjection(1..n, S)
  BY <1>1 DEF ExistsSurjection
<1>3. f \in [1..n -> S] /\ \A x \in S : \E i \in 1..n : f[i] = x
  BY <1>2 DEF Surjection
<1> DEFINE Bounded(k) == \E b \in Nat : \A i \in 1..k : f[i] <= b
           U == {k \in 0..n : ~Bounded(k)}
<1>4. U = {}
  <2>1. SUFFICES ASSUME U # {} PROVE FALSE
    OBVIOUS
  <2>2. U \in SUBSET Nat
    OBVIOUS
  <2>3. Least(U) \in U /\ \A x \in U : Least(U) <= x
    BY <2>1, <2>2, LeastIsLeast
  <2>4. PICK k \in U : \A x \in U : k <= x
    BY <2>3
  <2>5. k # 0
    <3>1. \A i \in 1..0 : f[i] <= 0
      OBVIOUS
    <3>2. Bounded(0)
      BY <3>1
    <3> QED
      BY <3>2, <2>4
  <2>6. k - 1 \in 0..n /\ k \in 1..n /\ k - 1 \notin U
    <3>1. k \in 0..n /\ k - 1 \in Int
      BY <2>4
    <3>2. k - 1 \in 0..n /\ k \in 1..n /\ ~(k <= k - 1)
      BY <3>1, <2>5
    <3> HIDE DEF U
    <3> QED
      BY <3>2, <2>4
  <2>7. PICK b \in Nat : \A i \in 1..(k - 1) : f[i] <= b
    BY <2>6
  <2>8. \A i \in 1..n : f[i] \in Nat
    BY <1>3
  <2>9. \A i \in 1..k : f[i] \in Nat /\ f[i] <= b + f[k]
    <3> TAKE i \in 1..k
    <3>1. f[i] \in Nat /\ f[k] \in Nat
      BY <2>6, <2>8
    <3>2. CASE i = k
      BY <3>1, <3>2, <2>7
    <3>3. CASE i # k
      <4>1. i \in 1..(k - 1)
        BY <3>3, <2>6
      <4> QED
        BY <4>1, <3>1, <2>7
    <3> QED
      BY <3>1, <3>2, <3>3
  <2>10. b + f[k] \in Nat
    BY <2>6, <2>7, <2>8
  <2>11. Bounded(k)
    BY <2>9, <2>10
  <2> QED
    BY <2>11, <2>4
<1>5. Bounded(n)
  BY <1>4
<1> QED
  BY <1>5, <1>3

\* A finite, non-empty set has a greatest element, which Greatest picks.
LEMMA GreatestIsGreatest ==
  ASSUME NEW S \in SUBSET Nat, IsFiniteSet(S), S # {}
  PROVE  Greatest(S) \in S /\ \A x \in S : Greatest(S) >= x
<1> DEFINE U == {b \in Nat : \A x \in S : x <= b}
<1>1. U \in SUBSET Nat /\ U # {}
  BY FiniteIsBounded
<1>2. Least(U) \in U /\ \A x \in U : Least(U) <= x
  BY <1>1, LeastIsLeast
<1>3. PICK b \in U : \A x \in U : b <= x
  BY <1>2
<1>4. b \in Nat /\ \A x \in S : x <= b
  BY <1>3
<1>5. b \in S
  <2>1. SUFFICES ASSUME b \notin S PROVE FALSE
    OBVIOUS
  <2>2. \A x \in S : x \in Nat /\ x <= b - 1
    BY <1>4, <2>1
  <2>3. b - 1 \in Nat
    <3>1. PICK x \in S : TRUE
      OBVIOUS
    <3> QED
      BY <2>2, <3>1, <1>4
  <2>4. b - 1 \in U
    BY <2>2, <2>3
  <2> QED
    BY <2>4, <1>3, <1>4
<1>6. \A x \in S : b >= x
  BY <1>4
<1> QED
  BY <1>5, <1>6 DEF Greatest

\* The provers know powers of two only as numbers of subsets.
LEMMA PowerType ==
  ASSUME NEW n \in Nat
  PROVE  2^n \in Nat
<1>1. IsFiniteSet(1..n) /\ Cardinality(1..n) = n
  BY FS_Interval
<1>2. IsFiniteSet(SUBSET (1..n)) /\ Cardinality(SUBSET (1..n)) = 2^n
  BY <1>1, FS_SUBSET
<1> QED
  BY <1>2, FS_CardinalityType

\* No power of two is below 1.
LEMMA PowerPositive ==
  ASSUME NEW n \in Nat
  PROVE  2^n >= 1
<1>1. IsFiniteSet(1..n) /\ Cardinality(1..n) = n
  BY FS_Interval
<1>2. IsFiniteSet(SUBSET (1..n)) /\ Cardinality(SUBSET (1..n)) = 2^n
  BY <1>1, FS_SUBSET
<1>3. {} \in SUBSET (1..n)
  OBVIOUS
<1>4. Cardinality(SUBSET (1..n)) # 0
  BY <1>2, <1>3, FS_EmptySet
<1> QED
  BY <1>2, <1>4, PowerType

\* The ladder starts at 1.
LEMMA PowerZero == 2^0 = 1
<1>1. IsFiniteSet({}) /\ Cardinality({}) = 0
  BY FS_EmptySet
<1>2. Cardinality(SUBSET {}) = 2^0
  BY <1>1, FS_SUBSET
<1>3. SUBSET {} = {{}}
  OBVIOUS
<1>4. Cardinality({{}}) = 1
  BY FS_Singleton
<1> QED
  BY <1>2, <1>3, <1>4

\* Each level doubles the window.
LEMMA PowerNext ==
  ASSUME NEW n \in Nat
  PROVE  2^(n + 1) = 2 * 2^n
<1> DEFINE A == SUBSET (1..n)
           f == [T \in A |-> T \cup {n + 1}]
           B == {f[T] : T \in A}
<1>1. IsFiniteSet(1..n) /\ Cardinality(1..n) = n
      /\ IsFiniteSet(1..(n + 1)) /\ Cardinality(1..(n + 1)) = n + 1
  BY FS_Interval
<1>2. /\ IsFiniteSet(A) /\ Cardinality(A) = 2^n
      /\ Cardinality(SUBSET (1..(n + 1))) = 2^(n + 1)
  BY <1>1, FS_SUBSET
<1>3. f \in Bijection(A, B)
  <2>1. f \in [A -> B]
    OBVIOUS
  <2>2. \A T, V \in A : f[T] = f[V] => T = V
    <3>1. \A T \in A : n + 1 \notin T
      OBVIOUS
    <3> QED
      BY <3>1
  <2> QED
    BY <2>1, <2>2 DEF Bijection, Injection, Surjection, IsInjective
<1>4. IsFiniteSet(B) /\ Cardinality(B) = Cardinality(A)
  BY <1>2, <1>3, FS_Bijection DEF ExistsBijection
<1>5. A \cap B = {}
  <2>1. \A T \in A : n + 1 \notin T
    OBVIOUS
  <2>2. \A T \in B : n + 1 \in T
    OBVIOUS
  <2> QED
    BY <2>1, <2>2
<1>6. A \cup B = SUBSET (1..(n + 1))
  <2>1. 1..(n + 1) = (1..n) \cup {n + 1}
    OBVIOUS
  <2>2. \A T \in A \cup B : T \subseteq 1..(n + 1)
    BY <2>1
  <2>3. ASSUME NEW T \in SUBSET (1..(n + 1)) PROVE T \in A \cup B
    <3>1. T \ {n + 1} \in A
      BY <2>1
    <3>2. CASE n + 1 \in T
      <4>1. f[T \ {n + 1}] = T
        BY <3>1, <3>2
      <4> QED
        BY <3>1, <4>1
    <3>3. CASE n + 1 \notin T
      BY <3>1, <3>3
    <3> QED
      BY <3>2, <3>3
  <2> QED
    BY <2>2, <2>3
<1>7. Cardinality(A \cup B)
      = Cardinality(A) + Cardinality(B) - Cardinality(A \cap B)
  BY <1>2, <1>4, FS_Union
<1>8. Cardinality(A \cap B) = 0
  BY <1>5, FS_EmptySet
<1>9. Cardinality(A) \in Nat
  BY <1>2, FS_CardinalityType
<1>10. 2^(n + 1) = Cardinality(A) + Cardinality(A)
  <2> HIDE DEF A, B
  <2>1. Cardinality(A \cup B) = Cardinality(A) + Cardinality(A)
    BY <1>4, <1>7, <1>8, <1>9
  <2> QED
    BY <2>1, <1>2, <1>6, Zenon
<1> QED
  BY <1>2, <1>9, <1>10, PowerType
-----------------------------------------------------------------------------
(* Records *)

\* What Auths says, in terms the provers can use.
LEMMA AuthFields ==
  ASSUME NEW a \in Auths
  PROVE  /\ a.disabled \in BOOLEAN /\ a.unavail \in BOOLEAN /\ a.next \in Nat
         /\ a.quota \in Quotas
         /\ a.models \in [DOMAIN a.models -> ModelStates]
         /\ DOMAIN a.models \subseteq Models
         /\ \A m \in DOMAIN a.models :
               /\ a.models[m] \in ModelStates
               /\ a.models[m].unavail \in BOOLEAN /\ a.models[m].next \in Nat
               /\ a.models[m].quota \in Quotas /\ a.models[m].err \in Errors
<1>1. a.models \in ModelMaps
  BY DEF Auths
<1>2. PICK S \in SUBSET Models : a.models \in [S -> ModelStates]
  BY <1>1 DEF ModelMaps
<1>3. a.models \in [DOMAIN a.models -> ModelStates] /\ DOMAIN a.models \subseteq Models
  BY <1>2
<1>4. \A m \in DOMAIN a.models : a.models[m] \in ModelStates
  BY <1>3
<1> QED
  BY <1>3, <1>4 DEF Auths, ModelStates

\* A function from models to states is one of the maps a record may hold.
LEMMA MapIsMap ==
  ASSUME NEW D \in SUBSET Models, NEW f \in [D -> ModelStates]
  PROVE  f \in ModelMaps
BY DEF ModelMaps

\* The empty map is the one without models.
LEMMA MapIsEmpty ==
  ASSUME NEW a \in Auths
  PROVE  a.models = NoModels <=> DOMAIN a.models = {}
BY AuthFields DEF NoModels

\* The records a credential starts with are typed.
LEMMA Constants ==
  /\ NoQuota \in Quotas /\ CleanState \in ModelStates
  /\ CleanState.unavail = FALSE /\ CleanState.next = 0
  /\ CleanState.quota = NoQuota /\ CleanState.err = "none"
  /\ NoModels \in ModelMaps /\ DOMAIN NoModels = {}
  /\ FreshAuth \in Auths
  /\ \A d \in BOOLEAN : [FreshAuth EXCEPT !.disabled = d] \in Auths
<1>1. NoQuota \in Quotas /\ CleanState \in ModelStates
  BY DEF NoQuota, Quotas, CleanState, ModelStates, Errors
<1>2. NoModels \in ModelMaps /\ DOMAIN NoModels = {}
  <2>1. NoModels \in [{} -> ModelStates] /\ {} \in SUBSET Models
    BY DEF NoModels
  <2> QED
    BY <2>1, MapIsMap DEF NoModels
<1>3. FreshAuth \in Auths
  BY <1>1, <1>2 DEF FreshAuth, Auths
<1> QED
  BY <1>1, <1>2, <1>3 DEF CleanState, Auths

\* The aggregated quota is a quota, and it has no time of its own.
LEMMA AggregateQuotaType ==
  ASSUME NEW a \in Auths
  PROVE  AggregateQuota(a.models) \in Quotas
<1> DEFINE D == {n \in DOMAIN a.models : a.models[n].quota.exceeded}
           E == {a.models[m].quota : m \in D}
           R == {q.recover : q \in E} \ {0}
           L == {q.level : q \in E}
           f == [m \in D |-> a.models[m].quota.level]
<1>1. \A q \in E : q \in Quotas /\ q.recover \in Nat /\ q.level \in Nat
  BY AuthFields DEF Quotas
<1>2. R \in SUBSET Nat /\ L \in SUBSET Nat
  BY <1>1
<1>3. IsFiniteSet(L)
  <2>1. IsFiniteSet(D)
    BY FS_Subset, ModelsAssumption, AuthFields
  <2>2. f \in Surjection(D, L)
    BY DEF Surjection
  <2> QED
    BY <2>1, <2>2, FS_Surjection
<1>4. CASE E = {}
  BY <1>4, Constants DEF AggregateQuota
<1>5. CASE E # {}
  <2>1. L # {}
    BY <1>5
  <2>2. Greatest(L) \in Nat
    BY <1>2, <1>3, <2>1, GreatestIsGreatest
  <2>3. (IF R = {} THEN 0 ELSE Least(R)) \in Nat
    BY <1>2, LeastIsLeast
  <2>4. AggregateQuota(a.models) =
          [exceeded |-> TRUE, recover |-> IF R = {} THEN 0 ELSE Least(R),
           level |-> Greatest(L)]
    BY <1>5 DEF AggregateQuota
  <2> HIDE DEF R, L
  <2> QED
    BY <2>2, <2>3, <2>4 DEF Quotas
<1> QED
  BY <1>4, <1>5

\* Only holds that are over are taken off a state.
LEMMA ExpireHoldFacts ==
  ASSUME NEW s \in ModelStates, NEW t \in Nat, NEW e, e = ExpireHold(s, t)
  PROVE  /\ e \in ModelStates /\ e.quota = s.quota /\ e.err = s.err
         /\ Held(e, t) <=> Held(s, t)
         /\ Held(s, t) => e = s
<1>1. s.unavail \in BOOLEAN /\ s.next \in Nat
  BY DEF ModelStates
<1>2. CASE s.unavail /\ s.next # 0 /\ s.next <= t
  <2>1. e = [s EXCEPT !.unavail = FALSE, !.next = 0]
    BY <1>2 DEF ExpireHold
  <2>3. ~Held(s, t)
    BY <1>1, <1>2 DEF Held
  <2>2. e \in ModelStates /\ e.unavail = FALSE /\ e.quota = s.quota /\ e.err = s.err
    <3>1. e = [unavail |-> FALSE, next |-> 0, quota |-> s.quota, err |-> s.err]
      BY <2>1 DEF ModelStates
    <3>2. s.quota \in Quotas /\ s.err \in Errors
      BY DEF ModelStates
    <3> QED
      BY <3>1, <3>2 DEF ModelStates
  <2> QED
    BY <2>2, <2>3 DEF Held
<1>3. CASE ~(s.unavail /\ s.next # 0 /\ s.next <= t)
  BY <1>3 DEF ExpireHold
<1> QED
  BY <1>2, <1>3

\* A deadline of the credential that is ahead is the earliest of its models',
\* all of which are held.
Aggregated(a, t) ==
    a.next > t =>
        /\ a.unavail /\ a.models # NoModels
        /\ \A m \in DOMAIN a.models :
              Held(a.models[m], t) /\ a.models[m].next >= a.next

\* updateAggregatedAvailability leaves a deadline as Aggregated says.
LEMMA AggregateFacts ==
  ASSUME NEW a \in Auths, NEW t \in Nat, NEW b, b = Aggregate(a, t)
  PROVE  /\ b \in Auths
         /\ b.disabled = a.disabled /\ DOMAIN b.models = DOMAIN a.models
         /\ \A m \in DOMAIN a.models :
               /\ b.models[m].quota = a.models[m].quota
               /\ b.models[m].err = a.models[m].err
               /\ Held(b.models[m], t) <=> Held(a.models[m], t)
               /\ Held(a.models[m], t) => b.models[m] = a.models[m]
         /\ Aggregated(b, t)
<1> DEFINE N == {a.models[m].next : m \in DOMAIN a.models}
           all == a.models # NoModels /\ \A m \in DOMAIN a.models : Held(a.models[m], t)
           f == [m \in DOMAIN a.models |-> ExpireHold(a.models[m], t)]
<1>1. \A m \in DOMAIN a.models :
        /\ f[m] \in ModelStates
        /\ f[m].quota = a.models[m].quota /\ f[m].err = a.models[m].err
        /\ Held(f[m], t) <=> Held(a.models[m], t)
        /\ Held(a.models[m], t) => f[m] = a.models[m]
  <2> TAKE m \in DOMAIN a.models
  <2>1. a.models[m] \in ModelStates
    BY AuthFields
  <2>2. f[m] = ExpireHold(a.models[m], t)
    OBVIOUS
  <2> QED
    BY <2>1, <2>2, ExpireHoldFacts
<1>2. f \in ModelMaps
  BY <1>1, MapIsMap, AuthFields
<1>3. all => /\ Least(N) \in Nat
             /\ \A m \in DOMAIN a.models : Least(N) <= a.models[m].next
  <2>1. N \in SUBSET Nat
    BY AuthFields
  <2>2. all => N # {}
    BY MapIsEmpty
  <2>3. N # {} => Least(N) \in N /\ \A x \in N : Least(N) <= x
    BY <2>1, LeastIsLeast
  <2> QED
    BY <2>1, <2>2, <2>3
<1>4. /\ b.disabled = a.disabled /\ b.unavail = all
      /\ b.next = (IF all THEN Least(N) ELSE 0)
      /\ b.models = f
      /\ b.quota = AggregateQuota(a.models)
      /\ b = [disabled |-> b.disabled, unavail |-> b.unavail, next |-> b.next,
              quota |-> b.quota, models |-> b.models]
  BY DEF Aggregate, Auths
<1>5. DOMAIN f = DOMAIN a.models
  OBVIOUS
<1>6. all \in BOOLEAN /\ AggregateQuota(a.models) \in Quotas /\ a.disabled \in BOOLEAN
  BY AggregateQuotaType, AuthFields
<1> HIDE DEF f, N
<1>7. b \in Auths
  <2>1. b.next \in Nat
    BY <1>3, <1>4
  <2>2. b.disabled \in BOOLEAN /\ b.unavail \in BOOLEAN
    BY <1>4, <1>6
  <2> HIDE DEF all
  <2> QED
    BY <1>2, <1>4, <1>6, <2>1, <2>2 DEF Auths
<1>8. Aggregated(b, t)
  <2>1. SUFFICES ASSUME b.next > t PROVE /\ b.unavail /\ b.models # NoModels
                    /\ \A m \in DOMAIN b.models :
                          Held(b.models[m], t) /\ b.models[m].next >= b.next
    BY DEF Aggregated
  <2>2. all /\ b.next = Least(N)
    BY <2>1, <1>4
  <2>3. b.unavail /\ b.models # NoModels
    BY <2>2, <1>4, <1>5, <1>7, MapIsEmpty
  <2>4. ASSUME NEW m \in DOMAIN b.models
        PROVE  Held(b.models[m], t) /\ b.models[m].next >= b.next
    <3>1. m \in DOMAIN a.models /\ Held(a.models[m], t) /\ b.models[m] = a.models[m]
      BY <2>2, <1>1, <1>4, <1>5
    <3>2. b.next <= a.models[m].next /\ b.next \in Nat /\ a.models[m].next \in Nat
      BY <3>1, <2>2, <1>3, AuthFields
    <3> QED
      BY <3>1, <3>2
  <2> QED
    BY <2>3, <2>4
<1> QED
  BY <1>1, <1>4, <1>5, <1>7, <1>8

\* Storing one model's state and aggregating, as every result for a model does.
LEMMA StoreFacts ==
  ASSUME NEW a \in Auths, NEW t \in Nat, NEW m \in Models, NEW s \in ModelStates,
         NEW b, b = Aggregate([a EXCEPT !.models = PutModel(@, m, s)], t)
  PROVE  /\ b \in Auths
         /\ b.disabled = a.disabled /\ DOMAIN b.models = DOMAIN a.models \cup {m}
         /\ \A n \in DOMAIN b.models :
               LET old == IF n = m THEN s ELSE a.models[n]
               IN  /\ b.models[n].quota = old.quota /\ b.models[n].err = old.err
                   /\ Held(b.models[n], t) <=> Held(old, t)
                   /\ Held(old, t) => b.models[n] = old
         /\ Aggregated(b, t)
<1> DEFINE f == PutModel(a.models, m, s)
           c == [a EXCEPT !.models = f]
<1>1. /\ f \in [DOMAIN a.models \cup {m} -> ModelStates]
      /\ DOMAIN a.models \cup {m} \in SUBSET Models
      /\ \A n \in DOMAIN a.models \cup {m} : f[n] = IF n = m THEN s ELSE a.models[n]
  BY AuthFields DEF PutModel
<1>2. f \in ModelMaps /\ DOMAIN f = DOMAIN a.models \cup {m}
  BY <1>1, MapIsMap
<1> HIDE DEF f
<1>3. c \in Auths /\ c.models = f /\ c.disabled = a.disabled
  BY <1>2 DEF Auths
<1>4. b = Aggregate(c, t)
  BY DEF f
<1> HIDE DEF c
<1>5. /\ b \in Auths
      /\ b.disabled = c.disabled /\ DOMAIN b.models = DOMAIN c.models
      /\ \A n \in DOMAIN c.models :
            /\ b.models[n].quota = c.models[n].quota
            /\ b.models[n].err = c.models[n].err
            /\ Held(b.models[n], t) <=> Held(c.models[n], t)
            /\ Held(c.models[n], t) => b.models[n] = c.models[n]
      /\ Aggregated(b, t)
  BY <1>3, <1>4, AggregateFacts
<1>6. DOMAIN b.models = DOMAIN a.models \cup {m}
  BY <1>2, <1>3, <1>5
<1>7. ASSUME NEW n \in DOMAIN b.models, NEW old, old = IF n = m THEN s ELSE a.models[n]
      PROVE  /\ b.models[n].quota = old.quota /\ b.models[n].err = old.err
             /\ Held(b.models[n], t) <=> Held(old, t)
             /\ Held(old, t) => b.models[n] = old
  <2>1. c.models[n] = old /\ n \in DOMAIN c.models
    BY <1>1, <1>2, <1>3, <1>6, <1>7
  <2> QED
    BY <2>1, <1>5
<1> QED
  BY <1>3, <1>5, <1>6, <1>7

-----------------------------------------------------------------------------
(* Failures *)

\* The durations are numbers.
LEMMA Durations ==
  /\ QuotaBase \in Nat /\ QuotaMax \in Nat /\ CloudflareMin \in Nat
  /\ RetryAfter \in Nat /\ HalfHour \in Nat /\ HalfDay \in Nat /\ Transient \in Nat
  /\ QuotaBase > 0 /\ QuotaMax > 0
BY DurationsAssumption

\* A window and the level after it are numbers.
LEMMA LadderType ==
  ASSUME NEW n \in Nat
  PROVE  /\ QuotaBase * 2^n \in Nat
         /\ LadderCooldown(n) \in Nat /\ LadderNext(n) \in Nat
<1>1. QuotaBase * 2^n \in Nat
  BY PowerType, Durations
<1> QED
  BY <1>1, Durations DEF LadderCooldown, LadderNext

\* A failure's quota is a quota.
LEMMA FailedQuotaType ==
  ASSUME NEW q \in Quotas, NEW failure, NEW t \in Nat, NEW c \in BOOLEAN
  PROVE  /\ FailedQuota(q, failure, t, c) \in Quotas
         /\ ~c => FailedQuota(q, failure, t, c).recover = 0
         /\ ~c => FailedQuota(q, failure, t, c).level = q.level
<1>1. q.recover \in Nat /\ q.level \in Nat
  BY DEF Quotas
<1> DEFINE W == [recover : Nat, level : Nat]
<1>2. [recover |-> 0, level |-> q.level] \in W
  BY <1>1
<1>3. QuotaAfterCloudflare(q, t) \in W
  <2>1. (IF LadderCooldown(q.level) < CloudflareMin THEN CloudflareMin
         ELSE LadderCooldown(q.level)) \in Nat
    BY <1>1, LadderType, Durations
  <2> QED
    BY <1>1, <2>1, LadderType DEF QuotaAfterCloudflare
<1>4. [recover |-> t + RetryAfter, level |-> q.level] \in W
  BY <1>1, Durations
<1>5. QuotaAfterFailure(q, t) \in W
  BY <1>1, LadderType DEF QuotaAfterFailure
<1>6. \A w \in W : [exceeded |-> TRUE, recover |-> w.recover, level |-> w.level] \in Quotas
  BY DEF Quotas
<1>7. CASE ~c
  <2>1. FailedQuota(q, failure, t, c) = [exceeded |-> TRUE, recover |-> 0, level |-> q.level]
    BY <1>7 DEF FailedQuota
  <2> QED
    BY <2>1, <1>1 DEF Quotas
<1>8. CASE c
  <2>1. PICK w \in W : FailedQuota(q, failure, t, c)
                        = [exceeded |-> TRUE, recover |-> w.recover, level |-> w.level]
    BY <1>8, <1>3, <1>4, <1>5 DEF FailedQuota
  <2> QED
    BY <1>6, <1>8, <2>1
<1> QED
  BY <1>7, <1>8

\* A hold ends at a time.
LEMMA HoldUntilType ==
  ASSUME NEW q \in Quotas, NEW failure, NEW t \in Nat, NEW c \in BOOLEAN
  PROVE  HoldUntil(q, failure, t, c) \in Nat
<1>1. q.recover \in Nat
  BY DEF Quotas
<1> QED
  BY <1>1, Durations DEF HoldUntil

\* Without cooling only an unsupported model is held.
LEMMA FailModelFacts ==
  ASSUME NEW s \in ModelStates, NEW failure \in Failures, NEW t \in Nat,
         NEW c \in BOOLEAN, NEW f, f = FailModel(s, failure, t, c)
  PROVE  /\ f \in ModelStates
         /\ ~c /\ Held(f, t) => f.err = "unsupported"
         /\ f.quota = IF failure \in QuotaFailures
                      THEN FailedQuota(s.quota, failure, t, c) ELSE s.quota
<1> DEFINE q == IF failure \in QuotaFailures
                THEN FailedQuota(s.quota, failure, t, c) ELSE s.quota
<1>1. q \in Quotas
  BY FailedQuotaType DEF ModelStates
<1>2. f = [unavail |-> TRUE, next |-> HoldUntil(q, failure, t, c), quota |-> q,
           err |-> ErrorOf(failure)]
  BY DEF FailModel
<1>3. ErrorOf(failure) \in Errors
  BY DEF ErrorOf, Errors
<1>4. HoldUntil(q, failure, t, c) \in Nat
  BY <1>1, HoldUntilType
<1>5. ~c /\ failure # "unsupported" => HoldUntil(q, failure, t, c) = 0
  <2>1. ~c /\ failure \in QuotaFailures => q.recover = 0
    BY FailedQuotaType DEF ModelStates
  <2> QED
    BY <2>1 DEF HoldUntil
<1>6. failure = "unsupported" => ErrorOf(failure) = "unsupported"
  BY DEF ErrorOf
<1> HIDE DEF q
<1>7. f \in ModelStates
  BY <1>1, <1>2, <1>3, <1>4 DEF ModelStates
<1>8. ~c /\ Held(f, t) => f.err = "unsupported"
  BY <1>2, <1>5, <1>6 DEF Held
<1> QED
  BY <1>2, <1>7, <1>8 DEF q

\* A failure of the credential as a whole sets its own deadline.
LEMMA FailAuthFacts ==
  ASSUME NEW a \in Auths, NEW failure \in Failures, NEW t \in Nat,
         NEW c \in BOOLEAN, NEW b, b = FailAuth(a, failure, t, c)
  PROVE  /\ b \in Auths
         /\ b.disabled = a.disabled /\ b.models = a.models
         /\ failure = "request_scoped" => b = a
         /\ failure # "request_scoped" => b.unavail
         /\ ~c => b.next \in {a.next, 0}
<1> DEFINE q == IF failure \in QuotaFailures
                THEN FailedQuota(a.quota, failure, t, c) ELSE a.quota
           next == IF failure \in {"unsupported", "other"} THEN a.next
                   ELSE HoldUntil(q, failure, t, c)
<1>1. q \in Quotas
  BY FailedQuotaType, AuthFields
<1>2. next \in Nat
  BY <1>1, HoldUntilType, AuthFields
<1>3. ~c => next \in {a.next, 0}
  <2>1. ~c /\ failure \in QuotaFailures => q.recover = 0
    BY FailedQuotaType, AuthFields
  <2> QED
    BY <2>1 DEF HoldUntil
<1>4. failure # "request_scoped" =>
        b = [a EXCEPT !.unavail = TRUE, !.quota = q, !.next = next]
  BY DEF FailAuth
<1>5. failure = "request_scoped" => b = a
  BY DEF FailAuth
<1> HIDE DEF q, next
<1>6. CASE failure # "request_scoped"
  <2>1. b = [disabled |-> a.disabled, unavail |-> TRUE, next |-> next,
             quota |-> q, models |-> a.models]
    BY <1>4, <1>6 DEF Auths
  <2> QED
    BY <2>1, <1>1, <1>2, <1>3, <1>6 DEF Auths
<1> QED
  BY <1>5, <1>6

-----------------------------------------------------------------------------
(* Rewriting the record *)

\* A cleared state holds nothing.
LEMMA ClearStateFacts ==
  ASSUME NEW s \in ModelStates, NEW t \in Nat, NEW e, e = ClearState(s)
  PROVE  /\ e \in ModelStates /\ e.err = s.err /\ ~Held(e, t)
         /\ e.quota = NoQuota \/ (e.quota = s.quota /\ s.quota.recover = 0)
<1>1. CASE HasCooldown(s)
  <2>1. e = [unavail |-> FALSE, next |-> 0, quota |-> NoQuota, err |-> s.err]
    BY <1>1 DEF ClearState, ModelStates
  <2> QED
    BY <2>1, Constants DEF ModelStates, Held
<1>2. CASE ~HasCooldown(s)
  <2>1. e = s /\ ~s.unavail /\ s.quota.recover = 0
    BY <1>2 DEF ClearState, HasCooldown
  <2> QED
    BY <2>1 DEF Held
<1> QED
  BY <1>1, <1>2

\* With every hold cleared, no deadline is left.
LEMMA NoneHeld ==
  ASSUME NEW b \in Auths, NEW t \in Nat, Aggregated(b, t),
         \A m \in DOMAIN b.models : ~Held(b.models[m], t)
  PROVE  b.next <= t
<1>1. b.next \in Nat /\ (b.models # NoModels => DOMAIN b.models # {})
  BY AuthFields, MapIsEmpty
<1>2. ~(b.next > t)
  BY <1>1 DEF Aggregated
<1> QED
  BY <1>1, <1>2

\* ClearCooldown leaves nothing held, and quotas that have no deadline.
LEMMA ClearCooldownFacts ==
  ASSUME NEW a \in Auths, NEW t \in Nat, NEW b, b = ClearCooldown(a, t)
  PROVE  /\ b \in Auths
         /\ b.disabled = a.disabled /\ DOMAIN b.models = DOMAIN a.models
         /\ \A m \in DOMAIN a.models :
               /\ b.models[m].err = a.models[m].err
               /\ ~Held(b.models[m], t)
               /\ b.models[m].quota = NoQuota
                  \/ (b.models[m].quota = a.models[m].quota
                      /\ a.models[m].quota.recover = 0)
         /\ b.next <= t
<1> DEFINE d == ClearState(a)
           f == [m \in DOMAIN a.models |-> ClearState(a.models[m])]
           c == [d EXCEPT !.models = f]
<1>1. /\ d \in Auths /\ d.disabled = a.disabled /\ d.models = a.models
      /\ d.next = 0
  <2>1. CASE HasCooldown(a)
    <3>1. d = [disabled |-> a.disabled, unavail |-> FALSE, next |-> 0,
               quota |-> NoQuota, models |-> a.models]
      BY <2>1 DEF ClearState, Auths
    <3> QED
      BY <3>1, Constants DEF Auths
  <2>2. CASE ~HasCooldown(a)
    BY <2>2 DEF ClearState, HasCooldown
  <2> QED
    BY <2>1, <2>2
<1>2. \A m \in DOMAIN a.models :
        /\ f[m] \in ModelStates /\ f[m].err = a.models[m].err /\ ~Held(f[m], t)
        /\ f[m].quota = NoQuota
           \/ (f[m].quota = a.models[m].quota /\ a.models[m].quota.recover = 0)
  BY ClearStateFacts, AuthFields
<1>3. f \in ModelMaps /\ DOMAIN f = DOMAIN a.models
  BY <1>2, MapIsMap, AuthFields
<1>4. b = Reaggregate(c, t)
  BY <1>1 DEF ClearCooldown
<1> HIDE DEF d, f
<1>5. c \in Auths /\ c.models = f /\ c.disabled = a.disabled /\ c.next = 0
  BY <1>1, <1>3 DEF Auths
<1> HIDE DEF c
<1>6. CASE c.models = NoModels
  <2>1. b = c
    BY <1>4, <1>6 DEF Reaggregate
  <2> QED
    BY <2>1, <1>2, <1>3, <1>5
<1>7. CASE c.models # NoModels
  <2>1. b = Aggregate(c, t)
    BY <1>4, <1>7 DEF Reaggregate
  <2>2. /\ b \in Auths /\ b.disabled = c.disabled /\ DOMAIN b.models = DOMAIN c.models
        /\ \A m \in DOMAIN c.models :
              /\ b.models[m].quota = c.models[m].quota
              /\ b.models[m].err = c.models[m].err
              /\ Held(b.models[m], t) <=> Held(c.models[m], t)
        /\ Aggregated(b, t)
    BY <2>1, <1>5, AggregateFacts
  <2>3. b.next <= t
    BY <2>2, <1>2, <1>3, <1>5, NoneHeld
  <2> QED
    BY <2>2, <2>3, <1>2, <1>3, <1>5
<1> QED
  BY <1>6, <1>7

\* ResetQuota and registering models leave clean states.
LEMMA ResetAllFacts ==
  ASSUME NEW a \in Auths, NEW t \in Nat, NEW b, b = ResetAll(a, t)
  PROVE  /\ b \in Auths /\ b.disabled = a.disabled
         /\ \A m \in DOMAIN b.models :
               b.models[m].quota = NoQuota /\ ~Held(b.models[m], t)
         /\ b.next <= t
<1> DEFINE f == [m \in DOMAIN a.models |-> CleanState]
           c == [a EXCEPT !.models = f]
<1>1. f \in ModelMaps /\ DOMAIN f = DOMAIN a.models
      /\ \A m \in DOMAIN f : f[m] = CleanState
  BY Constants, MapIsMap, AuthFields
<1>2. b = ClearCooldown(c, t)
  BY DEF ResetAll
<1> HIDE DEF f
<1>3. c \in Auths /\ c.models = f /\ c.disabled = a.disabled
  BY <1>1 DEF Auths
<1> HIDE DEF c
<1> QED
  BY <1>1, <1>2, <1>3, Constants, ClearCooldownFacts

\* Reconciling with the registry takes models away or clears them.
LEMMA ReconcileFacts ==
  ASSUME NEW a \in Auths, NEW t \in Nat, NEW supported \in SUBSET Models,
         NEW b, b = Reconcile(a, supported, t)
  PROVE  \/ b = a
         \/ /\ b \in Auths /\ b.disabled = a.disabled
            /\ \A m \in DOMAIN b.models :
                  b.models[m].quota = NoQuota /\ ~Held(b.models[m], t)
            /\ b.next <= t
<1> DEFINE kept == DOMAIN a.models \cap supported
           f == [m \in kept |-> CleanState]
           c == [a EXCEPT !.models = f]
<1>1. kept \in SUBSET Models /\ f \in [kept -> ModelStates]
  BY Constants
<1>2. f \in ModelMaps /\ DOMAIN f = kept /\ \A m \in DOMAIN f : f[m] = CleanState
  BY <1>1, MapIsMap
<1>3. b = a \/ b = Aggregate(c, t)
  BY DEF Reconcile
<1> HIDE DEF f, kept
<1>4. c \in Auths /\ c.models = f /\ c.disabled = a.disabled
  BY <1>2 DEF Auths
<1> HIDE DEF c
<1>5. CASE b = Aggregate(c, t)
  <2>1. /\ b \in Auths /\ b.disabled = c.disabled /\ DOMAIN b.models = DOMAIN c.models
        /\ \A m \in DOMAIN c.models :
              /\ b.models[m].quota = c.models[m].quota
              /\ Held(b.models[m], t) <=> Held(c.models[m], t)
        /\ Aggregated(b, t)
    BY <1>4, <1>5, AggregateFacts
  <2>2. \A m \in DOMAIN b.models : b.models[m].quota = NoQuota /\ ~Held(b.models[m], t)
    BY <2>1, <1>2, <1>4, Constants DEF Held
  <2> QED
    BY <2>1, <2>2, <1>4, NoneHeld
<1> QED
  BY <1>3, <1>5

\* The models of a record can be exchanged.
LEMMA WithModels ==
  ASSUME NEW a \in Auths, NEW f \in ModelMaps,
         NEW c, c = [a EXCEPT !.unavail = FALSE, !.models = f]
  PROVE  c \in Auths /\ c.models = f /\ c.disabled = a.disabled /\ c.next = a.next
<1>1. c = [disabled |-> a.disabled, unavail |-> FALSE, next |-> a.next,
           quota |-> a.quota, models |-> f]
  BY DEF Auths
<1> QED
  BY <1>1, AuthFields DEF Auths

\* A successful refresh clears models refused as unauthorized, and nothing else of them.
LEMMA RefreshedFacts ==
  ASSUME NEW a \in Auths, NEW t \in Nat, NEW b, b = Refreshed(a, t)
  PROVE  /\ b \in Auths
         /\ b.disabled = a.disabled /\ DOMAIN b.models = DOMAIN a.models
         /\ \A m \in DOMAIN a.models :
               /\ b.models[m].quota \in {a.models[m].quota, NoQuota}
               /\ Held(b.models[m], t) => b.models[m] = a.models[m]
         /\ (b.models = a.models /\ b.next = a.next) \/ b.next <= t
<1> DEFINE stale == {m \in DOMAIN a.models : a.models[m].err = "unauthorized"}
           f == [m \in DOMAIN a.models |-> IF m \in stale THEN CleanState ELSE a.models[m]]
           c == [a EXCEPT !.unavail = FALSE, !.models = f]
<1>1. \A m \in DOMAIN a.models : f[m] \in {CleanState, a.models[m]} /\ f[m] \in ModelStates
  BY Constants, AuthFields
<1>2. f \in ModelMaps /\ DOMAIN f = DOMAIN a.models
  BY <1>1, MapIsMap, AuthFields
<1>3. stale = {} => f = a.models
  BY AuthFields
<1>4. b = IF stale = {} THEN c ELSE Aggregate(c, t)
  BY DEF Refreshed
<1>5. \A m \in stale : m \in DOMAIN a.models /\ f[m] = CleanState
  OBVIOUS
<1> HIDE DEF f, stale
<1>6. c \in Auths /\ c.models = f /\ c.disabled = a.disabled /\ c.next = a.next
  BY <1>2, WithModels
<1> HIDE DEF c
<1>7. CASE stale = {}
  BY <1>3, <1>4, <1>6, <1>7
<1>8. CASE stale # {}
  <2>1. /\ b \in Auths /\ b.disabled = c.disabled /\ DOMAIN b.models = DOMAIN c.models
        /\ \A m \in DOMAIN c.models :
              /\ b.models[m].quota = c.models[m].quota
              /\ Held(b.models[m], t) <=> Held(c.models[m], t)
              /\ Held(c.models[m], t) => b.models[m] = c.models[m]
        /\ Aggregated(b, t)
    BY <1>4, <1>6, <1>8, AggregateFacts
  <2>2. ~Held(CleanState, t)
    BY Constants DEF Held
  <2>3. b.next <= t
    <3>1. PICK m \in stale : ~Held(b.models[m], t) /\ m \in DOMAIN b.models
      BY <1>2, <1>5, <1>6, <1>8, <2>1, <2>2
    <3>2. ~(b.next > t) /\ b.next \in Nat
      BY <2>1, <3>1, AuthFields DEF Aggregated
    <3> QED
      BY <3>2
  <2>4. ASSUME NEW m \in DOMAIN a.models
        PROVE  /\ b.models[m].quota \in {a.models[m].quota, NoQuota}
               /\ Held(b.models[m], t) => b.models[m] = a.models[m]
    BY <1>1, <1>2, <1>6, <2>1, <2>2, Constants
  <2> QED
    BY <2>1, <2>3, <2>4, <1>2, <1>6
<1> QED
  BY <1>7, <1>8

\* A version carries the holds of the one it replaces over, or clears them.
LEMMA UpdatedFacts ==
  ASSUME NEW new \in Auths, NEW a \in Auths, NEW t \in Nat, NEW c \in BOOLEAN,
         NEW b, b = Updated(new, a, t, c)
  PROVE  \E carried \in Auths :
           /\ carried.disabled = new.disabled /\ carried.next = new.next
           /\ carried.unavail = new.unavail
           /\ \/ carried.models = new.models
              \/ carried.models = a.models /\ new.models = NoModels /\ ~a.disabled
           /\ b = IF c /\ ~new.disabled THEN carried ELSE ClearCooldown(carried, t)
<1> DEFINE carried == IF ~a.disabled /\ ~new.disabled /\ new.models = NoModels
                      THEN [new EXCEPT !.models = a.models] ELSE new
<1>1. CASE ~a.disabled /\ ~new.disabled /\ new.models = NoModels
  <2>1. carried = [new EXCEPT !.models = a.models]
    BY <1>1
  <2>2. /\ carried \in Auths /\ carried.disabled = new.disabled
        /\ carried.next = new.next /\ carried.models = a.models
        /\ carried.unavail = new.unavail
    BY <2>1 DEF Auths
  <2>3. b = IF c /\ ~new.disabled THEN carried ELSE ClearCooldown(carried, t)
    BY DEF Updated
  <2> HIDE DEF carried
  <2> QED
    BY <1>1, <2>2, <2>3
<1>2. CASE ~(~a.disabled /\ ~new.disabled /\ new.models = NoModels)
  <2>1. carried = new
    BY <1>2
  <2>2. b = IF c /\ ~new.disabled THEN carried ELSE ClearCooldown(carried, t)
    BY DEF Updated
  <2> HIDE DEF carried
  <2> QED
    BY <2>1, <2>2
<1> QED
  BY <1>1, <1>2

\* Holds of the old version are the only ones of the new, and none of them
\* survive without cooling.
LEMMA ReplacedFacts ==
  ASSUME NEW new \in Auths, NEW a \in Auths, NEW t \in Nat, NEW c \in BOOLEAN,
         \A m \in DOMAIN new.models :
            /\ m \in DOMAIN a.models
            /\ new.models[m].quota \in {a.models[m].quota, NoQuota}
            /\ Held(new.models[m], t) => new.models[m] = a.models[m],
         NEW b, b = Updated(new, a, t, c)
  PROVE  /\ b \in Auths /\ b.disabled = new.disabled
         /\ \A m \in DOMAIN b.models :
               /\ m \in DOMAIN a.models
               /\ b.models[m].quota = NoQuota
                  \/ /\ b.models[m].quota = a.models[m].quota
                     /\ ~(c /\ ~new.disabled) => a.models[m].quota.recover = 0
               /\ Held(b.models[m], t) => b.models[m] = a.models[m] /\ c /\ ~new.disabled
         /\ c /\ ~new.disabled =>
               /\ b.next = new.next
               /\ \/ b.models = new.models
                  \/ b.models = a.models /\ new.models = NoModels /\ ~a.disabled
         /\ ~(c /\ ~new.disabled) => b.next <= t
<1>1. PICK d \in Auths :
        /\ d.disabled = new.disabled /\ d.next = new.next
        /\ \/ d.models = new.models
           \/ d.models = a.models /\ new.models = NoModels /\ ~a.disabled
        /\ b = IF c /\ ~new.disabled THEN d ELSE ClearCooldown(d, t)
  BY UpdatedFacts
<1>2. \A m \in DOMAIN d.models :
        /\ m \in DOMAIN a.models
        /\ d.models[m].quota \in {a.models[m].quota, NoQuota}
        /\ Held(d.models[m], t) => d.models[m] = a.models[m]
  BY <1>1
<1>3. CASE c /\ ~new.disabled
  BY <1>1, <1>2, <1>3
<1>4. CASE ~(c /\ ~new.disabled)
  <2>1. b = ClearCooldown(d, t)
    BY <1>1, <1>4
  <2>2. /\ b \in Auths /\ b.disabled = d.disabled /\ DOMAIN b.models = DOMAIN d.models
        /\ \A m \in DOMAIN d.models :
              /\ ~Held(b.models[m], t)
              /\ b.models[m].quota = NoQuota
                 \/ (b.models[m].quota = d.models[m].quota /\ d.models[m].quota.recover = 0)
        /\ b.next <= t
    BY <2>1, ClearCooldownFacts
  <2>3. \A m \in DOMAIN d.models :
          b.models[m].quota = NoQuota
          \/ (b.models[m].quota = a.models[m].quota /\ a.models[m].quota.recover = 0)
    <3> TAKE m \in DOMAIN d.models
    <3>1. b.models[m].quota = NoQuota
          \/ (b.models[m].quota = d.models[m].quota /\ d.models[m].quota.recover = 0)
      BY <2>2
    <3>2. d.models[m].quota = NoQuota \/ d.models[m].quota = a.models[m].quota
      BY <1>2
    <3> QED
      BY <3>1, <3>2, Zenon
  <2> QED
    BY <1>1, <1>2, <1>4, <2>2, <2>3
<1> QED
  BY <1>3, <1>4

-----------------------------------------------------------------------------
(* The cooldown file *)

ModelRecord(a, m) ==
    [model |-> m, next |-> a.models[m].next, quota |-> a.models[m].quota,
     err |-> a.models[m].err]

\* No two records speak of the same model.
OnePerModel(records) ==
    \A r1 \in records, r2 \in records : r1.model = r2.model => r1 = r2

\* What is saved: one record for every model held, one for the credential.
LEMMA CooldownRecordsFacts ==
  ASSUME NEW a \in Auths, NEW t \in Nat, NEW c \in BOOLEAN,
         NEW f, f = CooldownRecords(a, t, c)
  PROVE  /\ f \subseteq Records /\ OnePerModel(f)
         /\ \A r \in f :
               \/ /\ r.model \in DOMAIN a.models /\ r = ModelRecord(a, r.model)
                  /\ Held(a.models[r.model], t)
               \/ r.model = NoModel /\ AuthIsHeld(a, t) /\ r.next = a.next
         /\ c /\ ~a.disabled =>
               /\ \A m \in DOMAIN a.models :
                     Held(a.models[m], t) => ModelRecord(a, m) \in f
               /\ AuthIsHeld(a, t) => \E r \in f : r.model = NoModel /\ r.next = a.next
<1> DEFINE own == [model |-> NoModel, next |-> a.next, quota |-> a.quota, err |-> "other"]
           D == {n \in DOMAIN a.models : Held(a.models[n], t)}
<1>1. own \in Records /\ own.model = NoModel /\ own.next = a.next
  BY AuthFields DEF Records, Errors
<1>2. OwnRecord(a, t) = IF AuthIsHeld(a, t) THEN {own} ELSE {}
  BY DEF OwnRecord
<1>3. \A m \in D : ModelRecord(a, m) \in Records /\ ModelRecord(a, m).model = m
                   /\ m \in DOMAIN a.models /\ Held(a.models[m], t) /\ m # NoModel
  BY AuthFields, NoModelAssumption DEF ModelRecord, Records
<1>4. ModelRecords(a, t) = {ModelRecord(a, m) : m \in D}
  BY DEF ModelRecords, ModelRecord
<1>5. \A m \in DOMAIN a.models : Held(a.models[m], t) => m \in D
  OBVIOUS
<1>6. f = IF a.disabled \/ ~c THEN {} ELSE ModelRecords(a, t) \cup OwnRecord(a, t)
  BY DEF CooldownRecords
<1> HIDE DEF own, D
<1>7. \A r \in f :
        \/ r.model \in D /\ r = ModelRecord(a, r.model)
        \/ r = own /\ AuthIsHeld(a, t)
  BY <1>2, <1>3, <1>4, <1>6
<1>8. f \subseteq Records /\ OnePerModel(f)
  BY <1>1, <1>3, <1>7 DEF OnePerModel
<1>9. c /\ ~a.disabled =>
        /\ \A m \in D : ModelRecord(a, m) \in f
        /\ AuthIsHeld(a, t) => own \in f
  BY <1>2, <1>4, <1>6
<1> QED
  BY <1>1, <1>3, <1>5, <1>7, <1>8, <1>9

Live(records, t) == {r \in records : r.next > t}
RecordOf(records, t, m) == CHOOSE r \in Live(records, t) : r.model = m

\* What a model is held for and until when is taken from its record.
FromRecord(s, r) ==
    s = [unavail |-> TRUE, next |-> r.next, quota |-> RestoredQuota(r), err |-> r.err]
Restored(a, records, t, b) ==
    /\ DOMAIN b.models = DOMAIN a.models \cup
          {r.model : r \in {x \in Live(records, t) : x.model # NoModel}}
    /\ \A m \in DOMAIN b.models :
          \/ /\ \E r \in Live(records, t) : r.model = m
             /\ m # NoModel
             /\ FromRecord(b.models[m], RecordOf(records, t, m))
          \/ /\ m \in DOMAIN a.models
             /\ b.models[m].quota = a.models[m].quota
             /\ Held(b.models[m], t) => b.models[m] = a.models[m]

\* The credential's own record decides when it has one.
OwnRestored(a, records, t, b) ==
    \/ /\ \E r \in Live(records, t) : r.model = NoModel
       /\ b.unavail /\ b.next = RecordOf(records, t, NoModel).next
    \/ /\ \A r \in Live(records, t) : r.model # NoModel
       /\ \/ Live(records, t) = {} /\ b = a
          \/ Live(records, t) # {} /\ Aggregated(b, t)

\* Restore makes of a record what Restored says.
LEMMA RestoreFacts ==
  ASSUME NEW a \in Auths, NEW records \in SUBSET Records, NEW t \in Nat,
         NEW c \in BOOLEAN, NEW b, b = Restore(a, records, t, c)
  PROVE  /\ b \in Auths /\ b.disabled = a.disabled
         /\ a.disabled \/ ~c => b = a
         /\ c /\ ~a.disabled => Restored(a, records, t, b) /\ OwnRestored(a, records, t, b)
<1> DEFINE live == {r \in records : r.next > t}
           own == OwnRecords(live)
           held == {r.model : r \in live \ own}
           of(m) == CHOOSE r \in live : r.model = m
           state(m) == [unavail |-> TRUE, next |-> of(m).next,
                        quota |-> RestoredQuota(of(m)), err |-> of(m).err]
           models == [m \in DOMAIN a.models \cup held |->
                        IF m \in held THEN state(m) ELSE a.models[m]]
           d == [a EXCEPT !.models = models]
           e == IF held = {} THEN a ELSE Aggregate(d, t)
           g == [e EXCEPT !.unavail = TRUE, !.next = of(NoModel).next,
                          !.quota = RestoredQuota(of(NoModel))]
<1>1. b = IF a.disabled \/ ~c THEN a ELSE IF own = {} THEN e ELSE g
  BY DEF Restore
<1>2. \A r \in live : /\ r \in Records /\ r.next > t /\ r.next \in Nat
                      /\ r.model \in Models \cup {NoModel}
                      /\ RestoredQuota(r) \in Quotas /\ r.err \in Errors
  BY DEF Records, RestoredQuota, Quotas
<1>3. held = {r.model : r \in {x \in live : x.model # NoModel}}
  BY DEF OwnRecords
<1>4. \A m : (\E r \in live : r.model = m) => of(m) \in live /\ of(m).model = m
  OBVIOUS
<1>5. held \subseteq Models /\ \A m \in held : \E r \in live : r.model = m
  BY <1>2, <1>3
<1>6. own # {} <=> \E r \in live : r.model = NoModel
  BY DEF OwnRecords
<1>7. own = {} => (held = {} <=> live = {})
  BY DEF OwnRecords
<1>17. live = Live(records, t) /\ NoModel \notin held /\ \A m : of(m) = RecordOf(records, t, m)
  BY <1>3 DEF Live, RecordOf
<1> HIDE DEF live, own, held
<1>8. \A m \in held : state(m) \in ModelStates /\ Held(state(m), t)
  BY <1>2, <1>4, <1>5 DEF ModelStates, Held
<1>9. models \in ModelMaps /\ DOMAIN models = DOMAIN a.models \cup held
  <2>1. \A m \in DOMAIN a.models \cup held : models[m] \in ModelStates
    BY <1>8, AuthFields
  <2> QED
    BY <2>1, <1>5, MapIsMap, AuthFields
<1>10. \A m \in DOMAIN models : models[m] = IF m \in held THEN state(m) ELSE a.models[m]
  BY <1>9
<1> HIDE DEF models
<1>11. d \in Auths /\ d.models = models /\ d.disabled = a.disabled
  BY <1>9 DEF Auths
<1> HIDE DEF d
<1>12. /\ e \in Auths /\ e.disabled = a.disabled
       /\ DOMAIN e.models = DOMAIN a.models \cup held
       /\ \A m \in DOMAIN e.models :
             \/ m \in held /\ e.models[m] = state(m)
             \/ /\ m \in DOMAIN a.models /\ e.models[m].quota = a.models[m].quota
                /\ Held(e.models[m], t) => e.models[m] = a.models[m]
       /\ (held = {} /\ e = a) \/ (held # {} /\ Aggregated(e, t))
  <2>1. CASE held = {}
    BY <2>1
  <2>2. CASE held # {}
    <3>1. e = Aggregate(d, t)
      BY <2>2
    <3> HIDE DEF e
    <3>2. /\ e \in Auths /\ e.disabled = d.disabled /\ DOMAIN e.models = DOMAIN d.models
          /\ \A m \in DOMAIN d.models :
                /\ e.models[m].quota = d.models[m].quota
                /\ Held(e.models[m], t) <=> Held(d.models[m], t)
                /\ Held(d.models[m], t) => e.models[m] = d.models[m]
          /\ Aggregated(e, t)
      BY <3>1, <1>11, AggregateFacts
    <3> HIDE DEF state
    <3>3. ASSUME NEW m \in DOMAIN e.models
          PROVE  \/ m \in held /\ e.models[m] = state(m)
                 \/ /\ m \in DOMAIN a.models /\ e.models[m].quota = a.models[m].quota
                    /\ Held(e.models[m], t) => e.models[m] = a.models[m]
      BY <3>2, <1>8, <1>9, <1>10, <1>11
    <3> QED
      BY <3>2, <3>3, <1>9, <1>11, <2>2
  <2> QED
    BY <2>1, <2>2
<1> HIDE DEF e
<1>13. own # {} => /\ g \in Auths /\ g.disabled = e.disabled /\ g.models = e.models
                  /\ g.unavail = TRUE /\ g.next = of(NoModel).next
  <2> DEFINE r == of(NoModel)
             q == RestoredQuota(r)
  <2>1. SUFFICES ASSUME own # {} PROVE /\ g \in Auths /\ g.disabled = e.disabled
                    /\ g.models = e.models /\ g.unavail = TRUE /\ g.next = r.next
    OBVIOUS
  <2>2. r.next \in Nat /\ q \in Quotas
    BY <2>1, <1>2, <1>4, <1>6
  <2>3. g = [e EXCEPT !.unavail = TRUE, !.next = r.next, !.quota = q]
    OBVIOUS
  <2> HIDE DEF r, q, g
  <2>4. g = [disabled |-> e.disabled, unavail |-> TRUE, next |-> r.next, quota |-> q,
             models |-> e.models]
    BY <2>3, <1>12 DEF Auths
  <2> QED
    BY <2>2, <2>4, <1>12, AuthFields DEF Auths
<1> HIDE DEF g, of
<1>14. CASE a.disabled \/ ~c
  BY <1>1, <1>14
<1>18. ASSUME b.models = e.models PROVE Restored(a, records, t, b)
  <2>1. ASSUME NEW m \in DOMAIN b.models
        PROVE  \/ /\ \E r \in Live(records, t) : r.model = m
                  /\ m # NoModel
                  /\ FromRecord(b.models[m], RecordOf(records, t, m))
               \/ /\ m \in DOMAIN a.models
                  /\ b.models[m].quota = a.models[m].quota
                  /\ Held(b.models[m], t) => b.models[m] = a.models[m]
    BY <1>5, <1>12, <1>17, <1>18 DEF FromRecord
  <2> QED
    BY <2>1, <1>3, <1>12, <1>17, <1>18 DEF Restored
<1>15. CASE ~a.disabled /\ c /\ own = {}
  <2>1. b = e
    BY <1>1, <1>15
  <2>2. OwnRestored(a, records, t, b)
    BY <2>1, <1>6, <1>7, <1>12, <1>15, <1>17 DEF OwnRestored
  <2> QED
    BY <2>1, <2>2, <1>12, <1>15, <1>18
<1>16. CASE ~a.disabled /\ c /\ own # {}
  <2>1. b = g
    BY <1>1, <1>16
  <2>2. OwnRestored(a, records, t, b)
    BY <2>1, <1>6, <1>13, <1>16, <1>17 DEF OwnRestored
  <2> QED
    BY <2>1, <2>2, <1>12, <1>13, <1>16, <1>18
<1> QED
  BY <1>14, <1>15, <1>16

\* A restored record is a record.
LEMMA RestoreType ==
  ASSUME NEW a \in Auths, NEW records \in SUBSET Records, NEW t \in Nat, NEW c \in BOOLEAN
  PROVE  Restore(a, records, t, c) \in Auths
         /\ Restore(a, records, t, c).disabled = a.disabled
BY RestoreFacts

OnFile(a, f, t) ==
    \A m \in DOMAIN a.models :
        Held(a.models[m], t) /\ a.models[m].err # "unsupported" => ModelRecord(a, m) \in f
OwnOnFile(a, f) == \E r \in f : r.model = NoModel /\ r.next = a.next
AllSupported(a) == \A m \in DOMAIN a.models : a.models[m].err # "unsupported"

\* Saving puts on file what is held.
LEMMA SavedIsOnFile ==
  ASSUME NEW a \in Auths, NEW t \in Nat, NEW c \in BOOLEAN, NEW f, f = CooldownRecords(a, t, c)
  PROVE  /\ f \in SUBSET Records /\ OnePerModel(f)
         /\ c /\ ~a.disabled => OnFile(a, f, t)
         /\ c /\ ~a.disabled /\ a.unavail /\ a.next > t => OwnOnFile(a, f)
BY CooldownRecordsFacts DEF OnFile, OwnOnFile, AuthIsHeld

\* A change that leaves the records alone leaves what is held alone.
LEMMA UnsavedIsOnFile ==
  ASSUME NEW a \in Auths, NEW b \in Auths, NEW t \in Nat, NEW f,
         CooldownRecords(a, t, TRUE) = CooldownRecords(b, t, TRUE),
         ~a.disabled, ~b.disabled
  PROVE  /\ OnFile(a, f, t) => OnFile(b, f, t)
         /\ b.unavail /\ b.next > t => a.next = b.next
         /\ \A m \in DOMAIN a.models : m \in DOMAIN b.models /\ Held(b.models[m], t) =>
               Held(a.models[m], t) /\ a.models[m] = b.models[m]
<1> DEFINE f2 == CooldownRecords(b, t, TRUE)
<1>1. \A r \in f2 :
        \/ /\ r.model \in DOMAIN a.models /\ r = ModelRecord(a, r.model)
           /\ Held(a.models[r.model], t)
        \/ r.model = NoModel /\ AuthIsHeld(a, t) /\ r.next = a.next
  BY CooldownRecordsFacts, ZenonT(30)
<1>2. /\ \A m \in DOMAIN b.models : Held(b.models[m], t) => ModelRecord(b, m) \in f2
      /\ AuthIsHeld(b, t) => \E r \in f2 : r.model = NoModel /\ r.next = b.next
  BY CooldownRecordsFacts
<1> HIDE DEF f2
<1>3. \A m \in DOMAIN b.models : ModelRecord(b, m).model = m /\ m # NoModel
  BY AuthFields, NoModelAssumption DEF ModelRecord
<1>4. NoModel \notin DOMAIN a.models
  BY AuthFields, NoModelAssumption
<1>5. ASSUME NEW m \in DOMAIN b.models, Held(b.models[m], t)
      PROVE  m \in DOMAIN a.models /\ ModelRecord(b, m) = ModelRecord(a, m)
             /\ Held(a.models[m], t) /\ a.models[m] = b.models[m]
  <2>1. m \in DOMAIN a.models /\ ModelRecord(b, m) = ModelRecord(a, m) /\ Held(a.models[m], t)
    BY <1>1, <1>2, <1>3, <1>5
  <2>2. /\ a.models[m].next = b.models[m].next /\ a.models[m].quota = b.models[m].quota
        /\ a.models[m].err = b.models[m].err
    BY <2>1 DEF ModelRecord
  <2>3. a.models[m] \in ModelStates /\ b.models[m] \in ModelStates
    BY <2>1, <1>5, AuthFields
  <2>4. a.models[m].unavail = TRUE /\ b.models[m].unavail = TRUE
    BY <2>1, <2>3, <1>5 DEF Held, ModelStates
  <2> QED
    BY <2>1, <2>2, <2>3, <2>4 DEF ModelStates
<1>6. OnFile(a, f, t) => OnFile(b, f, t)
  BY <1>5 DEF OnFile, ModelRecord
<1>7. b.unavail /\ b.next > t => a.next = b.next
  BY <1>1, <1>2, <1>4 DEF AuthIsHeld
<1> QED
  BY <1>5, <1>6, <1>7

-----------------------------------------------------------------------------
(* The inductive invariants *)

TypeInv ==
    /\ now \in 1..MaxTime
    /\ auth \in Auths
    /\ cooling \in BOOLEAN
    /\ file \in SUBSET Records
    /\ startup \in Startups
    /\ direct \in BOOLEAN

\* AggregateSound looks at a credential that is unavailable, but a refused
\* refresh makes one so without a look at its deadline: what counts is that.
DeadlineInv ==
    ~direct /\ auth.next > now /\ auth.models # NoModels =>
        \A m \in DOMAIN auth.models :
            Held(auth.models[m], now) /\ auth.models[m].next >= auth.next

\* What is held is on file, but for models that are unsupported: those are held
\* without cooling as well, and nothing is on file then.
FileInv ==
    /\ OnePerModel(file)
    /\ cooling /\ ~auth.disabled => OnFile(auth, file, now)
    /\ ~cooling => \A m \in DOMAIN auth.models :
                      Held(auth.models[m], now) => auth.models[m].err = "unsupported"

\* The same for the credential's own deadline, whether or not it counts now:
\* a refused refresh, or cooling that is enabled, makes it count again.
OwnInv ==
    auth.next > now /\ ~auth.disabled /\ AllSupported(auth) =>
        cooling /\ OwnOnFile(auth, file)

\* A credential that is stored as a whole, for a model or for itself.
LEMMA ResultCases ==
  ASSUME TypeInv, NEW m \in Models \cup {NoModel}, NEW o \in Failures \cup {"success"},
         Result(m, o)
  PROVE  /\ auth' \in Auths /\ auth'.disabled = auth.disabled /\ direct' \in BOOLEAN
         /\ \/ o = "request_scoped" /\ auth' = auth /\ direct' = direct
            \/ /\ o # "request_scoped" /\ m = NoModel /\ direct'
               /\ auth'.models = auth.models
               /\ auth'.next = 0 \/ auth'.unavail
               /\ ~cooling => auth'.next \in {auth.next, 0}
            \/ /\ o # "request_scoped" /\ m \in Models /\ ~direct'
               /\ \E s \in ModelStates :
                    /\ auth' = Aggregate([auth EXCEPT !.models = PutModel(@, m, s)], now)
                    /\ \/ o = "success" /\ s = CleanState
                       \/ /\ o \in Failures
                          /\ s = FailModel(GetModel(auth.models, m), o, now, cooling)
                    /\ ~cooling /\ Held(s, now) => s.err = "unsupported"
<1>1. auth \in Auths /\ now \in Nat /\ cooling \in BOOLEAN /\ direct \in BOOLEAN
  BY DEF TypeInv
<1>2. "success" \notin Failures /\ "request_scoped" \in Failures
  BY DEF Failures, QuotaFailures
<1>3. direct' = IF o = "request_scoped" THEN direct ELSE m = NoModel
  BY DEF Result
<1>4. CASE o = "request_scoped"
  <2>1. auth' = FailOn(auth, m, o, now, cooling)
    BY <1>4 DEF Result
  <2>2. auth' = auth
    BY <2>1, <1>4 DEF FailOn, FailAuth
  <2>3. direct' = direct
    BY <1>3, <1>4
  <2> QED
    BY <1>1, <1>4, <2>2, <2>3
<1>5. CASE o # "request_scoped" /\ m = NoModel
  <2>1. direct' = TRUE
    BY <1>3, <1>5
  <2>2. CASE o = "success"
    <3>1. auth' = [auth EXCEPT !.unavail = FALSE, !.next = 0, !.quota = NoQuota]
      BY <1>5, <2>2 DEF Result, SucceedOn
    <3>2. auth' = [disabled |-> auth.disabled, unavail |-> FALSE, next |-> 0,
                   quota |-> NoQuota, models |-> auth.models]
      BY <1>1, <3>1 DEF Auths
    <3>3. auth' \in Auths
      BY <1>1, <3>2, Constants DEF Auths
    <3> QED
      BY <1>5, <2>1, <3>2, <3>3
  <2>3. CASE o # "success"
    <3>1. o \in Failures
      BY <2>3
    <3>2. auth' = FailAuth(auth, o, now, cooling)
      BY <1>5, <2>3 DEF Result, FailOn
    <3>3. /\ auth' \in Auths
          /\ auth'.disabled = auth.disabled /\ auth'.models = auth.models
          /\ auth'.unavail
          /\ ~cooling => auth'.next \in {auth.next, 0}
      BY <1>1, <1>5, <3>1, <3>2, FailAuthFacts
    <3> QED
      BY <1>5, <2>1, <3>3
  <2> QED
    BY <2>2, <2>3
<1>6. CASE o # "request_scoped" /\ m # NoModel
  <2>1. direct' = FALSE /\ m \in Models
    BY <1>3, <1>6
  <2> DEFINE old == GetModel(auth.models, m)
             s == IF o = "success" THEN CleanState ELSE FailModel(old, o, now, cooling)
  <2>2. old \in ModelStates
    BY <1>1, AuthFields, Constants DEF GetModel
  <2>3. s \in ModelStates /\ (~cooling /\ Held(s, now) => s.err = "unsupported")
    <3>1. CASE o = "success"
      BY <3>1, Constants DEF Held
    <3>2. CASE o # "success"
      <4>1. s = FailModel(old, o, now, cooling) /\ o \in Failures
        BY <3>2
      <4> HIDE DEF s, old
      <4> QED
        BY <4>1, <2>2, <1>1, FailModelFacts
    <3> QED
      BY <3>1, <3>2
  <2>4. auth' = Aggregate([auth EXCEPT !.models = PutModel(@, m, s)], now)
    BY <1>6, <2>1 DEF Result, SucceedOn, FailOn
  <2>5. \/ o = "success" /\ s = CleanState
        \/ o \in Failures /\ s = FailModel(old, o, now, cooling)
    OBVIOUS
  <2> HIDE DEF s
  <2>6. auth' \in Auths /\ auth'.disabled = auth.disabled
    BY <1>1, <2>1, <2>3, <2>4, StoreFacts
  <2> QED
    BY <1>6, <2>1, <2>3, <2>4, <2>5, <2>6
<1> QED
  BY <1>4, <1>5, <1>6

\* The other actions that make a new record.
LEMMA ReloadFacts ==
  ASSUME TypeInv, NEW c \in BOOLEAN, Reload(c)
  PROVE  \E a \in Auths, f \in SUBSET Records :
           /\ \/ a = auth /\ f = file /\ c /\ ~auth.disabled
              \/ /\ a = ClearCooldown(auth, now) /\ (~c \/ auth.disabled)
                 /\ f = file \/ f = CooldownRecords(a, now, c)
           /\ a.disabled = auth.disabled
           /\ auth' = Restore(a, f, now, c)
           /\ auth' \in Auths /\ auth'.disabled = auth.disabled
           /\ cooling' = c
           /\ file' = (IF f = {} THEN f ELSE CooldownRecords(auth', now, c))
           /\ direct' = (direct \/ \E r \in f : r.model = NoModel)
<1> DEFINE a == Configured(auth, c)
           f == FileConfigured(c)
<1>1. auth \in Auths /\ now \in Nat /\ cooling \in BOOLEAN /\ file \in SUBSET Records
  BY DEF TypeInv
<1>2. \/ a = auth /\ f = file /\ c /\ ~auth.disabled
      \/ /\ a = ClearCooldown(auth, now) /\ (~c \/ auth.disabled)
         /\ f = file \/ f = CooldownRecords(a, now, c)
  BY DEF Configured, FileConfigured, LosesCooldown
<1>3. a \in Auths /\ a.disabled = auth.disabled
  BY <1>1, <1>2, ClearCooldownFacts
<1>4. f \in SUBSET Records
  BY <1>1, <1>2, <1>3, SavedIsOnFile
<1>5. /\ auth' = Restore(a, f, now, c) /\ cooling' = c
      /\ file' = (IF f = {} THEN f ELSE CooldownRecords(auth', now, c))
      /\ direct' = (direct \/ \E r \in f : r.model = NoModel)
  BY DEF Reload
<1> HIDE DEF a, f
<1>6. auth' \in Auths /\ auth'.disabled = a.disabled
  <2>1. auth' = Restore(a, f, now, c) /\ a \in Auths /\ f \in SUBSET Records /\ now \in Nat
    BY <1>1, <1>3, <1>4, <1>5
  <2> QED
    BY <2>1, RestoreType
<1> QED
  BY <1>2, <1>3, <1>4, <1>5, <1>6

\* A version from the watcher, with or without the holds of the one before.
LEMMA WatcherUpdateFacts ==
  ASSUME TypeInv, NEW d \in BOOLEAN, WatcherUpdate(d)
  PROVE  /\ auth' \in Auths /\ auth'.disabled = d
         /\ \A m \in DOMAIN auth'.models :
               /\ m \in DOMAIN auth.models
               /\ auth'.models[m].quota = NoQuota
                  \/ /\ auth'.models[m].quota = auth.models[m].quota
                     /\ ~(cooling /\ ~d) => auth.models[m].quota.recover = 0
               /\ Held(auth'.models[m], now) =>
                     auth'.models[m] = auth.models[m] /\ cooling /\ ~d /\ ~auth.disabled
         /\ auth'.next <= now
         /\ cooling /\ ~d => file' = file
         /\ file' = file \/ file' = CooldownRecords(auth', now, cooling)
<1> DEFINE new == [FreshAuth EXCEPT !.disabled = d]
<1>1. auth \in Auths /\ now \in Nat /\ now > 0 /\ cooling \in BOOLEAN
  BY DEF TypeInv
<1>2. new \in Auths /\ new.disabled = d /\ new.next = 0 /\ new.models = NoModels
      /\ DOMAIN new.models = {}
  BY Constants DEF FreshAuth
<1>3. /\ auth' = Updated(new, auth, now, cooling)
      /\ cooling /\ ~d => file' = file
      /\ file' = file \/ file' = CooldownRecords(auth', now, cooling)
  BY DEF WatcherUpdate
<1> HIDE DEF new
<1>4. /\ auth' \in Auths /\ auth'.disabled = new.disabled
      /\ \A m \in DOMAIN auth'.models :
            /\ m \in DOMAIN auth.models
            /\ auth'.models[m].quota = NoQuota
               \/ /\ auth'.models[m].quota = auth.models[m].quota
                  /\ ~(cooling /\ ~new.disabled) => auth.models[m].quota.recover = 0
            /\ Held(auth'.models[m], now) =>
                  auth'.models[m] = auth.models[m] /\ cooling /\ ~new.disabled
      /\ cooling /\ ~new.disabled =>
            /\ auth'.next = new.next
            /\ \/ auth'.models = new.models
               \/ auth'.models = auth.models /\ new.models = NoModels /\ ~auth.disabled
      /\ ~(cooling /\ ~new.disabled) => auth'.next <= now
  BY <1>1, <1>2, <1>3, ReplacedFacts
<1>5. auth'.next <= now
  BY <1>1, <1>2, <1>4
<1>6. ASSUME NEW m \in DOMAIN auth'.models, Held(auth'.models[m], now) PROVE ~auth.disabled
  BY <1>2, <1>4, <1>6
<1> QED
  BY <1>2, <1>3, <1>4, <1>5, <1>6

\* A token from the provider, over the record that is current by then.
LEMMA RefreshOkFacts ==
  ASSUME TypeInv, RefreshOk
  PROVE  /\ auth' \in Auths /\ auth'.disabled = auth.disabled
         /\ \A m \in DOMAIN auth'.models :
               /\ m \in DOMAIN auth.models
               /\ auth'.models[m].quota = NoQuota
                  \/ /\ auth'.models[m].quota = auth.models[m].quota
                     /\ ~(cooling /\ ~auth.disabled) => auth.models[m].quota.recover = 0
               /\ Held(auth'.models[m], now) =>
                     auth'.models[m] = auth.models[m] /\ cooling /\ ~auth.disabled
         /\ \/ auth'.models = auth.models /\ auth'.next = auth.next
               /\ cooling /\ ~auth.disabled
            \/ auth'.next <= now
         /\ cooling /\ ~auth.disabled => file' = file
         /\ file' = file \/ file' = CooldownRecords(auth', now, cooling)
<1> DEFINE new == Refreshed(auth, now)
<1>1. auth \in Auths /\ now \in Nat /\ cooling \in BOOLEAN
  BY DEF TypeInv
<1>2. /\ auth' = Updated(new, auth, now, cooling)
      /\ cooling /\ ~auth.disabled => file' = file
      /\ file' = file \/ file' = CooldownRecords(auth', now, cooling)
  BY DEF RefreshOk
<1>3. /\ new \in Auths
      /\ new.disabled = auth.disabled /\ DOMAIN new.models = DOMAIN auth.models
      /\ \A m \in DOMAIN auth.models :
            /\ new.models[m].quota \in {auth.models[m].quota, NoQuota}
            /\ Held(new.models[m], now) => new.models[m] = auth.models[m]
      /\ (new.models = auth.models /\ new.next = auth.next) \/ new.next <= now
  BY <1>1, RefreshedFacts
<1> HIDE DEF new
<1>4. /\ auth' \in Auths /\ auth'.disabled = new.disabled
      /\ \A m \in DOMAIN auth'.models :
            /\ m \in DOMAIN auth.models
            /\ auth'.models[m].quota = NoQuota
               \/ /\ auth'.models[m].quota = auth.models[m].quota
                  /\ ~(cooling /\ ~new.disabled) => auth.models[m].quota.recover = 0
            /\ Held(auth'.models[m], now) =>
                  auth'.models[m] = auth.models[m] /\ cooling /\ ~new.disabled
      /\ cooling /\ ~new.disabled =>
            /\ auth'.next = new.next
            /\ \/ auth'.models = new.models
               \/ auth'.models = auth.models /\ new.models = NoModels /\ ~auth.disabled
      /\ ~(cooling /\ ~new.disabled) => auth'.next <= now
  BY <1>1, <1>2, <1>3, ReplacedFacts
<1>5. new.models = NoModels => auth.models = new.models
  BY <1>1, <1>3, MapIsEmpty
<1> QED
  BY <1>2, <1>3, <1>4, <1>5

\* A restart restores the file into a fresh record.
LEMMA RestartFacts ==
  ASSUME TypeInv, Restart
  PROVE  \E a \in Auths :
           /\ a.disabled = auth.disabled /\ a.models = NoModels /\ a.next = 0
           /\ auth' = Restore(a, file, now, cooling)
           /\ auth' \in Auths /\ auth'.disabled = auth.disabled
           /\ file' = (IF file = {} THEN file ELSE CooldownRecords(auth', now, cooling))
           /\ direct' = (\E r \in file : r.model = NoModel)
<1> DEFINE a == [FreshAuth EXCEPT !.disabled = auth.disabled]
<1>1. auth \in Auths /\ now \in Nat /\ cooling \in BOOLEAN /\ file \in SUBSET Records
      /\ auth.disabled \in BOOLEAN
  BY AuthFields DEF TypeInv
<1>2. a \in Auths /\ a.disabled = auth.disabled /\ a.next = 0 /\ a.models = NoModels
  BY <1>1, Constants DEF FreshAuth
<1>3. /\ auth' = Restore(a, file, now, cooling)
      /\ file' = (IF file = {} THEN file ELSE CooldownRecords(auth', now, cooling))
      /\ direct' = (\E r \in file : r.model = NoModel)
  BY DEF Restart
<1> HIDE DEF a
<1>4. auth' \in Auths /\ auth'.disabled = a.disabled
  BY <1>1, <1>2, <1>3, RestoreFacts
<1> QED
  BY <1>2, <1>3, <1>4

\* A refused refresh marks the record and leaves its models alone.
LEMMA RefreshFailsFacts ==
  ASSUME TypeInv, NEW refused \in BOOLEAN, RefreshFails(refused)
  PROVE  /\ auth' \in Auths /\ auth'.disabled = auth.disabled
         /\ auth'.models = auth.models /\ auth'.next = auth.next
<1>1. auth \in Auths
  BY DEF TypeInv
<1>2. auth' = auth \/ auth' = [auth EXCEPT !.unavail = TRUE]
  BY DEF RefreshFails, RefreshFailed
<1> QED
  BY <1>1, <1>2 DEF Auths

-----------------------------------------------------------------------------
(* Types *)

\* Every step keeps the types.
LEMMA TypeStep ==
  ASSUME TypeInv, [Next]_vars
  PROVE  TypeInv'
<1>1. auth \in Auths /\ now \in Nat /\ cooling \in BOOLEAN
  BY DEF TypeInv
<1>2. \A a \in Auths, c \in BOOLEAN : CooldownRecords(a, now, c) \in SUBSET Records
  BY <1>1, SavedIsOnFile
<1>3. ASSUME NEW r \in Results, Result(r[1], r[2]) PROVE TypeInv'
  <2>1. r[1] \in Models \cup {NoModel} /\ r[2] \in Failures \cup {"success"}
    BY ResultsAssumption
  <2>2. auth' \in Auths /\ direct' \in BOOLEAN
    BY <1>3, <2>1, ResultCases
  <2>3. file' \in {file, CooldownRecords(auth', now, cooling)}
        /\ UNCHANGED <<now, cooling, startup>>
    BY <1>3 DEF Result, Recorded
  <2> QED
    BY <1>1, <1>2, <2>2, <2>3 DEF TypeInv
<1>4. CASE ResetQuota
  <2>1. auth' = ResetAll(auth, now)
        /\ file' \in {file, CooldownRecords(auth', now, cooling)}
        /\ UNCHANGED <<now, cooling, startup, direct>>
    BY <1>4 DEF ResetQuota, Recorded
  <2>2. auth' \in Auths
    BY <1>1, <2>1, ResetAllFacts
  <2> QED
    BY <1>1, <1>2, <2>1, <2>2 DEF TypeInv
<1>5. ASSUME NEW c \in BOOLEAN, Reload(c) PROVE TypeInv'
  <2>1. /\ auth' \in Auths /\ cooling' = c /\ direct' \in BOOLEAN
        /\ file' = {} \/ file' = CooldownRecords(auth', now, c)
    BY <1>5, ReloadFacts DEF TypeInv
  <2>2. UNCHANGED <<now, startup>>
    BY <1>5 DEF Reload
  <2> QED
    BY <1>2, <1>5, <2>1, <2>2 DEF TypeInv
<1>6. ASSUME NEW d \in BOOLEAN, WatcherUpdate(d) PROVE TypeInv'
  <2>1. auth' \in Auths /\ file' \in {file, CooldownRecords(auth', now, cooling)}
    BY <1>6, WatcherUpdateFacts
  <2>2. UNCHANGED <<now, cooling, direct>> /\ startup' \in Startups
    BY <1>6 DEF WatcherUpdate, Startups
  <2> QED
    BY <1>1, <1>2, <2>1, <2>2 DEF TypeInv
<1>7. ASSUME NEW supported \in SUBSET Models, RegisterModels(supported) PROVE TypeInv'
  <2>1. auth' = Reconcile(auth, supported, now) /\ startup' \in Startups
        /\ UNCHANGED <<now, cooling, file, direct>>
    BY <1>7 DEF RegisterModels, Startups
  <2>2. auth' \in Auths
    BY <1>1, <2>1, ReconcileFacts
  <2> QED
    BY <2>1, <2>2 DEF TypeInv
<1>8. CASE RefreshOk
  <2>1. auth' \in Auths /\ file' \in {file, CooldownRecords(auth', now, cooling)}
    BY <1>8, RefreshOkFacts
  <2>2. UNCHANGED <<now, cooling, startup, direct>>
    BY <1>8 DEF RefreshOk
  <2> QED
    BY <1>1, <1>2, <2>1, <2>2 DEF TypeInv
<1>9. ASSUME NEW refused \in BOOLEAN, RefreshFails(refused) PROVE TypeInv'
  <2>1. auth' \in Auths
    BY <1>9, RefreshFailsFacts
  <2>2. UNCHANGED <<now, cooling, file, startup, direct>>
    BY <1>9 DEF RefreshFails
  <2> QED
    BY <2>1, <2>2 DEF TypeInv
<1>10. CASE Tick
  BY <1>10, MaxTimeAssumption DEF Tick, TypeInv
<1>11. CASE Restart
  <2>1. /\ auth' \in Auths /\ direct' \in BOOLEAN
        /\ file' \in {file, CooldownRecords(auth', now, cooling)}
    BY <1>11, RestartFacts
  <2>2. UNCHANGED <<now, cooling>> /\ startup' \in Startups
    BY <1>11 DEF Restart, Startups
  <2> QED
    BY <1>1, <1>2, <2>1, <2>2 DEF TypeInv
<1>12. CASE UNCHANGED vars
  BY <1>12 DEF vars, TypeInv
<1> QED
  BY <1>3, <1>4, <1>5, <1>6, <1>7, <1>8, <1>9, <1>10, <1>11, <1>12 DEF Next

-----------------------------------------------------------------------------
(* Deadlines and the file *)

\* With nothing held and no deadline, the invariants hold whatever is on file.
LEMMA NoneHeldStep ==
  ASSUME auth' \in Auths, now \in Nat, now' = now, OnePerModel(file'),
         \A m \in DOMAIN auth'.models : ~Held(auth'.models[m], now),
         auth'.next <= now
  PROVE  DeadlineInv' /\ FileInv' /\ OwnInv'
<1>1. ~(auth'.next > now)
  BY AuthFields
<1> QED
  BY <1>1 DEF DeadlineInv, FileInv, OwnInv, OnFile

\* A result keeps the invariants.
LEMMA ResultStep ==
  ASSUME TypeInv, DeadlineInv, FileInv, OwnInv,
         NEW m \in Models \cup {NoModel}, NEW o \in Failures \cup {"success"}, Result(m, o)
  PROVE  DeadlineInv' /\ FileInv' /\ OwnInv'
<1>1. auth \in Auths /\ now \in Nat /\ cooling \in BOOLEAN /\ auth' \in Auths
      /\ auth'.disabled = auth.disabled
  BY ResultCases DEF TypeInv
<1>2. now' = now /\ cooling' = cooling
  BY DEF Result
<1>3. \/ file' = CooldownRecords(auth', now, cooling)
      \/ /\ file' = file
         /\ CooldownRecords(auth, now, cooling) = CooldownRecords(auth', now, cooling)
  BY DEF Result, Changes, Recorded
<1>4. OnePerModel(file')
  BY <1>1, <1>3, SavedIsOnFile DEF FileInv
<1>5. CASE o = "request_scoped" /\ auth' = auth /\ direct' = direct
  <2>1. file' = file
    BY <1>5 DEF Result, Changes
  <2> QED
    BY <1>2, <1>5, <2>1 DEF DeadlineInv, FileInv, OwnInv
<1>6. ASSUME auth'.next > now => auth'.unavail,
             ~cooling => \A n \in DOMAIN auth'.models :
                Held(auth'.models[n], now) => auth'.models[n].err = "unsupported",
             auth'.next > now /\ ~auth.disabled /\ AllSupported(auth') => cooling,
             auth'.next > now /\ AllSupported(auth')
                /\ (\A n \in DOMAIN auth.models :
                      n \in DOMAIN auth'.models /\ Held(auth'.models[n], now) =>
                         auth.models[n] = auth'.models[n]) => AllSupported(auth)
      PROVE  FileInv' /\ OwnInv'
  <2>1. CASE file' = CooldownRecords(auth', now, cooling)
    <3>1. /\ cooling /\ ~auth'.disabled => OnFile(auth', file', now)
          /\ cooling /\ ~auth'.disabled /\ auth'.unavail /\ auth'.next > now
                => OwnOnFile(auth', file')
      BY <1>1, <2>1, SavedIsOnFile
    <3> QED
      BY <1>1, <1>2, <1>4, <1>6, <3>1 DEF FileInv, OwnInv
  <2>2. CASE /\ file' = file
             /\ CooldownRecords(auth, now, cooling) = CooldownRecords(auth', now, cooling)
    <3>1. cooling /\ ~auth.disabled =>
            /\ OnFile(auth, file, now) => OnFile(auth', file, now)
            /\ auth'.unavail /\ auth'.next > now => auth.next = auth'.next
            /\ \A n \in DOMAIN auth.models :
                 n \in DOMAIN auth'.models /\ Held(auth'.models[n], now) =>
                    auth.models[n] = auth'.models[n]
      <4>1. SUFFICES ASSUME cooling, ~auth.disabled
                     PROVE  /\ OnFile(auth, file, now) => OnFile(auth', file, now)
                            /\ auth'.unavail /\ auth'.next > now => auth.next = auth'.next
                            /\ \A n \in DOMAIN auth.models :
                                 n \in DOMAIN auth'.models /\ Held(auth'.models[n], now) =>
                                    auth.models[n] = auth'.models[n]
        OBVIOUS
      <4>2. CooldownRecords(auth, now, TRUE) = CooldownRecords(auth', now, TRUE)
        <5>1. cooling = TRUE
          BY <1>1, <4>1
        <5> QED
          BY <2>2, <5>1
      <4> QED
        BY <1>1, <4>1, <4>2, UnsavedIsOnFile, ZenonT(30)
    <3>2. FileInv'
      BY <1>1, <1>2, <1>4, <1>6, <2>2, <3>1 DEF FileInv
    <3>3. OwnInv'
      <4>1. SUFFICES ASSUME auth'.next > now, ~auth.disabled, AllSupported(auth')
                     PROVE  cooling /\ OwnOnFile(auth', file)
        BY <1>1, <1>2, <2>2 DEF OwnInv
      <4>2. cooling /\ auth.next = auth'.next /\ AllSupported(auth)
        BY <1>6, <3>1, <4>1
      <4>3. OwnOnFile(auth, file)
        BY <4>1, <4>2 DEF OwnInv
      <4> QED
        BY <4>2, <4>3 DEF OwnOnFile
    <3> QED
      BY <3>2, <3>3
  <2> QED
    BY <1>3, <2>1, <2>2
<1>7. CASE /\ m = NoModel /\ direct' /\ auth'.models = auth.models
           /\ auth'.next = 0 \/ auth'.unavail
           /\ ~cooling => auth'.next \in {auth.next, 0}
  <2>1. auth'.next > now => auth'.unavail /\ auth'.next # 0
    BY <1>1, <1>7
  <2>2. auth'.next > now /\ ~auth.disabled /\ AllSupported(auth') => cooling
    <3>1. AllSupported(auth') => AllSupported(auth)
      BY <1>7 DEF AllSupported
    <3> QED
      BY <1>1, <1>7, <2>1, <3>1 DEF OwnInv
  <2>3. FileInv' /\ OwnInv'
    BY <1>6, <1>7, <2>1, <2>2 DEF FileInv, AllSupported
  <2> QED
    BY <1>7, <2>3 DEF DeadlineInv
<1>8. ASSUME m \in Models, NEW s \in ModelStates,
             auth' = Aggregate([auth EXCEPT !.models = PutModel(@, m, s)], now),
             ~cooling /\ Held(s, now) => s.err = "unsupported"
      PROVE  DeadlineInv' /\ FileInv' /\ OwnInv'
  <2>1. /\ DOMAIN auth'.models = DOMAIN auth.models \cup {m}
        /\ \A n \in DOMAIN auth'.models :
              LET old == IF n = m THEN s ELSE auth.models[n]
              IN  /\ auth'.models[n].err = old.err
                  /\ Held(auth'.models[n], now) <=> Held(old, now)
        /\ Aggregated(auth', now)
    BY <1>1, <1>8, StoreFacts
  <2>2. auth'.next > now => auth'.unavail
                            /\ \A n \in DOMAIN auth'.models : Held(auth'.models[n], now)
    BY <2>1 DEF Aggregated
  <2>3. ~cooling => \A n \in DOMAIN auth'.models :
           Held(auth'.models[n], now) => auth'.models[n].err = "unsupported"
    BY <1>8, <2>1 DEF FileInv
  <2>4. auth'.next > now /\ AllSupported(auth') => cooling
    BY <2>1, <2>2, <2>3 DEF AllSupported
  <2>5. auth'.next > now /\ AllSupported(auth')
          /\ (\A n \in DOMAIN auth.models :
                n \in DOMAIN auth'.models /\ Held(auth'.models[n], now) =>
                   auth.models[n] = auth'.models[n]) => AllSupported(auth)
    BY <2>1, <2>2 DEF AllSupported
  <2>6. DeadlineInv'
    BY <1>2, <2>1 DEF DeadlineInv, Aggregated
  <2> QED
    BY <1>6, <2>2, <2>3, <2>4, <2>5, <2>6
<1> QED
  BY <1>5, <1>7, <1>8, ResultCases

\* Restoring the file into a record that has no hold it does not know of.
LEMMA RestoreStep ==
  ASSUME NEW a \in Auths, NEW f \in SUBSET Records, NEW t \in Nat, NEW b,
         ~a.disabled, b = Restore(a, f, t, TRUE),
         a.next > t /\ AllSupported(a) => OwnOnFile(a, f)
  PROVE  /\ f = {} => b = a
         /\ b.next > t /\ AllSupported(b) => b.unavail
         /\ (\A r \in f : r.model # NoModel) => b = a \/ Aggregated(b, t)
<1>1. OwnRestored(a, f, t, b)
  BY RestoreFacts
<1>2. \A r \in Live(f, t) : r \in f
  BY DEF Live
<1>3. Live(f, t) = {} => ~(a.next > t /\ AllSupported(a))
  BY DEF Live, OwnOnFile
<1>4. Aggregated(b, t) /\ b.next > t => b.unavail
  BY DEF Aggregated
<1> QED
  BY <1>1, <1>2, <1>3, <1>4 DEF OwnRestored

\* A reload keeps the invariants.
LEMMA ReloadStep ==
  ASSUME TypeInv, DeadlineInv, FileInv, OwnInv, NEW c \in BOOLEAN, Reload(c)
  PROVE  DeadlineInv' /\ FileInv' /\ OwnInv'
<1>1. auth \in Auths /\ now \in Nat /\ cooling \in BOOLEAN /\ file \in SUBSET Records
  BY DEF TypeInv
<1>2. now' = now /\ cooling' = c
  BY DEF Reload
<1>3. PICK a \in Auths, f \in SUBSET Records :
           /\ \/ a = auth /\ f = file /\ c /\ ~auth.disabled
              \/ /\ a = ClearCooldown(auth, now) /\ (~c \/ auth.disabled)
                 /\ f = file \/ f = CooldownRecords(a, now, c)
           /\ a.disabled = auth.disabled
           /\ auth' = Restore(a, f, now, c)
           /\ auth' \in Auths /\ auth'.disabled = auth.disabled
           /\ file' = (IF f = {} THEN f ELSE CooldownRecords(auth', now, c))
           /\ direct' = (direct \/ \E r \in f : r.model = NoModel)
  BY ReloadFacts
<1>4. OnePerModel(file')
  <2>1. OnePerModel({})
    BY DEF OnePerModel
  <2>2. OnePerModel(CooldownRecords(auth', now, c))
    BY <1>1, <1>3, SavedIsOnFile
  <2> QED
    BY <1>3, <2>1, <2>2
<1>5. CASE ~c \/ auth.disabled
  <2>1. a = ClearCooldown(auth, now) /\ auth' = a
    BY <1>1, <1>3, <1>5, RestoreFacts
  <2>2. auth'.next <= now /\ \A m \in DOMAIN auth'.models : ~Held(auth'.models[m], now)
    BY <1>1, <2>1, ClearCooldownFacts
  <2> QED
    BY <1>1, <1>2, <1>3, <1>4, <2>2, NoneHeldStep
<1>6. CASE c /\ ~auth.disabled
  <2>1. a = auth /\ f = file /\ c = TRUE
    BY <1>3, <1>6
  <2>2. auth' = Restore(auth, file, now, TRUE)
    BY <1>3, <2>1
  <2>3. /\ file = {} => auth' = auth
        /\ auth'.next > now /\ AllSupported(auth') => auth'.unavail
        /\ (\A r \in file : r.model # NoModel) => auth' = auth \/ Aggregated(auth', now)
    BY <1>1, <1>6, <2>2, RestoreStep DEF OwnInv
  <2>4. DeadlineInv'
    BY <1>2, <1>3, <2>1, <2>3 DEF DeadlineInv, Aggregated
  <2>5. CASE file = {}
    <3>1. file' = {} /\ auth' = auth
      BY <1>3, <2>1, <2>3, <2>5
    <3>2. OnFile(auth, {}, now)
      BY <1>1, <1>6, <2>5 DEF FileInv, OnFile
    <3>3. ~(auth.next > now /\ AllSupported(auth))
      BY <1>6, <2>5 DEF OwnInv, OwnOnFile
    <3> QED
      BY <1>2, <1>4, <1>6, <2>4, <3>1, <3>2, <3>3 DEF FileInv, OwnInv
  <2>6. CASE file # {}
    <3>1. file' = CooldownRecords(auth', now, c)
      BY <1>3, <2>1, <2>6
    <3>2. /\ OnFile(auth', file', now)
          /\ auth'.unavail /\ auth'.next > now => OwnOnFile(auth', file')
      BY <1>1, <1>3, <1>6, <3>1, SavedIsOnFile
    <3> QED
      BY <1>2, <1>4, <1>6, <2>3, <2>4, <3>2 DEF FileInv, OwnInv
  <2> QED
    BY <2>5, <2>6
<1> QED
  BY <1>5, <1>6

\* A restart keeps the invariants.
LEMMA RestartStep ==
  ASSUME TypeInv, FileInv, Restart
  PROVE  DeadlineInv' /\ FileInv' /\ OwnInv'
<1>1. auth \in Auths /\ now \in Nat /\ cooling \in BOOLEAN /\ file \in SUBSET Records
  BY DEF TypeInv
<1>2. now' = now /\ cooling' = cooling
  BY DEF Restart
<1>3. PICK a \in Auths :
        /\ a.disabled = auth.disabled /\ a.models = NoModels /\ a.next = 0
        /\ auth' = Restore(a, file, now, cooling)
        /\ auth' \in Auths /\ auth'.disabled = auth.disabled
        /\ file' = (IF file = {} THEN file ELSE CooldownRecords(auth', now, cooling))
        /\ direct' = (\E r \in file : r.model = NoModel)
  BY RestartFacts
<1>4. OnePerModel(file')
  BY <1>1, <1>3, SavedIsOnFile DEF FileInv
<1>5. CASE auth' = a
  <2>1. \A m \in DOMAIN auth'.models : ~Held(auth'.models[m], now)
    BY <1>3, <1>5, MapIsEmpty
  <2>2. auth'.next <= now
    BY <1>1, <1>3, <1>5
  <2> QED
    BY <1>1, <1>2, <1>3, <1>4, <2>1, <2>2, NoneHeldStep
<1>6. CASE ~cooling \/ auth.disabled
  <2>1. auth' = a
    BY <1>1, <1>3, <1>6, RestoreFacts
  <2> QED
    BY <1>5, <2>1
<1>7. CASE cooling /\ ~auth.disabled /\ auth' # a
  <2>1. cooling = TRUE /\ auth' = Restore(a, file, now, TRUE) /\ ~(a.next > now)
    BY <1>1, <1>3, <1>7
  <2>2. /\ file = {} => auth' = a
        /\ auth'.next > now /\ AllSupported(auth') => auth'.unavail
        /\ (\A r \in file : r.model # NoModel) => auth' = a \/ Aggregated(auth', now)
    BY <1>1, <1>3, <1>7, <2>1, RestoreStep
  <2>3. file' = CooldownRecords(auth', now, cooling)
    BY <1>3, <1>7, <2>2
  <2>4. /\ OnFile(auth', file', now)
        /\ auth'.unavail /\ auth'.next > now => OwnOnFile(auth', file')
    BY <1>1, <1>3, <1>7, <2>3, SavedIsOnFile
  <2>5. DeadlineInv'
    BY <1>2, <1>3, <1>7, <2>2 DEF DeadlineInv, Aggregated
  <2> QED
    BY <1>2, <1>4, <1>7, <2>2, <2>4, <2>5 DEF FileInv, OwnInv
<1> QED
  BY <1>5, <1>6, <1>7

\* Every step keeps the invariants.
LEMMA HoldsStep ==
  ASSUME TypeInv, DeadlineInv, FileInv, OwnInv, [Next]_vars
  PROVE  DeadlineInv' /\ FileInv' /\ OwnInv'
<1>1. auth \in Auths /\ now \in Nat /\ cooling \in BOOLEAN /\ auth' \in Auths
  BY TypeStep DEF TypeInv
<1>2. \A c \in BOOLEAN : OnePerModel(CooldownRecords(auth', now, c))
  BY <1>1, SavedIsOnFile
<1>3. ASSUME NEW r \in Results, Result(r[1], r[2])
      PROVE  DeadlineInv' /\ FileInv' /\ OwnInv'
  <2>1. r[1] \in Models \cup {NoModel} /\ r[2] \in Failures \cup {"success"}
    BY ResultsAssumption
  <2> QED
    BY <1>3, <2>1, ResultStep
<1>4. CASE ResetQuota
  <2>1. auth' = ResetAll(auth, now) /\ now' = now
        /\ file' \in {file, CooldownRecords(auth', now, cooling)}
    BY <1>4 DEF ResetQuota, Recorded
  <2>2. auth'.next <= now /\ \A m \in DOMAIN auth'.models : ~Held(auth'.models[m], now)
    BY <1>1, <2>1, ResetAllFacts
  <2>3. OnePerModel(file')
    BY <1>1, <1>2, <2>1 DEF FileInv
  <2> QED
    BY <1>1, <2>1, <2>2, <2>3, NoneHeldStep
<1>5. ASSUME NEW c \in BOOLEAN, Reload(c) PROVE DeadlineInv' /\ FileInv' /\ OwnInv'
  BY <1>5, ReloadStep
<1>6. ASSUME NEW d \in BOOLEAN, WatcherUpdate(d) PROVE DeadlineInv' /\ FileInv' /\ OwnInv'
  <2>1. /\ auth'.disabled = d
        /\ \A m \in DOMAIN auth'.models :
              Held(auth'.models[m], now) =>
                 /\ m \in DOMAIN auth.models /\ auth'.models[m] = auth.models[m]
                 /\ cooling /\ ~d /\ ~auth.disabled
        /\ auth'.next <= now
        /\ cooling /\ ~d => file' = file
        /\ file' = file \/ file' = CooldownRecords(auth', now, cooling)
    BY <1>6, WatcherUpdateFacts
  <2>2. now' = now /\ cooling' = cooling
    BY <1>6 DEF WatcherUpdate
  <2>3. OnePerModel(file')
    BY <1>1, <1>2, <2>1 DEF FileInv
  <2>4. ~(auth'.next > now)
    BY <1>1, <2>1, AuthFields
  <2>5. cooling /\ ~auth'.disabled => OnFile(auth', file', now)
    BY <2>1 DEF FileInv, OnFile, ModelRecord
  <2> QED
    BY <2>1, <2>2, <2>3, <2>4, <2>5 DEF DeadlineInv, FileInv, OwnInv
<1>7. ASSUME NEW supported \in SUBSET Models, RegisterModels(supported)
      PROVE  DeadlineInv' /\ FileInv' /\ OwnInv'
  <2>1. auth' = Reconcile(auth, supported, now)
        /\ UNCHANGED <<now, cooling, file, direct>>
    BY <1>7 DEF RegisterModels
  <2>2. \/ auth' = auth
        \/ auth'.next <= now /\ \A m \in DOMAIN auth'.models : ~Held(auth'.models[m], now)
    BY <1>1, <2>1, ReconcileFacts
  <2>3. CASE auth' = auth
    BY <2>1, <2>3 DEF DeadlineInv, FileInv, OwnInv
  <2>4. CASE auth'.next <= now /\ \A m \in DOMAIN auth'.models : ~Held(auth'.models[m], now)
    BY <1>1, <2>1, <2>4, NoneHeldStep DEF FileInv
  <2> QED
    BY <2>2, <2>3, <2>4
<1>8. CASE RefreshOk
  <2>1. /\ auth'.disabled = auth.disabled
        /\ \A m \in DOMAIN auth'.models :
              Held(auth'.models[m], now) =>
                 /\ m \in DOMAIN auth.models /\ auth'.models[m] = auth.models[m]
                 /\ cooling /\ ~auth.disabled
        /\ \/ auth'.models = auth.models /\ auth'.next = auth.next
              /\ cooling /\ ~auth.disabled
           \/ auth'.next <= now
        /\ cooling /\ ~auth.disabled => file' = file
        /\ file' = file \/ file' = CooldownRecords(auth', now, cooling)
    BY <1>8, RefreshOkFacts
  <2>2. UNCHANGED <<now, cooling, direct>>
    BY <1>8 DEF RefreshOk
  <2>3. OnePerModel(file')
    BY <1>1, <1>2, <2>1 DEF FileInv
  <2>4. auth'.next > now =>
           auth'.models = auth.models /\ auth'.next = auth.next /\ cooling /\ file' = file
    BY <1>1, <2>1, AuthFields
  <2>5. cooling /\ ~auth'.disabled => OnFile(auth', file', now)
    BY <2>1 DEF FileInv, OnFile, ModelRecord
  <2>6. DeadlineInv'
    BY <2>2, <2>4 DEF DeadlineInv
  <2>7. OwnInv'
    BY <2>1, <2>2, <2>4 DEF OwnInv, AllSupported, OwnOnFile
  <2> QED
    BY <2>1, <2>2, <2>3, <2>5, <2>6, <2>7 DEF FileInv
<1>9. ASSUME NEW refused \in BOOLEAN, RefreshFails(refused)
      PROVE  DeadlineInv' /\ FileInv' /\ OwnInv'
  <2>1. auth'.disabled = auth.disabled /\ auth'.models = auth.models /\ auth'.next = auth.next
    BY <1>9, RefreshFailsFacts
  <2>2. UNCHANGED <<now, cooling, file, direct>>
    BY <1>9 DEF RefreshFails
  <2> QED
    BY <2>1, <2>2
    DEF DeadlineInv, FileInv, OwnInv, OnFile, OwnOnFile, AllSupported, ModelRecord
<1>10. CASE Tick
  <2>1. now' = now + 1 /\ UNCHANGED <<auth, cooling, file, direct>>
    BY <1>10 DEF Tick
  <2>2. auth.next \in Nat /\ \A m \in DOMAIN auth.models : auth.models[m].next \in Nat
    BY <1>1, AuthFields
  <2>3. \A m \in DOMAIN auth.models : Held(auth.models[m], now') => Held(auth.models[m], now)
    BY <1>1, <2>1, <2>2 DEF Held
  <2>4. auth.next > now' => auth.next > now
    BY <1>1, <2>1, <2>2
  <2>5. DeadlineInv'
    <3>1. SUFFICES ASSUME ~direct, auth.next > now', auth.models # NoModels,
                          NEW m \in DOMAIN auth.models
                   PROVE  Held(auth.models[m], now') /\ auth.models[m].next >= auth.next
      BY <2>1 DEF DeadlineInv
    <3>2. Held(auth.models[m], now) /\ auth.models[m].next >= auth.next
      BY <2>4, <3>1 DEF DeadlineInv
    <3>3. auth.models[m].next > now'
      BY <1>1, <2>1, <2>2, <3>1, <3>2
    <3> QED
      BY <3>2, <3>3 DEF Held
  <2>6. FileInv'
    BY <2>1, <2>3 DEF FileInv, OnFile
  <2>7. OwnInv'
    BY <2>1, <2>4 DEF OwnInv
  <2> QED
    BY <2>5, <2>6, <2>7
<1>11. CASE Restart
  BY <1>11, RestartStep
<1>12. CASE UNCHANGED vars
  BY <1>12 DEF vars, DeadlineInv, FileInv, OwnInv
<1> QED
  BY <1>3, <1>4, <1>5, <1>6, <1>7, <1>8, <1>9, <1>10, <1>11, <1>12 DEF Next

\* A fresh credential has nothing held.
LEMMA HoldsInit == Init => TypeInv /\ DeadlineInv /\ FileInv /\ OwnInv
<1> SUFFICES ASSUME Init PROVE TypeInv /\ DeadlineInv /\ FileInv /\ OwnInv
  OBVIOUS
<1>1. now = 1 /\ auth = FreshAuth /\ cooling \in BOOLEAN /\ file = {} /\ startup = "done"
      /\ direct = FALSE
  BY DEF Init
<1>2. auth \in Auths /\ auth.next = 0 /\ auth.models = NoModels /\ DOMAIN auth.models = {}
  <2>1. FreshAuth.next = 0 /\ FreshAuth.models = NoModels
    BY DEF FreshAuth
  <2> QED
    BY <1>1, <2>1, Constants
<1>3. TypeInv
  <2>1. now \in 1..MaxTime
    BY <1>1, MaxTimeAssumption
  <2>2. startup \in Startups /\ file \in SUBSET Records /\ direct \in BOOLEAN
    BY <1>1 DEF Startups
  <2> QED
    BY <1>1, <1>2, <2>1, <2>2 DEF TypeInv
<1>4. DeadlineInv
  BY <1>1, <1>2 DEF DeadlineInv
<1>5. FileInv
  BY <1>1, <1>2 DEF FileInv, OnePerModel, OnFile
<1>6. ~(auth.next > now)
  BY <1>1, <1>2
<1>7. OwnInv
  BY <1>6 DEF OwnInv
<1> QED
  BY <1>3, <1>4, <1>5, <1>7

\* The credential's deadline stays behind those of its models, and what is held
\* is on file whatever results, resets, reloads, updates, refreshes and restarts
\* come (conductor.go:3020-3417, cooldown_state.go).
THEOREM HoldsAreKept == Spec => [](TypeInv /\ DeadlineInv /\ FileInv /\ OwnInv)
<1>1. TypeInv /\ DeadlineInv /\ FileInv /\ OwnInv /\ [Next]_vars
      => (TypeInv /\ DeadlineInv /\ FileInv /\ OwnInv)'
  BY TypeStep, HoldsStep
<1> QED
  BY HoldsInit, <1>1, PTL DEF Spec

\* The record keeps its type.
THEOREM RecordTyped == Spec => []TypeOK
<1>1. TypeInv => TypeOK
  <2> SUFFICES ASSUME TypeInv PROVE TypeOK
    OBVIOUS
  <2>1. auth \in Auths
    BY DEF TypeInv
  <2>2. auth \in [disabled : BOOLEAN, unavail : BOOLEAN, next : Nat, quota : Quotas,
                  models : {auth.models}]
    BY <2>1 DEF Auths
  <2> QED
    BY <2>1, <2>2, AuthFields DEF TypeInv, TypeOK
<1> QED
  BY HoldsAreKept, <1>1, PTL

\* A credential held on account of its models has no model that may be used
\* before its deadline (conductor.go:3348-3417).
THEOREM AggregateIsSound == Spec => []AggregateSound
<1>1. DeadlineInv => AggregateSound
  BY DEF DeadlineInv, AggregateSound, AuthIsHeld
<1> QED
  BY HoldsAreKept, <1>1, PTL

\* After a restart every model is held until the time it would have been held
\* without it (conductor.go:764-904).
THEOREM HoldsSurviveRestart == Spec => []HoldsAreOnFile
<1>1. TypeInv /\ FileInv => HoldsAreOnFile
  <2> DEFINE reborn == Restore(FreshAuth, file, now, cooling)
  <2> SUFFICES ASSUME TypeInv, FileInv, cooling, ~auth.disabled, NEW m \in Models,
                      IsHeld(auth, m, now), auth.models[m].err # "unsupported"
               PROVE  HeldUntil(reborn, m, now) = HeldUntil(auth, m, now)
    BY DEF HoldsAreOnFile
  <2>1. auth \in Auths /\ now \in Nat /\ file \in SUBSET Records /\ cooling = TRUE
    BY DEF TypeInv
  <2>2. FreshAuth \in Auths /\ ~FreshAuth.disabled /\ DOMAIN FreshAuth.models = {}
    BY Constants DEF FreshAuth
  <2> DEFINE r == ModelRecord(auth, m)
  <2>3. /\ m \in DOMAIN auth.models /\ auth.models[m].unavail /\ auth.models[m].next > now
        /\ auth.models[m].next \in Nat /\ auth.models[m].quota \in Quotas
    BY <2>1, AuthFields DEF IsHeld, Held
  <2>4. /\ r \in file /\ r.model = m /\ r.next = auth.models[m].next
        /\ r.quota = auth.models[m].quota
    BY <2>3 DEF FileInv, OnFile, IsHeld, ModelRecord
  <2> HIDE DEF r, reborn
  <2>5. r \in Live(file, now) /\ m # NoModel
    BY <2>3, <2>4, NoModelAssumption DEF Live
  <2>6. RecordOf(file, now, m) = r
    <3>1. RecordOf(file, now, m) \in Live(file, now) /\ RecordOf(file, now, m).model = m
      BY <2>4, <2>5 DEF RecordOf
    <3> QED
      BY <2>4, <3>1 DEF Live, FileInv, OnePerModel
  <2>7. Restored(FreshAuth, file, now, reborn)
    BY <2>1, <2>2, RestoreFacts DEF reborn
  <2>8. m \in DOMAIN reborn.models /\ FromRecord(reborn.models[m], r)
    BY <2>2, <2>4, <2>5, <2>6, <2>7 DEF Restored
  <2>9. reborn.models[m].unavail /\ reborn.models[m].next = r.next
        /\ reborn.models[m].quota = RestoredQuota(r)
    BY <2>8 DEF FromRecord
  <2>10. IsHeld(reborn, m, now)
    BY <2>3, <2>4, <2>8, <2>9 DEF IsHeld, Held
  <2>11. \/ RestoredQuota(r).recover = r.quota.recover
         \/ r.quota.recover = 0 /\ RestoredQuota(r).recover = r.next
    BY <2>3, <2>4 DEF RestoredQuota, Quotas
  <2>12. ~(0 > now) /\ r.quota.recover \in Nat
    BY <2>1, <2>3, <2>4 DEF Quotas
  <2> QED
    BY <2>3, <2>4, <2>9, <2>10, <2>11, <2>12 DEF HeldUntil
<1> QED
  BY HoldsAreKept, <1>1, PTL

\* So is the credential as a whole.
THEOREM OwnHoldSurvivesRestart == Spec => []OwnHoldIsOnFile
<1>1. TypeInv /\ FileInv /\ OwnInv => OwnHoldIsOnFile
  <2> DEFINE reborn == Restore(FreshAuth, file, now, cooling)
  <2> SUFFICES ASSUME TypeInv, FileInv, OwnInv, cooling, ~auth.disabled,
                      AllSupported(auth), AuthIsHeld(auth, now)
               PROVE  AuthIsHeld(reborn, now) /\ reborn.next = auth.next
    BY DEF OwnHoldIsOnFile, AllSupported
  <2>1. auth \in Auths /\ now \in Nat /\ file \in SUBSET Records /\ cooling = TRUE
    BY DEF TypeInv
  <2>2. FreshAuth \in Auths /\ ~FreshAuth.disabled
    BY Constants DEF FreshAuth
  <2>3. auth.next > now
    BY DEF AuthIsHeld
  <2>4. PICK r \in file : r.model = NoModel /\ r.next = auth.next
    BY <2>3 DEF OwnInv, OwnOnFile
  <2>5. r \in Live(file, now)
    BY <2>3, <2>4 DEF Live
  <2>6. RecordOf(file, now, NoModel) = r
    <3>1. /\ RecordOf(file, now, NoModel) \in Live(file, now)
          /\ RecordOf(file, now, NoModel).model = NoModel
      BY <2>4, <2>5 DEF RecordOf
    <3> QED
      BY <2>4, <3>1 DEF Live, FileInv, OnePerModel
  <2> HIDE DEF reborn
  <2>7. OwnRestored(FreshAuth, file, now, reborn)
    BY <2>1, <2>2, RestoreFacts DEF reborn
  <2>8. reborn.unavail /\ reborn.next = r.next
    BY <2>4, <2>5, <2>6, <2>7 DEF OwnRestored
  <2> QED
    BY <2>3, <2>4, <2>8 DEF AuthIsHeld
<1> QED
  BY HoldsAreKept, <1>1, PTL

-----------------------------------------------------------------------------
(* The quota ladder *)

\* A level is reached when the windows of those below it have passed.
OnLadder(q) == q.level > 0 => q.recover >= 1 + QuotaBase * (2^q.level - 1)

\* The same on file; without cooling nobody is on the ladder.
LadderInv ==
    /\ \A m \in DOMAIN auth.models :
          OnLadder(auth.models[m].quota) /\ (~cooling => auth.models[m].quota.level = 0)
    /\ \A r \in file : r.model # NoModel => OnLadder(r.quota)

\* The failures that set windows of their own, which may be shorter.
LadderOnly == \A r \in Results : r[2] \notin {"cloudflare", "quota_retry_after"}

\* A quota without a deadline is at the foot of the ladder.
LEMMA OffLadder ==
  ASSUME NEW q \in Quotas, OnLadder(q), q.recover = 0
  PROVE  q.level = 0
<1>1. q.level \in Nat
  BY DEF Quotas
<1> SUFFICES ASSUME q.level > 0 PROVE FALSE
  BY <1>1
<1> DEFINE p == 2^q.level
<1>2. p \in Nat /\ p >= 1
  BY <1>1, PowerType, PowerPositive
<1>3. QuotaBase * (p - 1) \in Nat
  <2> HIDE DEF p
  <2>1. p - 1 \in Nat
    BY <1>2
  <2> DEFINE d == p - 1
  <2> HIDE DEF d
  <2>2. QuotaBase * d \in Nat
    BY <2>1, Durations DEF d
  <2> QED
    BY <2>2 DEF d
<1>4. 0 >= 1 + QuotaBase * (p - 1)
  BY DEF OnLadder
<1> HIDE DEF p
<1> QED
  BY <1>3, <1>4

\* So is the empty one.
LEMMA NoQuotaOnLadder == OnLadder(NoQuota) /\ NoQuota.level = 0
BY DEF OnLadder, NoQuota

\* A failure outside the window doubles the next one.
LEMMA LadderClimbs ==
  ASSUME NEW q \in Quotas, OnLadder(q), NEW t \in Nat, t >= 1
  PROVE  OnLadder(QuotaAfterFailure(q, t))
<1>1. q.level \in Nat /\ q.recover \in Nat
  BY DEF Quotas
<1> DEFINE w == QuotaAfterFailure(q, t)
           x == 2^q.level
           y == 2^(q.level + 1)
<1>2. x \in Nat /\ y = 2 * x /\ (q.level = 0 => x = 1)
  BY <1>1, PowerType, PowerNext, PowerZero
<1>3. CASE q.recover > t
  <2>1. w.level = q.level /\ w.recover = q.recover
    BY <1>3 DEF QuotaAfterFailure
  <2> QED
    BY <2>1 DEF OnLadder
<1>4. CASE ~(q.recover > t)
  <2>1. w.level = LadderNext(q.level) /\ w.recover = t + LadderCooldown(q.level)
    BY <1>4 DEF QuotaAfterFailure
  <2>2. q.level > 0 => t >= 1 + QuotaBase * (x - 1)
    <3>1. q.level > 0 => q.recover >= 1 + QuotaBase * (x - 1)
      BY DEF OnLadder
    <3> DEFINE v == QuotaBase * (x - 1)
    <3>2. v \in Int
      BY <1>2, Durations
    <3> HIDE DEF v, x
    <3>3. q.level > 0 => q.recover >= 1 + v
      BY <3>1 DEF v
    <3>4. q.level > 0 => t >= 1 + v
      BY <1>1, <1>4, <3>2, <3>3
    <3> QED
      BY <3>4 DEF v
  <2>3. CASE QuotaBase * x >= QuotaMax
    <3>1. w.level = q.level /\ w.recover = t + QuotaMax
      BY <2>1, <2>3 DEF LadderNext, LadderCooldown
    <3> DEFINE v == QuotaBase * (x - 1)
    <3>2. v \in Int
      BY <1>2, Durations
    <3> HIDE DEF v, w, x
    <3>3. q.level > 0 => t >= 1 + v
      BY <2>2 DEF v
    <3>4. w.level > 0 => w.recover >= 1 + v
      BY <3>1, <3>2, <3>3, Durations
    <3> QED
      BY <3>1, <3>4 DEF OnLadder, v, x, w
  <2>4. CASE ~(QuotaBase * x >= QuotaMax)
    <3>1. w.level = q.level + 1 /\ w.recover = t + QuotaBase * x
      BY <2>1, <2>4 DEF LadderNext, LadderCooldown
    <3> HIDE DEF w, x, y
    <3>2. t + QuotaBase * x >= 1 + QuotaBase * (y - 1)
      <4> DEFINE v == QuotaBase * x
      <4>1. v \in Nat /\ QuotaBase \in Nat
        BY <1>2, Durations
      <4>2. QuotaBase * (x - 1) = v - QuotaBase
        BY <1>2, Durations
      <4>3. QuotaBase * (y - 1) = 2 * v - QuotaBase
        BY <1>2, Durations
      <4>4. x = 1 => v = QuotaBase
        BY Durations
      <4> HIDE DEF v
      <4>5. CASE q.level = 0
        <5>1. v = QuotaBase
          BY <1>2, <4>4, <4>5
        <5>2. t + v >= 1 + (2 * v - QuotaBase)
          BY <4>1, <5>1
        <5> QED
          BY <4>3, <5>2 DEF v
      <4>6. CASE q.level > 0
        <5>1. t >= 1 + (v - QuotaBase)
          BY <2>2, <4>2, <4>6
        <5>2. t + v >= 1 + (2 * v - QuotaBase)
          BY <4>1, <5>1
        <5> QED
          BY <4>3, <5>2 DEF v
      <4> QED
        BY <1>1, <4>5, <4>6
    <3>3. w.recover >= 1 + QuotaBase * (2^(w.level) - 1)
      BY <3>1, <3>2 DEF y
    <3> QED
      BY <3>3 DEF OnLadder, w
  <2> QED
    BY <2>3, <2>4
<1> QED
  BY <1>3, <1>4

\* A failure of a model leaves its quota on the ladder.
LEMMA FailModelLadder ==
  ASSUME NEW s \in ModelStates, OnLadder(s.quota), NEW c \in BOOLEAN,
         ~c => s.quota.level = 0, NEW t \in Nat, t >= 1,
         NEW failure \in Failures, failure \notin {"cloudflare", "quota_retry_after"},
         NEW f, f = FailModel(s, failure, t, c)
  PROVE  OnLadder(f.quota) /\ (~c => f.quota.level = 0)
<1>1. s.quota \in Quotas
  BY DEF ModelStates
<1>2. CASE failure \notin QuotaFailures
  <2>1. f.quota = s.quota
    BY <1>2, FailModelFacts
  <2> QED
    BY <2>1
<1>3. CASE failure \in QuotaFailures
  <2>1. f.quota = FailedQuota(s.quota, failure, t, c)
    BY <1>3, FailModelFacts
  <2>2. CASE ~c
    <3>1. f.quota.level = 0
      BY <1>1, <2>1, <2>2, FailedQuotaType
    <3> QED
      BY <2>2, <3>1 DEF OnLadder
  <2>3. CASE c
    <3> DEFINE w == QuotaAfterFailure(s.quota, t)
    <3>1. failure = "quota"
      BY <1>3 DEF QuotaFailures
    <3>2. f.quota = [exceeded |-> TRUE, recover |-> w.recover, level |-> w.level]
      BY <2>1, <2>3, <3>1 DEF FailedQuota
    <3>3. OnLadder(w)
      BY <1>1, LadderClimbs
    <3> HIDE DEF w
    <3>4. f.quota.level = w.level /\ f.quota.recover = w.recover
      BY <3>2
    <3> QED
      BY <2>3, <3>3, <3>4 DEF OnLadder
  <2> QED
    BY <2>2, <2>3
<1> QED
  BY <1>2, <1>3

\* What is saved or restored keeps its place on the ladder.
LEMMA SavedOnLadder ==
  ASSUME NEW a \in Auths, NEW t \in Nat, NEW c \in BOOLEAN,
         \A m \in DOMAIN a.models : OnLadder(a.models[m].quota)
  PROVE  \A r \in CooldownRecords(a, t, c) : r.model # NoModel => OnLadder(r.quota)
<1> DEFINE f == CooldownRecords(a, t, c)
<1>1. \A r \in f :
        \/ r.model \in DOMAIN a.models /\ r = ModelRecord(a, r.model)
        \/ r.model = NoModel
  BY CooldownRecordsFacts
<1> HIDE DEF f
<1>2. \A r \in f : r.model # NoModel => OnLadder(r.quota)
  BY <1>1 DEF ModelRecord
<1> QED
  BY <1>2 DEF f

\* A quota that is restored keeps its place on the ladder.
LEMMA RestoredOnLadder ==
  ASSUME NEW a \in Auths, NEW records \in SUBSET Records, NEW t \in Nat,
         NEW b, Restored(a, records, t, b),
         \A m \in DOMAIN a.models : OnLadder(a.models[m].quota),
         \A r \in records : r.model # NoModel => OnLadder(r.quota)
  PROVE  \A m \in DOMAIN b.models : OnLadder(b.models[m].quota)
<1> TAKE m \in DOMAIN b.models
<1>1. CASE m \in DOMAIN a.models /\ b.models[m].quota = a.models[m].quota
  BY <1>1
<1>2. CASE /\ \E r \in Live(records, t) : r.model = m
           /\ m # NoModel
           /\ FromRecord(b.models[m], RecordOf(records, t, m))
  <2> DEFINE r == RecordOf(records, t, m)
  <2>1. r \in Live(records, t) /\ r.model = m
    BY <1>2 DEF RecordOf
  <2>2. r \in records /\ r \in Records /\ r.quota \in Quotas
    BY <2>1 DEF Live, Records
  <2> HIDE DEF r
  <2>3. OnLadder(r.quota)
    BY <1>2, <2>1, <2>2
  <2>4. b.models[m].quota = RestoredQuota(r)
    BY <1>2 DEF FromRecord, r
  <2>5. CASE RestoredQuota(r) = r.quota
    BY <2>3, <2>4, <2>5
  <2>6. CASE r.quota.recover = 0
    <3>1. r.quota.level = 0
      BY <2>2, <2>3, <2>6, OffLadder
    <3>2. RestoredQuota(r).level = 0
      BY <2>2, <3>1 DEF RestoredQuota, Quotas
    <3> QED
      BY <2>4, <3>2 DEF OnLadder
  <2> QED
    BY <2>5, <2>6 DEF RestoredQuota
<1> QED
  BY <1>1, <1>2 DEF Restored

\* An action only has to show what it makes of the record.
LEMMA LadderFile ==
  ASSUME TypeInv, LadderInv, auth' \in Auths, NEW c \in BOOLEAN, cooling' = c,
         \A m \in DOMAIN auth'.models :
            OnLadder(auth'.models[m].quota) /\ (~c => auth'.models[m].quota.level = 0),
         file' \in {file, {}, CooldownRecords(auth', now, c)}
  PROVE  LadderInv'
<1>1. \A r \in CooldownRecords(auth', now, c) : r.model # NoModel => OnLadder(r.quota)
  BY SavedOnLadder DEF TypeInv
<1>2. \A r \in file' : r.model # NoModel => OnLadder(r.quota)
  BY <1>1 DEF LadderInv
<1> QED
  BY <1>2 DEF LadderInv

\* A result leaves every model on the ladder.
LEMMA ResultLadder ==
  ASSUME TypeInv, LadderInv, NEW m \in Models \cup {NoModel},
         NEW o \in Failures \cup {"success"}, o \notin {"cloudflare", "quota_retry_after"},
         Result(m, o)
  PROVE  \A n \in DOMAIN auth'.models :
            OnLadder(auth'.models[n].quota) /\ (~cooling => auth'.models[n].quota.level = 0)
<1>1. auth \in Auths /\ now \in Nat /\ now >= 1 /\ cooling \in BOOLEAN
  BY DEF TypeInv
<1>2. CASE auth'.models = auth.models
  BY <1>2 DEF LadderInv
<1>3. ASSUME m \in Models, NEW s \in ModelStates,
             auth' = Aggregate([auth EXCEPT !.models = PutModel(@, m, s)], now),
             \/ o = "success" /\ s = CleanState
             \/ o \in Failures /\ s = FailModel(GetModel(auth.models, m), o, now, cooling)
      PROVE  \A n \in DOMAIN auth'.models :
                OnLadder(auth'.models[n].quota) /\ (~cooling => auth'.models[n].quota.level = 0)
  <2>1. /\ DOMAIN auth'.models = DOMAIN auth.models \cup {m}
        /\ \A n \in DOMAIN auth'.models :
              auth'.models[n].quota = (IF n = m THEN s ELSE auth.models[n]).quota
    BY <1>1, <1>3, StoreFacts
  <2>2. OnLadder(s.quota) /\ (~cooling => s.quota.level = 0)
    <3> DEFINE old == GetModel(auth.models, m)
    <3>1. old \in ModelStates /\ OnLadder(old.quota) /\ (~cooling => old.quota.level = 0)
      BY <1>1, AuthFields, Constants, NoQuotaOnLadder DEF GetModel, LadderInv
    <3>2. CASE s = CleanState
      BY <3>2, Constants, NoQuotaOnLadder
    <3>3. CASE o \in Failures /\ s = FailModel(old, o, now, cooling)
      <4> HIDE DEF old
      <4> QED
        BY <1>1, <3>1, <3>3, FailModelLadder
    <3> QED
      BY <1>3, <3>2, <3>3
  <2> QED
    BY <2>1, <2>2 DEF LadderInv
<1> QED
  BY <1>2, <1>3, ResultCases

\* What Update and ClearCooldown leave of a quota.
LEMMA KeptOnLadder ==
  ASSUME NEW a \in Auths, NEW b \in Auths, NEW c \in BOOLEAN, NEW d \in BOOLEAN,
         \A m \in DOMAIN a.models :
            OnLadder(a.models[m].quota) /\ (~c => a.models[m].quota.level = 0),
         \A m \in DOMAIN b.models :
            /\ m \in DOMAIN a.models
            /\ \/ b.models[m].quota = NoQuota
               \/ /\ b.models[m].quota = a.models[m].quota
                  /\ d \/ a.models[m].quota.recover = 0
  PROVE  \A m \in DOMAIN b.models :
            OnLadder(b.models[m].quota) /\ (~(c /\ d) => b.models[m].quota.level = 0)
<1> TAKE m \in DOMAIN b.models
<1>1. CASE b.models[m].quota = NoQuota
  BY <1>1, NoQuotaOnLadder
<1>2. CASE b.models[m].quota = a.models[m].quota /\ (d \/ a.models[m].quota.recover = 0)
  <2>1. a.models[m].quota \in Quotas /\ OnLadder(a.models[m].quota)
    BY AuthFields
  <2>2. ~d => a.models[m].quota.level = 0
    BY <1>2, <2>1, OffLadder
  <2> QED
    BY <1>2, <2>1, <2>2
<1> QED
  BY <1>1, <1>2

\* Every step keeps the ladder.
LEMMA LadderStep ==
  ASSUME LadderOnly, TypeInv, LadderInv, [Next]_vars
  PROVE  LadderInv'
<1>1. /\ auth \in Auths /\ now \in Nat /\ cooling \in BOOLEAN /\ file \in SUBSET Records
      /\ auth' \in Auths
  BY TypeStep DEF TypeInv
<1>2. ASSUME NEW r \in Results, Result(r[1], r[2]) PROVE LadderInv'
  <2>1. r[1] \in Models \cup {NoModel} /\ r[2] \in Failures \cup {"success"}
        /\ r[2] \notin {"cloudflare", "quota_retry_after"}
    BY ResultsAssumption DEF LadderOnly
  <2>2. cooling' = cooling /\ file' \in {file, CooldownRecords(auth', now, cooling)}
    BY <1>2 DEF Result, Recorded
  <2>3. \A n \in DOMAIN auth'.models :
          OnLadder(auth'.models[n].quota) /\ (~cooling => auth'.models[n].quota.level = 0)
    BY <1>2, <2>1, ResultLadder
  <2> QED
    BY <1>1, <2>2, <2>3, LadderFile
<1>3. CASE ResetQuota
  <2>1. auth' = ResetAll(auth, now) /\ cooling' = cooling
        /\ file' \in {file, CooldownRecords(auth', now, cooling)}
    BY <1>3 DEF ResetQuota, Recorded
  <2>2. \A m \in DOMAIN auth'.models : auth'.models[m].quota = NoQuota
    BY <1>1, <2>1, ResetAllFacts
  <2> QED
    BY <1>1, <2>1, <2>2, NoQuotaOnLadder, LadderFile
<1>4. ASSUME NEW c \in BOOLEAN, Reload(c) PROVE LadderInv'
  <2>1. PICK a \in Auths, f \in SUBSET Records :
           /\ \/ a = auth /\ f = file /\ c /\ ~auth.disabled
              \/ /\ a = ClearCooldown(auth, now) /\ (~c \/ auth.disabled)
                 /\ f = file \/ f = CooldownRecords(a, now, c)
           /\ a.disabled = auth.disabled
           /\ auth' = Restore(a, f, now, c)
           /\ cooling' = c
           /\ file' = (IF f = {} THEN f ELSE CooldownRecords(auth', now, c))
    BY <1>4, ReloadFacts
  <2>2. file' \in {file, {}, CooldownRecords(auth', now, c)}
    BY <2>1
  <2>3. CASE c /\ ~auth.disabled
    <3>1. a = auth /\ f = file
      BY <2>1, <2>3
    <3>2. Restored(auth, file, now, auth')
      BY <1>1, <2>1, <2>3, <3>1, RestoreFacts
    <3>3. \A m \in DOMAIN auth'.models : OnLadder(auth'.models[m].quota)
      BY <1>1, <3>2, RestoredOnLadder DEF LadderInv
    <3> QED
      BY <1>1, <2>1, <2>2, <2>3, <3>3, LadderFile
  <2>4. CASE ~c \/ auth.disabled
    <3>1. a = ClearCooldown(auth, now) /\ auth' = a
      BY <1>1, <2>1, <2>4, RestoreFacts
    <3>2. \A m \in DOMAIN auth'.models :
            /\ m \in DOMAIN auth.models
            /\ \/ auth'.models[m].quota = NoQuota
               \/ /\ auth'.models[m].quota = auth.models[m].quota
                  /\ auth.models[m].quota.recover = 0
      BY <1>1, <3>1, ClearCooldownFacts
    <3>3. \A m \in DOMAIN auth'.models :
            OnLadder(auth'.models[m].quota) /\ auth'.models[m].quota.level = 0
      <4> TAKE m \in DOMAIN auth'.models
      <4>1. CASE auth'.models[m].quota = NoQuota
        BY <4>1, NoQuotaOnLadder
      <4>2. CASE auth'.models[m].quota = auth.models[m].quota
                 /\ auth.models[m].quota.recover = 0
        <5>1. auth.models[m].quota \in Quotas /\ OnLadder(auth.models[m].quota)
          BY <1>1, <3>2, AuthFields DEF LadderInv
        <5> QED
          BY <4>2, <5>1, OffLadder
      <4> QED
        BY <3>2, <4>1, <4>2
    <3> QED
      BY <1>1, <2>1, <2>2, <3>3, LadderFile
  <2> QED
    BY <2>3, <2>4
<1>5. ASSUME NEW d \in BOOLEAN, WatcherUpdate(d) PROVE LadderInv'
  <2>1. /\ \A m \in DOMAIN auth'.models :
              /\ m \in DOMAIN auth.models
              /\ auth'.models[m].quota = NoQuota
                 \/ /\ auth'.models[m].quota = auth.models[m].quota
                    /\ ~(cooling /\ ~d) => auth.models[m].quota.recover = 0
        /\ file' = file \/ file' = CooldownRecords(auth', now, cooling)
    BY <1>5, WatcherUpdateFacts
  <2>2. cooling' = cooling
    BY <1>5 DEF WatcherUpdate
  <2> DEFINE e == cooling /\ ~d
  <2>3. e \in BOOLEAN
    BY <1>1
  <2>4. \A m \in DOMAIN auth'.models :
           OnLadder(auth'.models[m].quota) /\ (~(cooling /\ e) => auth'.models[m].quota.level = 0)
    <3>1. \A m \in DOMAIN auth'.models :
            /\ m \in DOMAIN auth.models
            /\ \/ auth'.models[m].quota = NoQuota
               \/ /\ auth'.models[m].quota = auth.models[m].quota
                  /\ e \/ auth.models[m].quota.recover = 0
      BY <2>1
    <3> HIDE DEF e
    <3> QED
      BY <1>1, <2>3, <3>1, KeptOnLadder DEF LadderInv
  <2> QED
    BY <1>1, <2>1, <2>2, <2>4, LadderFile
<1>6. ASSUME NEW supported \in SUBSET Models, RegisterModels(supported) PROVE LadderInv'
  <2>1. auth' = Reconcile(auth, supported, now) /\ cooling' = cooling /\ file' = file
    BY <1>6 DEF RegisterModels
  <2>2. auth' = auth \/ \A m \in DOMAIN auth'.models : auth'.models[m].quota = NoQuota
    BY <1>1, <2>1, ReconcileFacts
  <2>3. \A m \in DOMAIN auth'.models :
          OnLadder(auth'.models[m].quota) /\ (~cooling => auth'.models[m].quota.level = 0)
    BY <2>2, NoQuotaOnLadder DEF LadderInv
  <2> QED
    BY <1>1, <2>1, <2>3, LadderFile
<1>7. CASE RefreshOk
  <2>1. /\ \A m \in DOMAIN auth'.models :
              /\ m \in DOMAIN auth.models
              /\ auth'.models[m].quota = NoQuota
                 \/ /\ auth'.models[m].quota = auth.models[m].quota
                    /\ ~(cooling /\ ~auth.disabled) => auth.models[m].quota.recover = 0
        /\ file' = file \/ file' = CooldownRecords(auth', now, cooling)
    BY <1>7, RefreshOkFacts
  <2>2. cooling' = cooling
    BY <1>7 DEF RefreshOk
  <2>3. \A m \in DOMAIN auth'.models :
          OnLadder(auth'.models[m].quota) /\ (~cooling => auth'.models[m].quota.level = 0)
    BY <2>1, NoQuotaOnLadder DEF LadderInv
  <2> QED
    BY <1>1, <2>1, <2>2, <2>3, LadderFile
<1>8. ASSUME NEW refused \in BOOLEAN, RefreshFails(refused) PROVE LadderInv'
  <2>1. auth'.models = auth.models
    BY <1>8, RefreshFailsFacts
  <2>2. cooling' = cooling /\ file' = file
    BY <1>8 DEF RefreshFails
  <2> QED
    BY <2>1, <2>2 DEF LadderInv
<1>9. CASE Tick
  BY <1>9 DEF Tick, LadderInv
<1>10. CASE Restart
  <2>1. PICK a \in Auths :
           /\ a.disabled = auth.disabled /\ a.models = NoModels
           /\ auth' = Restore(a, file, now, cooling)
           /\ file' = (IF file = {} THEN file ELSE CooldownRecords(auth', now, cooling))
    BY <1>10, RestartFacts
  <2>2. cooling' = cooling /\ file' \in {file, CooldownRecords(auth', now, cooling)}
    BY <1>10, <2>1 DEF Restart
  <2>3. DOMAIN a.models = {}
    BY <2>1, MapIsEmpty
  <2>4. CASE cooling /\ ~auth.disabled
    <3>1. Restored(a, file, now, auth')
      BY <1>1, <2>1, <2>4, RestoreFacts
    <3>2. \A m \in DOMAIN auth'.models : OnLadder(auth'.models[m].quota)
      BY <1>1, <2>3, <3>1, RestoredOnLadder DEF LadderInv
    <3> QED
      BY <1>1, <2>2, <2>4, <3>2, LadderFile
  <2>5. CASE ~cooling \/ auth.disabled
    <3>1. auth' = a
      BY <1>1, <2>1, <2>5, RestoreFacts
    <3> QED
      BY <1>1, <2>2, <2>3, <3>1, LadderFile
  <2> QED
    BY <2>4, <2>5
<1>11. CASE UNCHANGED vars
  BY <1>11 DEF vars, LadderInv
<1> QED
  BY <1>2, <1>3, <1>4, <1>5, <1>6, <1>7, <1>8, <1>9, <1>10, <1>11 DEF Next

\* However many quota failures are in flight, the windows of the ladder do not
\* overlap (conductor.go:4039-4054), as long as no upstream and no challenge
\* sets a window of its own.
THEOREM LadderIsClimbedInTime == ASSUME LadderOnly PROVE Spec => []LadderTakesTime
<1>1. Init => LadderInv
  <2> SUFFICES ASSUME Init PROVE LadderInv
    OBVIOUS
  <2>1. DOMAIN auth.models = {} /\ file = {}
    BY Constants DEF Init, FreshAuth
  <2> QED
    BY <2>1 DEF LadderInv
<1>2. TypeInv /\ LadderInv /\ [Next]_vars => LadderInv'
  BY LadderStep
<1>3. LadderInv => LadderTakesTime
  <2> SUFFICES ASSUME LadderInv, NEW m \in Models PROVE OnLadder(GetModel(auth.models, m).quota)
    BY DEF LadderTakesTime, OnLadder
  <2> QED
    BY Constants, NoQuotaOnLadder DEF LadderInv, GetModel
<1>4. Spec => []LadderInv
  BY <1>1, <1>2, HoldsAreKept, PTL DEF Spec
<1> QED
  BY <1>3, <1>4, PTL
=============================================================================
