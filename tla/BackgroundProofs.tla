--------------------------- MODULE BackgroundProofs ---------------------------
(***************************************************************************)
(* Proofs about the components around the requests, each for every value   *)
(* of its constants.                                                       *)
(***************************************************************************)
EXTENDS Background, FiniteSetTheorems, SequenceTheorems, WellFoundedInduction, TLAPS

-----------------------------------------------------------------------------
(* Numbers and finite sets *)

\* A set of naturals has a least element.
LEMMA LeastOf ==
  ASSUME NEW S \in SUBSET Nat, S # {}
  PROVE  \E x \in S : \A y \in S : x <= y
<1>1. PICK x \in S : \A y \in S : ~(<<y, x>> \in OpToRel(<, Nat))
  BY NatLessThanWellFounded, WFMin
<1>2. \A y \in S : ~(y < x)
  BY <1>1 DEF OpToRel
<1> QED
  BY <1>2

\* A finite set of naturals has a greatest element: of the subsets without one
\* none is smallest.
LEMMA GreatestOf ==
  ASSUME NEW S \in SUBSET Nat, S # {}, IsFiniteSet(S)
  PROVE  \E x \in S : \A y \in S : y <= x
<1> DEFINE Topped(T) == \E x \in T : \A y \in T : y <= x
           Sizes == {n \in Nat : \E T \in SUBSET S : T # {} /\ Cardinality(T) = n /\ ~Topped(T)}
<1>1. Sizes = {}
  <2> SUFFICES ASSUME Sizes # {} PROVE FALSE
    OBVIOUS
  <2>1. PICK n \in Sizes : \A m \in Sizes : n <= m
    BY LeastOf
  <2>2. PICK T \in SUBSET S : T # {} /\ Cardinality(T) = n /\ ~Topped(T)
    BY <2>1
  <2>3. PICK x \in T : TRUE
    BY <2>2
  <2> DEFINE R == T \ {x}
  <2>4. /\ IsFiniteSet(T) /\ IsFiniteSet(R)
        /\ Cardinality(R) = Cardinality(T) - 1 /\ Cardinality(R) \in Nat
    BY <2>3, FS_Subset, FS_RemoveElement, FS_CardinalityType
  <2>5. R # {}
    BY <2>2, <2>3
  <2>6. Cardinality(R) \notin Sizes
    <3>1. n \in Nat /\ ~(n <= Cardinality(R))
      BY <2>1, <2>2, <2>4
    <3> QED
      BY <3>1, <2>1
  <2>7. Topped(R)
    BY <2>4, <2>5, <2>6
  <2>8. PICK y \in R : \A z \in R : z <= y
    BY <2>7
  <2>9. (\A z \in T : z <= x) \/ (\A z \in T : z <= y)
    BY <2>3, <2>8
  <2> QED
    BY <2>2, <2>3, <2>8, <2>9
<1>2. IsFiniteSet(S) /\ Cardinality(S) \in Nat
  BY FS_CardinalityType
<1> QED
  BY <1>1, <1>2

LEMMA CountUpTo ==
  ASSUME NEW n \in Nat
  PROVE  IsFiniteSet(1..n) /\ Cardinality(1..n) = n
BY FS_Interval

\* Multiples grow with what is multiplied.
LEMMA MultiplesGrow ==
  ASSUME NEW a \in Nat, NEW b \in Nat, NEW l \in Nat, a <= b
  PROVE  a * l <= b * l
<1>1. PICK d \in Nat : b = a + d
  BY b - a \in Nat
<1>2. (a + d) * l = a * l + d * l /\ a * l \in Nat /\ d * l \in Nat
  OBVIOUS
<1> QED
  BY <1>1, <1>2

-----------------------------------------------------------------------------
(* The usage limits *)

Measures == {"input", "output", "cached", "price"}
Window(i) == Windows[i]
Largest(i) == Limits!Largest(Window(i).measure)
Covers(i, m) == Limits!Covers(Window(i), m)

\* What is recorded in window i that ends at a time, of the calls it checked.
Used(i, to) == Limits!UsagePast(store, Window(i), to - Window(i).length, to, i)

UsageRecords == [model : Models, at : Nat, failed : BOOLEAN, input : Nat, output : Nat, cached : Nat,
                 passed : Nat]
Rows == [model : Models, at : Nat, input : Nat, output : Nat, cached : Nat, cost : Nat, passed : Nat]
LimitCalls == [pc : {"idle", "check", "open", "run"}, model : Models \cup {"none"}, now : Nat,
               i : Nat \ {0}]

LimitsTyped ==
    /\ hour \in Nat
    /\ call \in [LimitCallers -> LimitCalls]
    /\ \A c \in LimitCallers : call[c].pc # "idle" => call[c].model \in Models /\ call[c].now <= hour
    /\ queue \in Seq(UsageRecords) /\ Len(queue) <= QueueBound
    /\ \A k \in 1..Len(queue) : LET r == queue[k] IN
          /\ r.at <= hour
          /\ [input |-> r.input, output |-> r.output, cached |-> r.cached] \in Details
    /\ store \in Seq(Rows)
    /\ \A k \in 1..Len(store) :
          /\ store[k].at <= hour
          /\ \A m \in Measures : Limits!Measure(store[k], m) <= Limits!Largest(m)
    /\ prices \in [Models -> Prices]

\* Calls that may still add to window i ending at a time: those under way that
\* it checked, and at present those that have passed its check or still would.
InFlight(i, to) ==
    {c \in LimitCallers :
        /\ Covers(i, call[c].model)
        /\ \/ call[c].pc = "run" /\ call[c].now <= to /\ call[c].i > i
           \/ call[c].pc = "open" /\ to = hour /\ call[c].i > i
           \/ /\ call[c].pc = "check" /\ to = hour
              /\ call[c].i > i \/ Used(i, call[c].now) < Window(i).limit}

\* Records on their way to it.
Coming(i, to) ==
    {k \in 1..Len(queue) :
        queue[k].at <= to /\ Covers(i, queue[k].model) /\ i <= queue[k].passed}

\* Each of them may add the largest usage of all.
Ceiling(i) == Window(i).limit - 1 + (Cardinality(LimitCallers) + QueueBound) * Largest(i)
Committed(i, to) ==
    Used(i, to) + (Cardinality(InFlight(i, to)) + Cardinality(Coming(i, to))) * Largest(i)

LimitsInv ==
    /\ LimitsTyped
    /\ \A i \in 1..Len(Windows) : \A to \in 0..hour : Committed(i, to) <= Ceiling(i)

-----------------------------------------------------------------------------
\* The greatest element of a finite set, and of a number and zero.
LEMMA MaxIs ==
  ASSUME NEW S \in SUBSET Nat, S # {}, IsFiniteSet(S)
  PROVE  Limits!Max(S) \in S /\ \A y \in S : y <= Limits!Max(S)
<1>1. \E x \in S : \A y \in S : x >= y
  BY GreatestOf
<1> QED
  BY <1>1 DEF Limits!Max

LEMMA PositivePart ==
  ASSUME NEW a \in Int
  PROVE  Limits!Max({0, a}) \in Nat
<1>1. \E x \in {0, a} : \A y \in {0, a} : x >= y
  OBVIOUS
<1>2. Limits!Max({0, a}) \in {0, a} /\ \A y \in {0, a} : Limits!Max({0, a}) >= y
  BY <1>1 DEF Limits!Max
<1> QED
  BY <1>2

\* What a request with the details d may add to a measure, at price p.
Charge(d) == Limits!Max({0, d.input - d.cached}) + d.cached + d.output
Added(d, p, m) ==
    IF m = "price" THEN Charge(d) * p
    ELSE Limits!Measure([input |-> d.input, output |-> d.output, cached |-> d.cached, cost |-> 0], m)

LEMMA AddedIsNat ==
  ASSUME NEW d \in Details, NEW p \in Prices, NEW m \in Measures
  PROVE  Added(d, p, m) \in Nat
<1>1. d \in [input : Nat, output : Nat, cached : Nat] /\ p \in Nat
  BY LimitsSound
<1>2. Charge(d) \in Nat
  BY <1>1, PositivePart DEF Charge
<1>3. Charge(d) * p \in Nat
  BY <1>1, <1>2
<1> QED
  BY <1>1, <1>3 DEF Added, Limits!Measure, Measures

\* The largest addition is one, and no other is larger.
LEMMA LargestIs ==
  ASSUME NEW m \in Measures
  PROVE  /\ Limits!Largest(m) \in Nat
         /\ \A d \in Details, p \in Prices : Added(d, p, m) <= Limits!Largest(m)
<1> DEFINE All == {Added(d, p, m) : d \in Details, p \in Prices}
           f == [x \in Details \X Prices |-> Added(x[1], x[2], m)]
<1>1. All \in SUBSET Nat /\ All # {}
  <2>1. \A d \in Details, p \in Prices : Added(d, p, m) \in Nat
    BY AddedIsNat
  <2>2. PICK d \in Details, p \in Prices : TRUE
    BY LimitsSound
  <2>3. Added(d, p, m) \in All
    OBVIOUS
  <2>4. ASSUME NEW x \in All PROVE x \in Nat
    BY <2>1
  <2> QED
    BY <2>3, <2>4
<1>2. IsFiniteSet(Details \X Prices)
  BY LimitsSound, FS_Product
<1>3. f \in Surjection(Details \X Prices, All)
  <2>1. ASSUME NEW x \in Details \X Prices PROVE f[x] \in All
    OBVIOUS
  <2>2. ASSUME NEW t \in All PROVE \E x \in Details \X Prices : f[x] = t
    <3>1. PICK d \in Details, p \in Prices : t = Added(d, p, m)
      OBVIOUS
    <3>2. <<d, p>> \in Details \X Prices /\ f[<<d, p>>] = t
      BY <3>1
    <3> QED
      BY <3>2
  <2>3. f \in [Details \X Prices -> All]
    BY <2>1
  <2> HIDE DEF f, All
  <2> QED
    BY <2>2, <2>3 DEF Surjection
<1>4. IsFiniteSet(All)
  <2> HIDE DEF f, All
  <2> QED
    BY <1>2, <1>3, FS_Surjection
<1>5. Limits!Largest(m) = Limits!Max(All)
  BY DEF Limits!Largest, Added, Charge
<1>6. Limits!Max(All) \in All /\ \A y \in All : y <= Limits!Max(All)
  <2> HIDE DEF All
  <2> QED
    BY <1>1, <1>4, MaxIs
<1> QED
  BY <1>1, <1>5, <1>6

-----------------------------------------------------------------------------
\* The cardinality that Limiter counts with is the one of the theorems.
LEMMA SameCardinality ==
  ASSUME NEW S
  PROVE  Limits!Cardinality(S) = Cardinality(S)
BY DEF Limits!Cardinality, Cardinality

\* The units of a row: as many as its measure.
LEMMA RowUnits ==
  ASSUME NEW n, NEW k \in Nat
  PROVE  IsFiniteSet({n} \X (1..k)) /\ Cardinality({n} \X (1..k)) = k
<1>1. IsFiniteSet(1..k) /\ Cardinality(1..k) = k
  BY FS_Interval
<1>2. IsFiniteSet({n}) /\ Cardinality({n}) = 1
  BY FS_Singleton
<1> QED
  BY <1>1, <1>2, FS_Product

LEMMA MeasureIsNat ==
  ASSUME NEW r \in Rows, NEW m \in Measures
  PROVE  Limits!Measure(r, m) \in Nat
BY DEF Rows, Measures, Limits!Measure

\* A usage is a number, as every row has a bounded part in it.
LEMMA UsageIsNat ==
  ASSUME NEW s \in Seq(Rows), NEW w, w.measure \in Measures, NEW l \in Nat, NEW from, NEW to, NEW n \in Nat,
         \A k \in 1..Len(s) : Limits!Measure(s[k], w.measure) <= l
  PROVE  IsFiniteSet(Limits!Units(s, w, from, to, n)) /\ Limits!UsagePast(s, w, from, to, n) \in Nat
<1>1. DOMAIN s = 1..Len(s) /\ Len(s) \in Nat
  BY LenProperties
<1>2. IsFiniteSet(1..Len(s)) /\ IsFiniteSet(1..l)
  BY <1>1, FS_Interval
<1>3. IsFiniteSet((1..Len(s)) \X (1..l))
  BY <1>2, FS_Product
<1>4. ASSUME NEW k \in 1..Len(s) PROVE 1..Limits!Measure(s[k], w.measure) \subseteq 1..l
  BY ElementOfSeq, MeasureIsNat
<1>5. Limits!Units(s, w, from, to, n) \in SUBSET ((1..Len(s)) \X (1..l))
  BY <1>1, <1>4 DEF Limits!Units
<1>6. IsFiniteSet(Limits!Units(s, w, from, to, n))
  BY <1>3, <1>5, FS_Subset
<1> QED
  BY <1>6, FS_CardinalityType, SameCardinality DEF Limits!UsagePast

\* A row adds its measure to the windows it is in.
LEMMA UsageOfAppend ==
  ASSUME NEW s \in Seq(Rows), NEW r \in Rows, NEW w, w.measure \in Measures, NEW l \in Nat,
         NEW from, NEW to, NEW n \in Nat, \A k \in 1..Len(s) : Limits!Measure(s[k], w.measure) <= l
  PROVE  Limits!UsagePast(Append(s, r), w, from, to, n)
           = Limits!UsagePast(s, w, from, to, n)
             + (IF Limits!InWindow(r, w, from, to) /\ n <= r.passed THEN Limits!Measure(r, w.measure) ELSE 0)
<1> DEFINE z == Len(s) + 1
           old == Limits!Units(s, w, from, to, n)
           new == {z} \X (1..Limits!Measure(r, w.measure))
<1>1. /\ DOMAIN s = 1..Len(s) /\ Len(s) \in Nat
      /\ DOMAIN Append(s, r) = 1..z
      /\ \A k \in 1..Len(s) : Append(s, r)[k] = s[k]
      /\ Append(s, r)[z] = r
  BY LenProperties, AppendProperties
<1>2. /\ IsFiniteSet(old) /\ Cardinality(old) = Limits!UsagePast(s, w, from, to, n)
      /\ Cardinality(old) \in Nat
  BY UsageIsNat, SameCardinality DEF Limits!UsagePast
<1>3. /\ IsFiniteSet(new) /\ Cardinality(new) = Limits!Measure(r, w.measure)
  BY RowUnits, MeasureIsNat
<1>4. old \cap new = {}
  BY <1>1 DEF Limits!Units
<1>5. CASE Limits!InWindow(r, w, from, to) /\ n <= r.passed
  <2>1. Limits!Units(Append(s, r), w, from, to, n) = old \cup new
    BY <1>1, <1>5 DEF Limits!Units
  <2>2. Cardinality(old \cup new) = Cardinality(old) + Cardinality(new) - Cardinality({})
    BY <1>2, <1>3, <1>4, FS_Union
  <2> QED
    BY <1>2, <1>3, <1>5, <2>1, <2>2, FS_EmptySet, SameCardinality, MeasureIsNat DEF Limits!UsagePast
<1>6. CASE ~(Limits!InWindow(r, w, from, to) /\ n <= r.passed)
  <2>1. Limits!Units(Append(s, r), w, from, to, n) = old
    BY <1>1, <1>6 DEF Limits!Units
  <2> QED
    BY <1>2, <1>6, <2>1, SameCardinality DEF Limits!UsagePast
<1> QED
  BY <1>5, <1>6

\* A window that ends after the last row holds no more when it is moved on.
LEMMA UsageOfLater ==
  ASSUME NEW s \in Seq(Rows), NEW w, w.measure \in Measures, NEW l \in Nat,
         NEW from \in Int, NEW to \in Int, NEW later \in Nat, NEW n \in Nat,
         \A k \in 1..Len(s) : Limits!Measure(s[k], w.measure) <= l /\ s[k].at <= to
  PROVE  Limits!UsagePast(s, w, from + later, to + later, n) <= Limits!UsagePast(s, w, from, to, n)
<1>1. DOMAIN s = 1..Len(s) /\ \A k \in 1..Len(s) : s[k].at \in Nat
  <2>1. \A k \in 1..Len(s) : s[k] \in Rows
    BY ElementOfSeq
  <2> QED
    BY <2>1, LenProperties DEF Rows
<1>2. \A k \in 1..Len(s) : Limits!InWindow(s[k], w, from + later, to + later)
                               => Limits!InWindow(s[k], w, from, to)
  BY <1>1 DEF Limits!InWindow
<1>3. Limits!Units(s, w, from + later, to + later, n) \subseteq Limits!Units(s, w, from, to, n)
  BY <1>1, <1>2 DEF Limits!Units
<1>4. IsFiniteSet(Limits!Units(s, w, from, to, n))
  BY UsageIsNat
<1> QED
  BY <1>3, <1>4, FS_Subset, SameCardinality DEF Limits!UsagePast

\* The rows whose calls a window checked are among all that it sums up.
LEMMA UsageOfSome ==
  ASSUME NEW s \in Seq(Rows), NEW w, w.measure \in Measures, NEW l \in Nat, NEW from, NEW to,
         NEW n \in Nat, \A k \in 1..Len(s) : Limits!Measure(s[k], w.measure) <= l
  PROVE  /\ Limits!UsagePast(s, w, from, to, n) <= Limits!Usage(s, w, from, to)
         /\ Limits!Usage(s, w, from, to) \in Nat
<1>1. DOMAIN s = 1..Len(s) /\ \A k \in 1..Len(s) : s[k].passed \in Nat
  <2>1. \A k \in 1..Len(s) : s[k] \in Rows
    BY ElementOfSeq
  <2> QED
    BY <2>1, LenProperties DEF Rows
<1>2. Limits!Units(s, w, from, to, n) \subseteq Limits!Units(s, w, from, to, 0)
  BY <1>1 DEF Limits!Units
<1>3. IsFiniteSet(Limits!Units(s, w, from, to, 0)) /\ Limits!UsagePast(s, w, from, to, 0) \in Nat
  BY UsageIsNat
<1> QED
  BY <1>2, <1>3, FS_Subset, SameCardinality DEF Limits!Usage, Limits!UsagePast

-----------------------------------------------------------------------------
LEMMA WindowIs ==
  ASSUME NEW i \in 1..Len(Windows)
  PROVE  /\ Window(i).length \in Nat /\ Window(i).limit \in Nat \ {0}
         /\ Window(i).measure \in Measures /\ Largest(i) \in Nat
<1>1. Window(i) \in [length : Nat, models : SUBSET Models, limit : Nat \ {0},
                     measure : {"input", "output", "cached", "price"}]
  BY LimitsSound, ElementOfSeq DEF Window
<1>2. /\ Window(i).length \in Nat /\ Window(i).limit \in Nat \ {0}
      /\ Window(i).measure \in Measures
  BY <1>1 DEF Measures
<1> QED
  BY <1>2, LargestIs DEF Largest

\* What the invariant adds up are numbers, and no more calls and records are
\* underway than there is room for.
LEMMA CountsOf ==
  ASSUME LimitsTyped, NEW i \in 1..Len(Windows), NEW to \in Nat
  PROVE  /\ Used(i, to) \in Nat
         /\ IsFiniteSet(InFlight(i, to)) /\ Cardinality(InFlight(i, to)) \in Nat
         /\ Cardinality(InFlight(i, to)) <= Cardinality(LimitCallers)
         /\ IsFiniteSet(Coming(i, to)) /\ Cardinality(Coming(i, to)) \in Nat
         /\ Cardinality(Coming(i, to)) <= QueueBound
         /\ Cardinality(LimitCallers) \in Nat /\ QueueBound \in Nat
<1>1. /\ Window(i).measure \in Measures /\ Largest(i) \in Nat
      /\ \A k \in 1..Len(store) : Limits!Measure(store[k], Window(i).measure) <= Largest(i)
  BY WindowIs DEF LimitsTyped, Largest
<1>2. Used(i, to) \in Nat
  <2>1. i \in Nat /\ store \in Seq(Rows)
    BY DEF LimitsTyped
  <2> QED
    BY <1>1, <2>1, UsageIsNat DEF Used
<1>3. InFlight(i, to) \in SUBSET LimitCallers
  BY DEF InFlight
<1>4. Coming(i, to) \in SUBSET (1..Len(queue)) /\ Len(queue) \in Nat /\ Len(queue) <= QueueBound
  BY LenProperties DEF Coming, LimitsTyped
<1>5. IsFiniteSet(1..Len(queue)) /\ Cardinality(1..Len(queue)) = Len(queue)
  BY <1>4, CountUpTo
<1>6. IsFiniteSet(LimitCallers) /\ QueueBound \in Nat
  BY LimitsSound
<1>7. /\ IsFiniteSet(InFlight(i, to)) /\ Cardinality(InFlight(i, to)) \in Nat
      /\ Cardinality(InFlight(i, to)) <= Cardinality(LimitCallers)
      /\ Cardinality(LimitCallers) \in Nat
  BY <1>3, <1>6, FS_Subset, FS_CardinalityType
<1>8. /\ IsFiniteSet(Coming(i, to)) /\ Cardinality(Coming(i, to)) \in Nat
      /\ Cardinality(Coming(i, to)) <= Len(queue)
  BY <1>4, <1>5, FS_Subset, FS_CardinalityType
<1> QED
  BY <1>2, <1>4, <1>6, <1>7, <1>8

Numbers(i, to) ==
    /\ Used(i, to) \in Nat
    /\ IsFiniteSet(InFlight(i, to)) /\ Cardinality(InFlight(i, to)) \in Nat
    /\ Cardinality(InFlight(i, to)) <= Cardinality(LimitCallers)
    /\ IsFiniteSet(Coming(i, to)) /\ Cardinality(Coming(i, to)) \in Nat
    /\ Cardinality(Coming(i, to)) <= QueueBound

LEMMA CountsAreNat ==
  ASSUME NEW i \in 1..Len(Windows), NEW to \in Nat
  PROVE  LimitsTyped => Numbers(i, to)
BY CountsOf DEF Numbers

LEMMA CountsStayNat ==
  ASSUME NEW i \in 1..Len(Windows), NEW to \in Nat
  PROVE  LimitsTyped' => Numbers(i, to)'
<1>1. LimitsTyped => Numbers(i, to)
  BY CountsAreNat
<1> QED
  BY <1>1, PTL

LEMMA BoundsAreNat ==
  Cardinality(LimitCallers) \in Nat /\ QueueBound \in Nat
BY LimitsSound, FS_CardinalityType

\* With less recorded and no more underway, the sum is no larger.
LEMMA SumBelow ==
  ASSUME NEW u \in Nat, NEW v \in Nat, NEW n \in Nat, NEW k \in Nat, NEW l \in Nat, NEW b \in Int,
         v <= u, k <= n, u + n * l <= b
  PROVE  v + k * l <= b
<1>1. k * l <= n * l /\ k * l \in Nat /\ n * l \in Nat
  BY MultiplesGrow
<1> QED
  BY <1>1

\* A record that becomes a row leaves its place to what it adds.
LEMMA SumTraded ==
  ASSUME NEW u \in Nat, NEW a \in Nat, NEW n \in Nat, NEW k \in Nat, NEW l \in Nat, NEW b \in Int,
         a <= l, k + 1 <= n, u + n * l <= b
  PROVE  (u + a) + k * l <= b
<1>1. (k + 1) * l <= n * l /\ k * l \in Nat /\ n * l \in Nat
  BY MultiplesGrow
<1>2. (k + 1) * l = k * l + l
  OBVIOUS
<1> QED
  BY <1>1, <1>2

\* Nothing is underway at first, and a limit allows something.
LEMMA LimitsStart == Limits!Init => LimitsInv
<1> SUFFICES ASSUME Limits!Init PROVE LimitsInv
  OBVIOUS
<1>1. LimitsTyped
  <2>1. Limits!Idle \in LimitCalls
    BY DEF Limits!Idle, LimitCalls
  <2>2. call \in [LimitCallers -> LimitCalls]
    BY <2>1 DEF Limits!Init
  <2> QED
    BY <2>2, LimitsSound DEF LimitsTyped, Limits!Init, Limits!Idle
<1>2. ASSUME NEW i \in 1..Len(Windows), NEW to \in 0..hour PROVE Committed(i, to) <= Ceiling(i)
  <2>1. Used(i, to) = 0
    <3>1. Limits!Units(store, Window(i), to - Window(i).length, to, i) = {}
      BY DEF Limits!Init, Limits!Units
    <3> QED
      BY <3>1, FS_EmptySet, SameCardinality DEF Used, Limits!UsagePast
  <2>2. InFlight(i, to) = {} /\ Coming(i, to) = {}
    BY DEF Limits!Init, Limits!Idle, InFlight, Coming
  <2>3. Cardinality(InFlight(i, to)) = 0 /\ Cardinality(Coming(i, to)) = 0
    BY <2>2, FS_EmptySet
  <2>4. /\ Largest(i) \in Nat /\ Window(i).limit \in Nat \ {0}
        /\ Cardinality(LimitCallers) + QueueBound \in Nat
    <3>1. Largest(i) \in Nat /\ Window(i).limit \in Nat \ {0}
      BY WindowIs
    <3>2. Cardinality(LimitCallers) \in Nat /\ QueueBound \in Nat
      BY BoundsAreNat
    <3> QED
      BY <3>1, <3>2
  <2>5. /\ (Cardinality(LimitCallers) + QueueBound) * Largest(i) \in Nat
        /\ 0 * Largest(i) = 0
    BY <2>4
  <2> QED
    BY <2>1, <2>3, <2>4, <2>5 DEF Committed, Ceiling
<1> QED
  BY <1>1, <1>2 DEF LimitsInv

-----------------------------------------------------------------------------
\* What a record costs, and so any of its measures, is within the largest usage.
LEMMA RowOfRecord ==
  ASSUME LimitsTyped, NEW r \in UsageRecords,
         [input |-> r.input, output |-> r.output, cached |-> r.cached] \in Details
  PROVE  /\ Limits!Row(r) \in Rows
         /\ \A m \in Measures : Limits!Measure(Limits!Row(r), m) <= Limits!Largest(m)
<1> DEFINE d == [input |-> r.input, output |-> r.output, cached |-> r.cached]
           row == Limits!Row(r)
           p == prices[r.model]
<1>1. /\ r.model \in Models /\ r.at \in Nat /\ r.failed \in BOOLEAN
      /\ r.input \in Nat /\ r.output \in Nat /\ r.cached \in Nat /\ r.passed \in Nat
  BY DEF UsageRecords
<1>2. p \in Prices /\ d \in Details
  BY <1>1 DEF LimitsTyped
<1>3. Charge(d) = Limits!Max({0, r.input - r.cached}) + r.cached + r.output
  BY DEF Charge
<1>4. Limits!Cost(r) = IF r.failed THEN 0 ELSE Charge(d) * p
  BY <1>3 DEF Limits!Cost
<1>5. \A m \in Measures : Added(d, p, m) \in Nat /\ Added(d, p, m) <= Limits!Largest(m)
                          /\ Limits!Largest(m) \in Nat
  BY <1>2, AddedIsNat, LargestIs
<1>6. Added(d, p, "price") = Charge(d) * p /\ "price" \in Measures
  BY DEF Added, Measures
<1>7. Limits!Cost(r) \in Nat /\ Limits!Cost(r) <= Limits!Largest("price")
  BY <1>4, <1>5, <1>6
<1>8. row \in Rows
  BY <1>1, <1>7 DEF Rows, Limits!Row
<1>9. ASSUME NEW m \in Measures PROVE Limits!Measure(row, m) <= Limits!Largest(m)
  <2>1. CASE m = "price"
    BY <1>7, <2>1 DEF Limits!Measure, Limits!Row
  <2>2. CASE m # "price"
    <3>1. Limits!Measure(row, m) = Added(d, p, m)
      BY <2>2 DEF Limits!Measure, Limits!Row, Added, Measures
    <3> QED
      BY <1>5, <3>1
  <2> QED
    BY <2>1, <2>2
<1> QED
  BY <1>8, <1>9

\* What the steps of the limiter and of the calls do to the types.
LEMMA LimitsTypedStep ==
  ASSUME LimitsTyped, [Limits!Next]_(Limits!vars)
  PROVE  LimitsTyped'
<1>1. Limits!Idle \in LimitCalls
  BY DEF Limits!Idle, LimitCalls
<1>2. /\ hour \in Nat /\ call \in [LimitCallers -> LimitCalls]
      /\ \A c \in LimitCallers : call[c].pc # "idle" => call[c].model \in Models /\ call[c].now <= hour
      /\ queue \in Seq(UsageRecords) /\ Len(queue) <= QueueBound /\ Len(queue) \in Nat
      /\ \A k \in 1..Len(queue) :
            /\ queue[k] \in UsageRecords
            /\ queue[k].at <= hour
            /\ [input |-> queue[k].input, output |-> queue[k].output, cached |-> queue[k].cached] \in Details
      /\ store \in Seq(Rows) /\ Len(store) \in Nat
      /\ \A k \in 1..Len(store) :
            /\ store[k] \in Rows
            /\ store[k].at <= hour
            /\ \A m \in Measures : Limits!Measure(store[k], m) <= Limits!Largest(m)
      /\ prices \in [Models -> Prices]
  BY ElementOfSeq, LenProperties DEF LimitsTyped
\* A step that touches the calls alone.
<1> DEFINE CallsAlone ==
             /\ UNCHANGED <<hour, queue, store, prices>>
             /\ call' \in [LimitCallers -> LimitCalls]
             /\ \A b \in LimitCallers :
                  call'[b].pc # "idle" => call'[b].model \in Models /\ call'[b].now <= hour
<1>3. ASSUME CallsAlone PROVE LimitsTyped'
  BY <1>2, <1>3 DEF LimitsTyped
<1>4. ASSUME NEW c \in LimitCallers, Limits!Begin(c) PROVE LimitsTyped'
  <2>1. PICK m \in Models, pc \in {"check", "open"} :
          call' = [call EXCEPT ![c] = [pc |-> pc, model |-> m, now |-> hour, i |-> 1]]
    BY <1>4 DEF Limits!Begin
  <2> DEFINE new == [pc |-> pc, model |-> m, now |-> hour, i |-> 1]
  <2>2. call' \in [LimitCallers -> LimitCalls]
    <3>1. pc \in {"idle", "check", "open", "run"} /\ 1 \in Nat \ {0}
      OBVIOUS
    <3>2. new \in LimitCalls
      BY <1>2, <3>1 DEF LimitCalls
    <3> QED
      BY <1>2, <2>1, <3>2
  <2>3. \A b \in LimitCallers :
          call'[b].pc # "idle" => call'[b].model \in Models /\ call'[b].now <= hour
    BY <1>2, <2>1
  <2> QED
    BY <1>3, <1>4, <2>2, <2>3 DEF Limits!Begin
<1>5. ASSUME NEW c \in LimitCallers, Limits!CheckWindow(c) PROVE LimitsTyped'
  <2>1. \/ call' = [call EXCEPT ![c] = Limits!Idle]
        \/ call' = [call EXCEPT ![c].i = @ + 1]
    BY <1>5 DEF Limits!CheckWindow
  <2>2. CASE call' = [call EXCEPT ![c] = Limits!Idle]
    <3>1. call' \in [LimitCallers -> LimitCalls]
      BY <1>1, <1>2, <2>2
    <3>2. \A b \in LimitCallers :
            call'[b].pc # "idle" => call'[b].model \in Models /\ call'[b].now <= hour
      BY <1>2, <2>2 DEF Limits!Idle
    <3> QED
      BY <1>3, <1>5, <3>1, <3>2 DEF Limits!CheckWindow
  <2>3. CASE call' = [call EXCEPT ![c].i = @ + 1]
    <3>1. call[c] \in LimitCalls
      BY <1>2
    <3>2. call' \in [LimitCallers -> LimitCalls]
      <4>1. [call[c] EXCEPT !.i = @ + 1] \in LimitCalls
        BY <3>1 DEF LimitCalls
      <4> QED
        BY <1>2, <2>3, <4>1
    <3>3. \A b \in LimitCallers :
            call'[b].pc # "idle" => call'[b].model \in Models /\ call'[b].now <= hour
      BY <1>2, <1>5, <2>3 DEF Limits!CheckWindow, LimitCalls
    <3> QED
      BY <1>3, <1>5, <3>2, <3>3 DEF Limits!CheckWindow
  <2> QED
    BY <2>1, <2>2, <2>3
<1>6. ASSUME NEW c \in LimitCallers, Limits!Proceed(c) PROVE LimitsTyped'
  <2>1. call' = [call EXCEPT ![c].pc = "run", ![c].now = hour] /\ call[c].pc \in {"check", "open"}
    BY <1>6 DEF Limits!Proceed
  <2>2. call' \in [LimitCallers -> LimitCalls]
    <3>1. [call[c] EXCEPT !.pc = "run", !.now = hour] \in LimitCalls
      BY <1>2 DEF LimitCalls
    <3> QED
      BY <1>2, <2>1, <3>1
  <2>3. \A b \in LimitCallers :
          call'[b].pc # "idle" => call'[b].model \in Models /\ call'[b].now <= hour
    BY <1>2, <2>1 DEF LimitCalls
  <2> QED
    BY <1>3, <1>6, <2>2, <2>3 DEF Limits!Proceed
<1>7. ASSUME NEW c \in LimitCallers, Limits!Finish(c) PROVE LimitsTyped'
  <2>1. PICK d \in Details, f \in BOOLEAN :
          queue' = Append(queue, [model |-> call[c].model, at |-> call[c].now, failed |-> f,
                                  input |-> d.input, output |-> d.output, cached |-> d.cached,
                                  passed |-> call[c].i - 1])
    BY <1>7 DEF Limits!Finish
  <2> DEFINE r == [model |-> call[c].model, at |-> call[c].now, failed |-> f,
                   input |-> d.input, output |-> d.output, cached |-> d.cached,
                   passed |-> call[c].i - 1]
  <2>2. d \in [input : Nat, output : Nat, cached : Nat]
    BY LimitsSound
  <2>3. /\ call[c].model \in Models /\ call[c].now \in Nat /\ call[c].now <= hour
        /\ call[c].i - 1 \in Nat
    BY <1>2, <1>7 DEF Limits!Finish, LimitCalls
  <2>4. r \in UsageRecords /\ r.at <= hour
    BY <2>2, <2>3 DEF UsageRecords
  <2>5. [input |-> r.input, output |-> r.output, cached |-> r.cached] \in Details
    BY <2>2
  <2> HIDE DEF r
  <2>6. /\ queue' \in Seq(UsageRecords) /\ Len(queue') = Len(queue) + 1
        /\ \A k \in 1..Len(queue) : queue'[k] = queue[k]
        /\ queue'[Len(queue) + 1] = r
    BY <1>2, <2>1, <2>4, AppendProperties DEF r
  <2>7. Len(queue) < QueueBound /\ QueueBound \in Nat
    BY <1>7, LimitsSound DEF Limits!Finish
  <2>8. Len(queue') <= QueueBound
    BY <1>2, <2>6, <2>7
  <2>9. ASSUME NEW k \in 1..Len(queue')
        PROVE  /\ queue'[k].at <= hour
               /\ [input |-> queue'[k].input, output |-> queue'[k].output,
                   cached |-> queue'[k].cached] \in Details
    <3>1. k \in 1..Len(queue) \/ k = Len(queue) + 1
      BY <1>2, <2>6
    <3> QED
      BY <1>2, <2>4, <2>5, <2>6, <3>1
  <2>10. call' = [call EXCEPT ![c] = Limits!Idle] /\ UNCHANGED <<hour, store, prices>>
    BY <1>7 DEF Limits!Finish
  <2>11. call' \in [LimitCallers -> LimitCalls]
    BY <1>1, <1>2, <2>10
  <2>12. \A b \in LimitCallers :
           call'[b].pc # "idle" => call'[b].model \in Models /\ call'[b].now <= hour
    BY <1>2, <2>10 DEF Limits!Idle
  <2> QED
    BY <1>2, <2>6, <2>8, <2>9, <2>10, <2>11, <2>12 DEF LimitsTyped
<1>8. ASSUME Limits!HandleUsage PROVE LimitsTyped'
  <2> DEFINE r == queue[1]
             row == Limits!Row(r)
  <2>1. /\ queue # <<>> /\ queue' = Tail(queue)
        /\ store' = Append(store, row) \/ store' = store
        /\ UNCHANGED <<hour, call, prices>>
    BY <1>2, <1>8, HeadTailProperties DEF Limits!HandleUsage
  <2>2. /\ Len(queue) \in Nat \ {0} /\ queue' \in Seq(UsageRecords) /\ Len(queue') = Len(queue) - 1
        /\ \A k \in 1..Len(queue') : queue'[k] = queue[k + 1]
    BY <1>2, <2>1, HeadTailProperties, EmptySeq
  <2>3. /\ r \in UsageRecords /\ r.at <= hour
        /\ [input |-> r.input, output |-> r.output, cached |-> r.cached] \in Details
    <3>1. 1 \in 1..Len(queue)
      BY <2>2
    <3> QED
      BY <1>2, <3>1
  <2>4. row \in Rows /\ \A m \in Measures : Limits!Measure(row, m) <= Limits!Largest(m)
    BY <2>3, RowOfRecord
  <2>5. row.at <= hour
    BY <2>3 DEF Limits!Row
  <2> HIDE DEF row, r
  <2>6. ASSUME store' = Append(store, row)
        PROVE  /\ store' \in Seq(Rows)
               /\ \A k \in 1..Len(store') :
                     /\ store'[k].at <= hour
                     /\ \A m \in Measures : Limits!Measure(store'[k], m) <= Limits!Largest(m)
    <3>1. /\ store' \in Seq(Rows) /\ Len(store') = Len(store) + 1
          /\ \A k \in 1..Len(store) : store'[k] = store[k]
          /\ store'[Len(store) + 1] = row
      BY <1>2, <2>4, <2>6, AppendProperties
    <3>2. ASSUME NEW k \in 1..Len(store')
          PROVE  /\ store'[k].at <= hour
                 /\ \A m \in Measures : Limits!Measure(store'[k], m) <= Limits!Largest(m)
      <4>1. k \in 1..Len(store) \/ k = Len(store) + 1
        BY <1>2, <3>1
      <4> QED
        BY <1>2, <2>4, <2>5, <3>1, <4>1
    <3> QED
      BY <3>1, <3>2
  <2>7. /\ store' \in Seq(Rows)
        /\ \A k \in 1..Len(store') :
              /\ store'[k].at <= hour
              /\ \A m \in Measures : Limits!Measure(store'[k], m) <= Limits!Largest(m)
    BY <1>2, <2>1, <2>6
  <2>8. ASSUME NEW k \in 1..Len(queue')
        PROVE  /\ queue'[k].at <= hour
               /\ [input |-> queue'[k].input, output |-> queue'[k].output,
                   cached |-> queue'[k].cached] \in Details
    <3>1. k + 1 \in 1..Len(queue) /\ queue'[k] = queue[k + 1]
      BY <2>2
    <3> QED
      BY <1>2, <3>1
  <2>9. Len(queue') <= QueueBound
    BY <1>2, <2>2, LimitsSound
  <2> QED
    BY <1>2, <2>1, <2>2, <2>7, <2>8, <2>9 DEF LimitsTyped
<1>9. ASSUME Limits!WirePrices PROVE LimitsTyped'
  <2>1. prices' \in [Models -> Prices] /\ UNCHANGED <<hour, call, queue, store>>
    BY <1>2, <1>9 DEF Limits!WirePrices
  <2> QED
    BY <1>2, <2>1 DEF LimitsTyped
<1>10. ASSUME Limits!Tick PROVE LimitsTyped'
  <2>1. hour' = hour + 1 /\ hour' \in Nat /\ UNCHANGED <<call, queue, store, prices>>
    BY <1>2, <1>10 DEF Limits!Tick
  <2>2. \A x \in Nat : x <= hour => x <= hour'
    BY <1>2, <2>1
  <2>3. \A c \in LimitCallers : call[c].now \in Nat
    BY <1>2 DEF LimitCalls
  <2>4. \A k \in 1..Len(queue) : queue[k].at \in Nat
    BY <1>2 DEF UsageRecords
  <2>5. \A k \in 1..Len(store) : store[k].at \in Nat
    BY <1>2 DEF Rows
  <2>6. \A c \in LimitCallers : call[c].pc # "idle" => call[c].model \in Models /\ call[c].now <= hour'
    BY <1>2, <2>2, <2>3
  <2>7. /\ \A k \in 1..Len(queue) : queue[k].at <= hour'
        /\ \A k \in 1..Len(store) : store[k].at <= hour'
    BY <1>2, <2>2, <2>4, <2>5
  <2> QED
    BY <1>2, <2>1, <2>6, <2>7 DEF LimitsTyped
<1>11. ASSUME UNCHANGED Limits!vars PROVE LimitsTyped'
  BY <1>2, <1>11 DEF Limits!vars, LimitsTyped
<1>12. ASSUME NEW c \in LimitCallers, Limits!QueryFails(c) PROVE LimitsTyped'
  <2>1. call' = [call EXCEPT ![c].pc = "open"] /\ call[c].pc = "check"
    BY <1>12 DEF Limits!QueryFails
  <2>2. call' \in [LimitCallers -> LimitCalls]
    <3>1. [call[c] EXCEPT !.pc = "open"] \in LimitCalls
      BY <1>2 DEF LimitCalls
    <3> QED
      BY <1>2, <2>1, <3>1
  <2>3. \A b \in LimitCallers :
          call'[b].pc # "idle" => call'[b].model \in Models /\ call'[b].now <= hour
    BY <1>2, <2>1 DEF LimitCalls
  <2> QED
    BY <1>3, <1>12, <2>2, <2>3 DEF Limits!QueryFails
<1> QED
  BY <1>4, <1>5, <1>6, <1>7, <1>8, <1>9, <1>10, <1>11, <1>12 DEF Limits!Next

-----------------------------------------------------------------------------
\* A window of the next state is within its ceiling when it has no more in it,
\* and no more underway, than one of this state.
LEMMA NoMoreCommitted ==
  ASSUME LimitsTyped, LimitsTyped', NEW i \in 1..Len(Windows), NEW t \in Nat, NEW u \in Nat,
         Committed(i, t) <= Ceiling(i),
         Used(i, u)' <= Used(i, t),
         Cardinality(InFlight(i, u))' + Cardinality(Coming(i, u))'
           <= Cardinality(InFlight(i, t)) + Cardinality(Coming(i, t))
  PROVE  Committed(i, u)' <= Ceiling(i)
<1>1. /\ Used(i, t) \in Nat /\ Used(i, u)' \in Nat
      /\ Cardinality(InFlight(i, t)) + Cardinality(Coming(i, t)) \in Nat
      /\ Cardinality(InFlight(i, u))' + Cardinality(Coming(i, u))' \in Nat
  <2>1. Numbers(i, t) /\ Numbers(i, u)'
    BY CountsAreNat, CountsStayNat
  <2> QED
    BY <2>1 DEF Numbers
<1>2. Largest(i) \in Nat /\ Ceiling(i) \in Int
  <2>1. Largest(i) \in Nat /\ Window(i).limit \in Nat
    BY WindowIs
  <2>2. (Cardinality(LimitCallers) + QueueBound) * Largest(i) \in Nat
    BY <2>1, BoundsAreNat
  <2> QED
    BY <2>1, <2>2 DEF Ceiling
<1>3. Used(i, t) + (Cardinality(InFlight(i, t)) + Cardinality(Coming(i, t))) * Largest(i) <= Ceiling(i)
  BY DEF Committed
<1>4. Used(i, u)' + (Cardinality(InFlight(i, u))' + Cardinality(Coming(i, u))') * Largest(i) <= Ceiling(i)
  BY <1>1, <1>2, <1>3, SumBelow
<1> QED
  BY <1>4 DEF Committed

LEMMA StillCommitted ==
  ASSUME LimitsTyped, LimitsTyped', NEW i \in 1..Len(Windows), NEW t \in Nat, NEW u \in Nat,
         Committed(i, t) <= Ceiling(i),
         Used(i, u)' <= Used(i, t),
         InFlight(i, u)' \subseteq InFlight(i, t),
         Coming(i, u)' \subseteq Coming(i, t)
  PROVE  Committed(i, u)' <= Ceiling(i)
<1>1. Numbers(i, t) /\ Numbers(i, u)'
  BY CountsAreNat, CountsStayNat
<1>2. IsFiniteSet(InFlight(i, t)) /\ IsFiniteSet(Coming(i, t))
  BY <1>1 DEF Numbers
<1>3. /\ Cardinality(InFlight(i, u)') <= Cardinality(InFlight(i, t))
      /\ Cardinality(Coming(i, u)') <= Cardinality(Coming(i, t))
  BY <1>2, FS_Subset
<1>4. Cardinality(InFlight(i, u))' + Cardinality(Coming(i, u))'
        <= Cardinality(InFlight(i, t)) + Cardinality(Coming(i, t))
  BY <1>1, <1>3 DEF Numbers
<1> QED
  BY <1>4, NoMoreCommitted

\* A window below its limit has room for all there may be underway.
LEMMA RoomBelowLimit ==
  ASSUME LimitsTyped', NEW i \in 1..Len(Windows), NEW u \in Nat,
         Used(i, u)' < Window(i).limit
  PROVE  Committed(i, u)' <= Ceiling(i)
<1>1. /\ Used(i, u)' \in Nat
      /\ Cardinality(InFlight(i, u))' \in Nat /\ Cardinality(Coming(i, u))' \in Nat
      /\ Cardinality(InFlight(i, u))' <= Cardinality(LimitCallers)
      /\ Cardinality(Coming(i, u))' <= QueueBound
  <2>1. Numbers(i, u)'
    BY CountsStayNat
  <2> QED
    BY <2>1 DEF Numbers
<1>2. Largest(i) \in Nat /\ Window(i).limit \in Nat
  BY WindowIs
<1>3. Cardinality(LimitCallers) \in Nat /\ QueueBound \in Nat
  BY BoundsAreNat
<1> DEFINE n == Cardinality(InFlight(i, u))' + Cardinality(Coming(i, u))'
           b == Cardinality(LimitCallers) + QueueBound
<1>4. n \in Nat /\ b \in Nat /\ n <= b
  BY <1>1, <1>3
<1> HIDE DEF n, b
<1>5. n * Largest(i) <= b * Largest(i) /\ n * Largest(i) \in Nat /\ b * Largest(i) \in Nat
  BY <1>2, <1>4, MultiplesGrow
<1>6. Used(i, u)' + n * Largest(i) <= Window(i).limit - 1 + b * Largest(i)
  <2>1. \A x, l, p, q \in Nat : x < l /\ p <= q => x + p <= l - 1 + q
    OBVIOUS
  <2> QED
    BY <1>1, <1>2, <1>5, <2>1
<1> QED
  BY <1>6 DEF Committed, Ceiling, n, b

\* The steps of a call that neither publish nor record anything.
LEMMA CallStepsCommit ==
  ASSUME LimitsInv, LimitsTyped', NEW c \in LimitCallers,
         Limits!Begin(c) \/ Limits!CheckWindow(c) \/ Limits!QueryFails(c) \/ Limits!Proceed(c),
         NEW i \in 1..Len(Windows), NEW u \in 0..hour
  PROVE  Committed(i, u)' <= Ceiling(i)
<1>1. /\ UNCHANGED <<hour, queue, store>> /\ hour \in Nat /\ u \in Nat
      /\ call \in [LimitCallers -> LimitCalls]
      /\ call[c].i \in Nat /\ call[c].now \in Nat
      /\ LimitsTyped /\ Committed(i, u) <= Ceiling(i)
  <2>1. UNCHANGED <<hour, queue, store>>
    BY DEF Limits!Begin, Limits!CheckWindow, Limits!QueryFails, Limits!Proceed
  <2>2. /\ hour \in Nat /\ call \in [LimitCallers -> LimitCalls]
        /\ LimitsTyped /\ Committed(i, u) <= Ceiling(i)
    BY DEF LimitsInv, LimitsTyped
  <2> QED
    BY <2>1, <2>2 DEF LimitCalls
<1>2. Used(i, u)' = Used(i, u) /\ Used(i, u) \in Nat /\ Coming(i, u)' = Coming(i, u)
  BY <1>1, CountsAreNat DEF Used, Coming, Numbers
<1>3. ASSUME InFlight(i, u)' \subseteq InFlight(i, u) PROVE Committed(i, u)' <= Ceiling(i)
  <2>1. Used(i, u)' <= Used(i, u)
    BY <1>2
  <2> QED
    BY <1>1, <1>2, <1>3, <2>1, StillCommitted
<1>4. ASSUME NEW b \in LimitCallers, b # c, b \in InFlight(i, u)', call'[b] = call[b]
      PROVE  b \in InFlight(i, u)
  BY <1>1, <1>4 DEF InFlight, Used
<1>5. CASE Limits!Begin(c)
  <2>1. PICK m \in Models, pc \in {"check", "open"} :
          call' = [call EXCEPT ![c] = [pc |-> pc, model |-> m, now |-> hour, i |-> 1]]
    BY <1>5 DEF Limits!Begin
  <2>2. CASE c \in InFlight(i, u)'
    <3>1. /\ call'[c].pc \in {"check", "open"} /\ call'[c].i = 1 /\ call'[c].now = hour
      BY <1>1, <2>1
    <3>2. Used(i, u)' < Window(i).limit
      BY <1>1, <2>2, <3>1 DEF InFlight
    <3> QED
      BY <1>1, <3>2, RoomBelowLimit
  <2>3. CASE c \notin InFlight(i, u)'
    <3>1. \A b \in LimitCallers : b # c => call'[b] = call[b]
      BY <1>1, <2>1
    <3>2. InFlight(i, u)' \subseteq LimitCallers
      BY DEF InFlight
    <3> QED
      BY <1>3, <1>4, <2>3, <3>1, <3>2
  <2> QED
    BY <2>2, <2>3
<1>6. CASE Limits!CheckWindow(c) \/ Limits!QueryFails(c) \/ Limits!Proceed(c)
  <2>1. \A b \in LimitCallers : b # c => call'[b] = call[b]
    BY <1>1, <1>6 DEF Limits!CheckWindow, Limits!QueryFails, Limits!Proceed
  <2>2. ASSUME c \in InFlight(i, u)' PROVE c \in InFlight(i, u)
    <3>1. CASE Limits!Proceed(c)
      <4>1. /\ call'[c].pc = "run" /\ call'[c].now = hour /\ call'[c].model = call[c].model
            /\ call'[c].i = call[c].i /\ call[c].pc \in {"check", "open"}
        BY <1>1, <3>1 DEF Limits!Proceed, LimitCalls
      <4>2. Covers(i, call[c].model) /\ hour <= u /\ call[c].i > i
        BY <2>2, <4>1 DEF InFlight
      <4>3. u = hour
        BY <1>1, <4>2
      <4> QED
        BY <4>1, <4>2, <4>3 DEF InFlight
    <3>3. CASE Limits!QueryFails(c)
      <4>1. /\ call'[c].pc = "open" /\ call'[c].model = call[c].model /\ call'[c].i = call[c].i
            /\ call[c].pc = "check"
        BY <1>1, <3>3 DEF Limits!QueryFails, LimitCalls
      <4>2. Covers(i, call[c].model) /\ u = hour /\ call[c].i > i
        BY <1>1, <2>2, <4>1 DEF InFlight
      <4> QED
        BY <4>1, <4>2 DEF InFlight
    <3>2. CASE Limits!CheckWindow(c)
      <4>1. /\ call[c].pc = "check"
            /\ ~Limits!Refuses(c)
            /\ call' = [call EXCEPT ![c].i = @ + 1]
        <5>1. call'[c].pc # "idle"
          BY <2>2 DEF InFlight
        <5>2. call' = [call EXCEPT ![c] = Limits!Idle] => call'[c].pc = "idle"
          BY <1>1 DEF Limits!Idle
        <5> QED
          BY <3>2, <5>1, <5>2 DEF Limits!CheckWindow
      <4>2. /\ call'[c].pc = "check" /\ call'[c].i = call[c].i + 1
            /\ call'[c].model = call[c].model /\ call'[c].now = call[c].now
        BY <1>1, <4>1 DEF LimitCalls
      <4>3. /\ Covers(i, call[c].model) /\ u = hour
            /\ call[c].i + 1 > i \/ Used(i, call[c].now) < Window(i).limit
        BY <1>1, <2>2, <4>2 DEF InFlight, Used
      <4>4. CASE call[c].i = i
        <5> DEFINE t == call[c].now
                   all == Limits!Usage(store, Window(i), t - Window(i).length, t)
        <5>1. ~(all >= Window(i).limit)
          BY <4>1, <4>3, <4>4 DEF Limits!Refuses, Covers, Window
        <5>2. Used(i, t) <= all /\ all \in Nat
          <6>1. /\ Window(i).measure \in Measures /\ Largest(i) \in Nat /\ store \in Seq(Rows)
                /\ \A k \in 1..Len(store) : Limits!Measure(store[k], Window(i).measure) <= Largest(i)
                /\ i \in Nat
            BY <1>1, WindowIs DEF LimitsTyped, Largest
          <6>2. /\ Limits!UsagePast(store, Window(i), t - Window(i).length, t, i)
                     <= Limits!Usage(store, Window(i), t - Window(i).length, t)
                /\ Limits!Usage(store, Window(i), t - Window(i).length, t) \in Nat
            <7> HIDE DEF t, all
            <7> QED
              BY ONLY <6>1, UsageOfSome
          <6> QED
            BY <6>2 DEF Used
        <5>3. Used(i, t) \in Nat /\ Window(i).limit \in Nat
          BY <1>1, CountsAreNat, WindowIs DEF Numbers
        <5>4. Used(i, call[c].now) < Window(i).limit
          <6> HIDE DEF all
          <6> QED
            BY <5>1, <5>2, <5>3
        <5> QED
          BY <4>1, <4>3, <5>4 DEF InFlight
      <4>5. CASE call[c].i # i
        <5>1. call[c].i > i \/ Used(i, call[c].now) < Window(i).limit
          BY <1>1, <4>2, <4>3, <4>5
        <5> QED
          BY <4>1, <4>3, <5>1 DEF InFlight
      <4> QED
        BY <4>4, <4>5
    <3> QED
      BY <1>6, <3>1, <3>2, <3>3
  <2>3. InFlight(i, u)' \subseteq LimitCallers
    BY DEF InFlight
  <2> QED
    BY <1>3, <1>4, <2>1, <2>2, <2>3
<1> QED
  BY <1>5, <1>6

LEMMA OneMoreElement ==
  ASSUME NEW S, IsFiniteSet(S), NEW x
  PROVE  IsFiniteSet(S \cup {x}) /\ Cardinality(S \cup {x}) <= Cardinality(S) + 1
<1>1. Cardinality(S) \in Nat
  BY FS_CardinalityType
<1>2. /\ IsFiniteSet(S \cup {x})
      /\ Cardinality(S \cup {x}) = IF x \in S THEN Cardinality(S) ELSE Cardinality(S) + 1
  BY FS_AddElement
<1> QED
  BY <1>1, <1>2

\* A call that ends leaves its place to the record it publishes.
LEMMA FinishCommits ==
  ASSUME LimitsInv, LimitsTyped', NEW c \in LimitCallers, Limits!Finish(c),
         NEW i \in 1..Len(Windows), NEW u \in 0..hour
  PROVE  Committed(i, u)' <= Ceiling(i)
<1>1. /\ UNCHANGED <<hour, store>> /\ hour \in Nat /\ u \in Nat
      /\ call \in [LimitCallers -> LimitCalls]
      /\ call' = [call EXCEPT ![c] = Limits!Idle] /\ call[c].pc = "run"
      /\ queue \in Seq(UsageRecords) /\ Len(queue) \in Nat
      /\ LimitsTyped /\ Committed(i, u) <= Ceiling(i)
  BY LenProperties DEF Limits!Finish, LimitsInv, LimitsTyped
<1>2. PICK r : /\ queue' = Append(queue, r) /\ r.at = call[c].now /\ r.model = call[c].model
               /\ r.passed = call[c].i - 1
  BY DEF Limits!Finish
<1>3. /\ DOMAIN queue = 1..Len(queue)
      /\ Len(queue') = Len(queue) + 1
      /\ \A k \in 1..Len(queue) : queue'[k] = queue[k]
      /\ queue'[Len(queue) + 1] = r
  BY <1>1, <1>2, LenProperties
<1>4. Used(i, u)' = Used(i, u) /\ Numbers(i, u) /\ Numbers(i, u)'
  BY <1>1, CountsAreNat, CountsStayNat DEF Used
<1>5. Used(i, u)' <= Used(i, u)
  BY <1>4 DEF Numbers
<1>6. InFlight(i, u)' \subseteq InFlight(i, u) \ {c}
  <2>1. ASSUME NEW b \in LimitCallers, b \in InFlight(i, u)' PROVE b \in InFlight(i, u) \ {c}
    <3>1. b # c
      BY <1>1, <2>1 DEF InFlight, Limits!Idle
    <3>2. call'[b] = call[b]
      BY <1>1, <3>1
    <3> QED
      BY <1>1, <2>1, <3>1, <3>2 DEF InFlight, Used
  <2>2. InFlight(i, u)' \subseteq LimitCallers
    BY DEF InFlight
  <2> QED
    BY <2>1, <2>2
<1>7. ASSUME NEW k \in Coming(i, u)', k \notin Coming(i, u)
      PROVE  k = Len(queue) + 1 /\ c \in InFlight(i, u)
  <2>1. k \in 1..Len(queue') /\ queue'[k].at <= u /\ Covers(i, queue'[k].model)
        /\ i <= queue'[k].passed
    BY <1>7 DEF Coming
  <2>2. k \in 1..Len(queue) \/ k = Len(queue) + 1
    BY <1>1, <1>3, <2>1
  <2>3. k \notin 1..Len(queue)
    BY <1>3, <1>7, <2>1 DEF Coming
  <2>4. i <= call[c].i - 1 => call[c].i > i
    BY <1>1 DEF LimitCalls
  <2> QED
    BY <1>1, <1>2, <1>3, <2>1, <2>2, <2>3, <2>4 DEF InFlight
<1>8. CASE c \in InFlight(i, u)
  <2>1. /\ IsFiniteSet(InFlight(i, u)) /\ IsFiniteSet(Coming(i, u))
        /\ Cardinality(InFlight(i, u)) \in Nat /\ Cardinality(Coming(i, u)) \in Nat
        /\ Cardinality(InFlight(i, u))' \in Nat /\ Cardinality(Coming(i, u))' \in Nat
    BY <1>4 DEF Numbers
  <2>2. /\ Cardinality(InFlight(i, u) \ {c}) = Cardinality(InFlight(i, u)) - 1
        /\ IsFiniteSet(InFlight(i, u) \ {c})
    BY <1>8, <2>1, FS_RemoveElement
  <2>3. Cardinality(InFlight(i, u)') <= Cardinality(InFlight(i, u)) - 1
    BY <1>6, <2>2, FS_Subset
  <2>4. /\ IsFiniteSet(Coming(i, u) \cup {Len(queue) + 1})
        /\ Cardinality(Coming(i, u) \cup {Len(queue) + 1}) <= Cardinality(Coming(i, u)) + 1
    BY <2>1, OneMoreElement
  <2>5. Coming(i, u)' \subseteq Coming(i, u) \cup {Len(queue) + 1}
    BY <1>7
  <2>6. Cardinality(Coming(i, u)') <= Cardinality(Coming(i, u) \cup {Len(queue) + 1})
        /\ Cardinality(Coming(i, u) \cup {Len(queue) + 1}) \in Nat
    BY <2>4, <2>5, FS_Subset, FS_CardinalityType
  <2>7. Cardinality(InFlight(i, u))' + Cardinality(Coming(i, u))'
          <= Cardinality(InFlight(i, u)) + Cardinality(Coming(i, u))
    <3>1. \A a, b, x, y, z \in Nat : x <= a - 1 /\ z <= b + 1 /\ y <= z => x + y <= a + b
      OBVIOUS
    <3> QED
      BY <2>1, <2>3, <2>4, <2>6, <3>1
  <2> QED
    BY <1>1, <1>5, <2>7, NoMoreCommitted
<1>9. CASE c \notin InFlight(i, u)
  <2>1. Coming(i, u)' \subseteq Coming(i, u)
    BY <1>7, <1>9
  <2>2. InFlight(i, u)' \subseteq InFlight(i, u)
    BY <1>6
  <2> QED
    BY <1>1, <1>5, <2>1, <2>2, StillCommitted
<1> QED
  BY <1>8, <1>9

\* The records behind the first one move up by one place.
LEMMA ShiftedCount ==
  ASSUME NEW n \in Nat, NEW S \in SUBSET (1..n), NEW T \in SUBSET (1..n),
         \A k \in T : k + 1 \in S
  PROVE  Cardinality(T) <= Cardinality(S \ {1})
<1> DEFINE f == [k \in T |-> k + 1]
<1>1. IsFiniteSet(S \ {1})
  <2>1. IsFiniteSet(1..n) /\ S \ {1} \in SUBSET (1..n)
    BY CountUpTo
  <2> QED
    BY <2>1, FS_Subset
<1>2. f \in Injection(T, S \ {1})
  <2>1. \A k \in T : k \in Nat /\ k >= 1
    OBVIOUS
  <2>2. \A k \in T : f[k] \in S \ {1}
    BY <2>1
  <2>3. \A j, k \in T : f[j] = f[k] => j = k
    BY <2>1
  <2>4. f \in [T -> S \ {1}]
    BY <2>2
  <2> HIDE DEF f
  <2> QED
    BY <2>3, <2>4 DEF Injection, IsInjective
<1> HIDE DEF f
<1> QED
  BY <1>1, <1>2, FS_Injection

\* The records behind the one that is handled are still to come.
LEMMA QueueMoves ==
  ASSUME LimitsInv, Limits!HandleUsage, NEW i \in 1..Len(Windows), NEW u \in 0..hour
  PROVE  Cardinality(Coming(i, u)') <= Cardinality(Coming(i, u) \ {1})
<1>1. queue # <<>> /\ queue' = Tail(queue) /\ queue \in Seq(UsageRecords)
  BY DEF Limits!HandleUsage, LimitsInv, LimitsTyped
<1>2. /\ Len(queue) \in Nat \ {0} /\ Len(queue') = Len(queue) - 1
      /\ \A k \in 1..Len(queue') : queue'[k] = queue[k + 1]
  BY <1>1, HeadTailProperties, EmptySeq
<1>3. Coming(i, u) \in SUBSET (1..Len(queue)) /\ Coming(i, u)' \in SUBSET (1..Len(queue))
  BY <1>2 DEF Coming
<1>4. \A k \in Coming(i, u)' : k + 1 \in Coming(i, u)
  BY <1>2 DEF Coming
<1> QED
  BY <1>2, <1>3, <1>4, ShiftedCount

\* A record that is not stored adds nothing.
LEMMA DroppingCommits ==
  ASSUME LimitsInv, LimitsTyped', Limits!HandleUsage, UNCHANGED store,
         NEW i \in 1..Len(Windows), NEW u \in 0..hour
  PROVE  Committed(i, u)' <= Ceiling(i)
<1>1. /\ UNCHANGED <<hour, call>> /\ u \in Nat
      /\ LimitsTyped /\ Committed(i, u) <= Ceiling(i)
  BY DEF Limits!HandleUsage, LimitsInv, LimitsTyped
<1>2. Numbers(i, u) /\ Numbers(i, u)'
  BY <1>1, CountsAreNat, CountsStayNat
<1>3. Used(i, u)' <= Used(i, u)
  BY <1>2 DEF Used, Numbers
<1>4. InFlight(i, u)' = InFlight(i, u)
  BY <1>1 DEF InFlight, Used
<1>5. /\ IsFiniteSet(Coming(i, u)) /\ Cardinality(Coming(i, u)) \in Nat
      /\ Cardinality(Coming(i, u))' \in Nat /\ Cardinality(InFlight(i, u)) \in Nat
  BY <1>2 DEF Numbers
<1>6. /\ Cardinality(Coming(i, u) \ {1}) <= Cardinality(Coming(i, u))
      /\ Cardinality(Coming(i, u) \ {1}) \in Nat
  BY <1>5, FS_Subset, FS_CardinalityType
<1>7. Cardinality(Coming(i, u)') <= Cardinality(Coming(i, u) \ {1})
  BY QueueMoves
<1>8. Cardinality(InFlight(i, u))' + Cardinality(Coming(i, u))'
        <= Cardinality(InFlight(i, u)) + Cardinality(Coming(i, u))
  <2>1. \A n, m, x, y \in Nat : x <= y /\ y <= m => n + x <= n + m
    OBVIOUS
  <2> QED
    BY <1>4, <1>5, <1>6, <1>7, <2>1
<1> QED
  BY <1>1, <1>3, <1>8, NoMoreCommitted

\* A record that is stored adds what it carried.
LEMMA HandlingCommits ==
  ASSUME LimitsInv, LimitsTyped', Limits!HandleUsage,
         store' = Append(store, Limits!Row(Head(queue))),
         NEW i \in 1..Len(Windows), NEW u \in 0..hour
  PROVE  Committed(i, u)' <= Ceiling(i)
<1> DEFINE r == queue[1]
           row == Limits!Row(r)
           w == Window(i)
<1>1. /\ queue # <<>> /\ store' = Append(store, row) /\ queue' = Tail(queue)
      /\ UNCHANGED <<hour, call>> /\ hour \in Nat /\ u \in Nat
      /\ queue \in Seq(UsageRecords) /\ store \in Seq(Rows)
      /\ \A k \in 1..Len(store) : \A m \in Measures : Limits!Measure(store[k], m) <= Limits!Largest(m)
      /\ LimitsTyped /\ Committed(i, u) <= Ceiling(i)
  BY HeadTailProperties DEF Limits!HandleUsage, LimitsInv, LimitsTyped
<1>2. /\ Len(queue) \in Nat \ {0} /\ Len(queue') = Len(queue) - 1
      /\ \A k \in 1..Len(queue') : queue'[k] = queue[k + 1]
  BY <1>1, HeadTailProperties, EmptySeq
<1>3. /\ r \in UsageRecords
      /\ [input |-> r.input, output |-> r.output, cached |-> r.cached] \in Details
  <2>1. 1 \in 1..Len(queue)
    BY <1>2
  <2>2. [input |-> r.input, output |-> r.output, cached |-> r.cached] \in Details
    BY <1>1, <2>1 DEF LimitsTyped
  <2>3. r \in UsageRecords
    BY <1>1, <2>1, ElementOfSeq
  <2> QED
    BY <2>2, <2>3
<1>4. row \in Rows /\ \A m \in Measures : Limits!Measure(row, m) <= Limits!Largest(m)
  BY <1>1, <1>3, RowOfRecord
<1>5. row.at = r.at /\ row.model = r.model /\ row.passed = r.passed
  BY DEF Limits!Row
<1> HIDE DEF row, r
<1>6. w.measure \in Measures /\ Largest(i) \in Nat /\ Largest(i) = Limits!Largest(w.measure)
  BY WindowIs DEF Largest
\* Usage never falls when a row is added, and rises by the largest usage at most.
<1> DEFINE adds == Limits!Measure(row, w.measure)
<1>7. adds \in Nat /\ adds <= Largest(i)
  BY <1>4, <1>6, MeasureIsNat
<1>8. ASSUME NEW t \in Nat
      PROVE  /\ Used(i, t) \in Nat
             /\ Limits!UsagePast(store', w, t - w.length, t, i)
                  = Used(i, t) + (IF Limits!InWindow(row, w, t - w.length, t) /\ i <= row.passed THEN adds ELSE 0)
  <2>1. Used(i, t) \in Nat
    BY <1>1, CountsAreNat DEF Numbers
  <2>2. Limits!UsagePast(Append(store, row), w, t - w.length, t, i)
          = Limits!UsagePast(store, w, t - w.length, t, i)
            + (IF Limits!InWindow(row, w, t - w.length, t) /\ i <= row.passed THEN adds ELSE 0)
    <3>1. store \in Seq(Rows) /\ row \in Rows /\ w.measure \in Measures /\ Largest(i) \in Nat
      BY <1>1, <1>4, <1>6
    <3>2. \A k \in 1..Len(store) : Limits!Measure(store[k], w.measure) <= Largest(i)
      BY <1>1, <1>6
    <3> HIDE DEF w
    <3> QED
      BY ONLY <3>1, <3>2, UsageOfAppend
  <2> QED
    BY <1>1, <2>1, <2>2 DEF Used
<1>9. InFlight(i, u)' \subseteq InFlight(i, u)
  <2>1. ASSUME NEW c \in LimitCallers,
               Limits!UsagePast(store', w, call[c].now - w.length, call[c].now, i) < w.limit
        PROVE  Used(i, call[c].now) < w.limit
    <3> DEFINE t == call[c].now
               before == Used(i, t)
               after == Limits!UsagePast(store', w, t - w.length, t, i)
    <3>1. t \in Nat
      BY <1>1 DEF LimitsTyped, LimitCalls
    <3> HIDE DEF t
    <3>2. before \in Nat /\ (after = before + adds \/ after = before + 0)
      BY <1>8, <3>1
    <3>3. after < w.limit /\ w.limit \in Nat
      BY <2>1, WindowIs DEF t
    <3> HIDE DEF before, after, adds, w
    <3>4. before < w.limit
      BY <1>7, <3>2, <3>3
    <3> QED
      BY <3>4 DEF before, t, w
  <2> QED
    BY <1>1, <2>1 DEF InFlight, Used
<1>10. Cardinality(Coming(i, u)') <= Cardinality(Coming(i, u) \ {1})
  BY QueueMoves
<1>11. /\ IsFiniteSet(InFlight(i, u)) /\ IsFiniteSet(Coming(i, u))
       /\ Cardinality(InFlight(i, u)) \in Nat /\ Cardinality(Coming(i, u)) \in Nat
       /\ Cardinality(InFlight(i, u))' \in Nat /\ Cardinality(Coming(i, u))' \in Nat
       /\ Used(i, u) \in Nat
  <2>1. Numbers(i, u) /\ Numbers(i, u)'
    BY <1>1, CountsAreNat, CountsStayNat
  <2> QED
    BY <2>1 DEF Numbers
<1>12. Cardinality(InFlight(i, u)') <= Cardinality(InFlight(i, u))
  BY <1>9, <1>11, FS_Subset
<1>13. CASE 1 \in Coming(i, u)
  <2>1. Cardinality(Coming(i, u) \ {1}) = Cardinality(Coming(i, u)) - 1
    BY <1>11, <1>13, FS_RemoveElement
  <2>2. PICK a \in Nat : a <= Largest(i) /\ Used(i, u)' = Used(i, u) + a
    <3>1. \/ Used(i, u)' = Used(i, u) + adds
          \/ Used(i, u)' = Used(i, u) + 0
      BY <1>1, <1>8 DEF Used
    <3> QED
      BY <1>6, <1>7, <3>1
  <2>3. Cardinality(InFlight(i, u))' + Cardinality(Coming(i, u))' + 1
          <= Cardinality(InFlight(i, u)) + Cardinality(Coming(i, u))
    <3>1. \A n, m, x, y \in Nat : x <= n /\ y <= m - 1 => x + y + 1 <= n + m
      OBVIOUS
    <3> QED
      BY <1>10, <1>11, <1>12, <2>1, <3>1
  <2>4. Used(i, u) + (Cardinality(InFlight(i, u)) + Cardinality(Coming(i, u))) * Largest(i) <= Ceiling(i)
    BY <1>1 DEF Committed
  <2>5. /\ Cardinality(InFlight(i, u)) + Cardinality(Coming(i, u)) \in Nat
        /\ Cardinality(InFlight(i, u))' + Cardinality(Coming(i, u))' \in Nat
        /\ Ceiling(i) \in Int
    <3>1. Window(i).limit \in Nat /\ (Cardinality(LimitCallers) + QueueBound) * Largest(i) \in Nat
      BY <1>6, WindowIs, BoundsAreNat
    <3>2. \A x, y \in Nat : x + y \in Nat /\ x - 1 + y \in Int
      OBVIOUS
    <3> QED
      BY <1>11, <3>1, <3>2 DEF Ceiling
  <2>6. (Used(i, u) + a) + (Cardinality(InFlight(i, u))' + Cardinality(Coming(i, u))') * Largest(i)
          <= Ceiling(i)
    BY <1>6, <1>11, <2>2, <2>3, <2>4, <2>5, SumTraded
  <2> QED
    BY <2>2, <2>6 DEF Committed
<1>14. CASE 1 \notin Coming(i, u)
  <2>1. ~(Limits!InWindow(row, w, u - w.length, u) /\ i <= row.passed)
    <3>1. 1 \in 1..Len(queue)
      BY <1>2
    <3> QED
      BY <1>5, <1>14, <3>1 DEF Coming, Covers, Limits!InWindow, r
  <2>2. Used(i, u)' = Used(i, u) + 0
    BY <1>1, <1>8, <2>1 DEF Used
  <2>3. Used(i, u)' <= Used(i, u)
    BY <1>11, <2>2
  <2>4. Coming(i, u) \ {1} = Coming(i, u)
    BY <1>14
  <2>5. Cardinality(InFlight(i, u))' + Cardinality(Coming(i, u))'
          <= Cardinality(InFlight(i, u)) + Cardinality(Coming(i, u))
    <3>1. \A n, m, x, y \in Nat : x <= n /\ y <= m => x + y <= n + m
      OBVIOUS
    <3> QED
      BY <1>10, <1>11, <1>12, <2>4, <3>1
  <2> QED
    BY <1>1, <2>3, <2>5, NoMoreCommitted
<1> QED
  BY <1>13, <1>14

\* As time goes on a window that ends now takes over what the one before had.
LEMMA TickCommits ==
  ASSUME LimitsInv, LimitsTyped', Limits!Tick,
         NEW i \in 1..Len(Windows), NEW u \in 0..hour'
  PROVE  Committed(i, u)' <= Ceiling(i)
<1>1. /\ UNCHANGED <<call, queue, store>> /\ hour' = hour + 1 /\ hour \in Nat /\ u \in Nat
      /\ store \in Seq(Rows) /\ queue \in Seq(UsageRecords)
      /\ LimitsTyped
  <2>1. UNCHANGED <<call, queue, store>> /\ hour' = hour + 1
    BY DEF Limits!Tick
  <2>2. LimitsTyped /\ hour \in Nat /\ store \in Seq(Rows) /\ queue \in Seq(UsageRecords)
    BY DEF LimitsInv, LimitsTyped
  <2> QED
    BY <2>1, <2>2
<1>2. CASE u <= hour
  <2>1. u \in 0..hour /\ Committed(i, u) <= Ceiling(i)
    BY <1>1, <1>2 DEF LimitsInv
  <2>2. Used(i, u)' = Used(i, u) /\ Used(i, u) \in Nat /\ Coming(i, u)' = Coming(i, u)
    BY <1>1, CountsAreNat DEF Used, Coming, Numbers
  <2>3. Used(i, u)' <= Used(i, u)
    BY <2>2
  <2>4. InFlight(i, u)' \subseteq InFlight(i, u)
    <3>1. u # hour + 1
      BY <1>1, <1>2
    <3> QED
      BY <1>1, <3>1 DEF InFlight
  <2> QED
    BY <1>1, <2>1, <2>2, <2>3, <2>4, StillCommitted
<1>3. CASE u = hour + 1
  <2>1. hour \in 0..hour /\ Committed(i, hour) <= Ceiling(i)
    BY <1>1 DEF LimitsInv
  <2>2. Used(i, u)' <= Used(i, hour)
    <3>1. /\ Window(i).length \in Nat /\ Window(i).measure \in Measures
          /\ Limits!Largest(Window(i).measure) \in Nat
      BY WindowIs DEF Largest
    <3>2. \A k \in 1..Len(store) :
             /\ Limits!Measure(store[k], Window(i).measure) <= Limits!Largest(Window(i).measure)
             /\ store[k].at <= hour
      BY <1>1, <3>1 DEF LimitsTyped
    <3>3. hour - Window(i).length \in Int
      BY <1>1, <3>1
    <3>4. Limits!UsagePast(store, Window(i), (hour - Window(i).length) + 1, hour + 1, i)
            <= Limits!UsagePast(store, Window(i), hour - Window(i).length, hour, i)
      <4>1. hour \in Int /\ 1 \in Nat /\ i \in Nat
        BY <1>1
      <4> QED
        BY <1>1, <3>1, <3>2, <3>3, <4>1, UsageOfLater
    <3>5. (hour - Window(i).length) + 1 = u - Window(i).length
      <4>1. \A h, l \in Nat : (h - l) + 1 = (h + 1) - l
        OBVIOUS
      <4> QED
        BY <1>1, <1>3, <3>1, <4>1
    <3> QED
      BY <1>1, <1>3, <3>4, <3>5 DEF Used
  <2>3. Coming(i, u)' \subseteq Coming(i, hour)
    BY <1>1 DEF Coming, LimitsTyped
  <2>4. InFlight(i, u)' \subseteq InFlight(i, hour)
    BY <1>1 DEF InFlight, Used, LimitsTyped
  <2> QED
    BY <1>1, <2>1, <2>2, <2>3, <2>4, StillCommitted
<1> QED
  BY <1>1, <1>2, <1>3

LEMMA LimitsStep ==
  ASSUME LimitsInv, [Limits!Next]_(Limits!vars)
  PROVE  LimitsInv'
<1>1. LimitsTyped' /\ hour \in Nat
  BY LimitsTypedStep DEF LimitsInv, LimitsTyped
<1>2. ASSUME NEW i \in 1..Len(Windows), NEW u \in 0..hour' PROVE Committed(i, u)' <= Ceiling(i)
  <2>1. ASSUME NEW c \in LimitCallers,
               Limits!Begin(c) \/ Limits!CheckWindow(c) \/ Limits!QueryFails(c) \/ Limits!Proceed(c)
        PROVE  Committed(i, u)' <= Ceiling(i)
    <3>1. hour' = hour
      BY <2>1 DEF Limits!Begin, Limits!CheckWindow, Limits!QueryFails, Limits!Proceed
    <3> QED
      BY <1>1, <2>1, <3>1, CallStepsCommit
  <2>2. ASSUME NEW c \in LimitCallers, Limits!Finish(c) PROVE Committed(i, u)' <= Ceiling(i)
    <3>1. hour' = hour
      BY <2>2 DEF Limits!Finish
    <3> QED
      BY <1>1, <2>2, <3>1, FinishCommits
  <2>3. CASE Limits!HandleUsage
    <3>1. hour' = hour
      BY <2>3 DEF Limits!HandleUsage
    <3>2. store' = Append(store, Limits!Row(Head(queue))) \/ UNCHANGED store
      BY <2>3 DEF Limits!HandleUsage
    <3> QED
      BY <1>1, <2>3, <3>1, <3>2, HandlingCommits, DroppingCommits
  <2>4. CASE Limits!Tick
    BY <1>1, <2>4, TickCommits
  <2>5. CASE Limits!WirePrices \/ UNCHANGED Limits!vars
    <3>1. UNCHANGED <<hour, call, queue, store>>
      BY <2>5 DEF Limits!WirePrices, Limits!vars
    <3>2. u \in 0..hour /\ Committed(i, u) <= Ceiling(i)
      BY <3>1 DEF LimitsInv
    <3>3. Committed(i, u)' = Committed(i, u)
      BY <3>1 DEF Committed, Used, InFlight, Coming
    <3> QED
      BY <3>2, <3>3
  <2> QED
    BY <2>1, <2>2, <2>3, <2>4, <2>5 DEF Limits!Next
<1> QED
  BY <1>1, <1>2 DEF LimitsInv, Ceiling

\* In no window have the calls it let through used more than its limit allows,
\* with what the calls under way and the queued records may add: CheckRateLimit
\* looks only at what is recorded, while up to LimitCallers calls and QueueBound
\* records are not.  This holds although queries fail, calls for images are not
\* checked at all, and records are lost.
THEOREM OvershootIsBounded == Limits!Spec => []OvershootBounded
<1>1. Limits!Init => LimitsInv
  BY LimitsStart
<1>2. LimitsInv /\ [Limits!Next]_(Limits!vars) => LimitsInv'
  BY LimitsStep
<1>3. LimitsInv => OvershootBounded
  <2> SUFFICES ASSUME LimitsInv, NEW i \in DOMAIN Windows, NEW to \in 0..hour
               PROVE  Used(i, to) <= Ceiling(i)
    BY SameCardinality
       DEF OvershootBounded, Limits!OvershootBounded, Used, Ceiling, Window, Largest
  <2>1. i \in 1..Len(Windows) /\ to \in Nat /\ LimitsTyped
    <3>1. DOMAIN Windows = 1..Len(Windows)
      BY LimitsSound, LenProperties
    <3>2. LimitsTyped /\ hour \in Nat
      BY DEF LimitsInv, LimitsTyped
    <3> QED
      BY <3>1, <3>2
  <2>2. Numbers(i, to) /\ Largest(i) \in Nat /\ Window(i).limit \in Nat
    BY <2>1, CountsAreNat, WindowIs
  <2>3. Committed(i, to) <= Ceiling(i)
    BY <2>1 DEF LimitsInv
  <2>4. /\ Used(i, to) \in Nat
        /\ (Cardinality(InFlight(i, to)) + Cardinality(Coming(i, to))) * Largest(i) \in Nat
    BY <2>2 DEF Numbers
  <2>5. Ceiling(i) \in Int
    <3>1. (Cardinality(LimitCallers) + QueueBound) * Largest(i) \in Nat
      BY <2>2, BoundsAreNat
    <3> QED
      BY <2>2, <3>1 DEF Ceiling
  <2> QED
    BY <2>3, <2>4, <2>5 DEF Committed
<1> QED
  BY <1>1, <1>2, <1>3, PTL DEF Limits!Spec

-----------------------------------------------------------------------------
(* A call of an executor *)

CallRecords == [failed : BOOLEAN, tokens : Nat, tier : {"none", "t"}]

CallTyped ==
    /\ how \in Calls!Hows
    /\ phase \in {"start", "answered", "lines", "handing", "ended"}
    /\ body \in {"none", "open", "closed"}
    /\ buffer \in [tokens : Nat, tier : {"none", "t"}, seen : BOOLEAN]
    /\ records = <<>> \/ \E r \in CallRecords : records = <<r>>
    /\ chunks \in Seq({"data", "error"})
    /\ offer \in [left : {<<>>, <<"data">>, <<"error">>}, then : {"lines", "return", "done", "fail"}]
    /\ gone \in BOOLEAN
    /\ lines \in Seq(Calls!Lines)
    /\ result \in {"none", "ok", "error"}

\* A failure is on record: the call returned it, or its error is handed over.
Announced ==
    \/ phase = "ended" /\ result = "error"
    \/ /\ phase = "handing" /\ offer.then # "lines"
       /\ offer.left = <<>> => gone \/ Calls!Last(chunks) = "error"
       /\ offer.left # <<>> => offer.left = <<"error">>
    \/ phase = "ended" /\ (gone \/ Calls!Last(chunks) = "error")

\* The buffer has the last tokens and a tier if one was told.
Tells(usage) == Calls!ToldLast(usage.tokens) /\ (usage.tier # "none" <=> Calls!Tiers # {})
CompatStream == how.executor = "compat" /\ how.mode = "stream"
BufferTells ==
    CompatStream => Tells(buffer) /\ (~buffer.seen => buffer.tokens = 0 /\ buffer.tier = "none")

\* Only a stream has lines; what it has told is not on record before it ends.
StreamHolds ==
    /\ phase \in {"lines", "handing"} => how.mode \in Calls!Streams /\ result = "ok"
    /\ phase \in {"start", "answered"} => records = <<>> /\ result = "none"
    /\ CompatStream /\ phase \in {"lines", "handing"} =>
          \A r \in CallRecords : records = <<r>> => r.failed
    /\ how.executor = "compat" /\ phase = "handing" /\ offer.then = "return" => records # <<>>
    /\ phase = "start" => body = "none"
    /\ phase = "ended" => body # "open"
    /\ result = "error" => phase = "ended"

EndIsRecorded ==
    phase = "ended" =>
      /\ Calls!HasReporter /\ result = "error" /\ records = <<>> => Calls!HasLimit /\ body = "none"
      /\ how.executor = "compat" /\ Calls!HasReporter /\ result = "ok" /\ ~gone => records # <<>>
      /\ CompatStream /\ result = "ok" =>
            \A r \in CallRecords : records = <<r>> /\ ~r.failed => Tells(r)

CallInv ==
    /\ CallTyped /\ BufferTells /\ StreamHolds /\ EndIsRecorded
    /\ ~Calls!HasReporter => records = <<>>
    /\ \A r \in CallRecords : records = <<r>> /\ r.failed => Announced

-----------------------------------------------------------------------------
LEMMA LineIs ==
  ASSUME NEW line \in Calls!Lines
  PROVE  /\ line.kind \in {"data", "blank", "bare"}
         /\ line.tokens \in {-1, 0, 1, 2} /\ line.tier \in {"none", "t"}
BY DEF Calls!Lines, Calls!Line, Calls!NoTokens

\* The first to publish wins.
LEMMA PublishedIs ==
  ASSUME NEW recs, recs = <<>> \/ \E r \in CallRecords : recs = <<r>>, NEW new \in CallRecords
  PROVE  /\ \E r \in CallRecords : Calls!Published(recs, new) = <<r>>
         /\ recs = <<>> => Calls!Published(recs, new) = <<new>>
         /\ recs # <<>> => Calls!Published(recs, new) = recs
         /\ Calls!Published(recs, new) # <<>>
BY DEF Calls!Published

LEMMA RecordIs ==
  /\ Calls!Record(TRUE, Calls!NoUsage) \in CallRecords
  /\ Calls!Record(FALSE, Calls!NoUsage) \in CallRecords
  /\ Calls!Record(TRUE, Calls!NoUsage).failed
  /\ ~Calls!Record(FALSE, Calls!NoUsage).failed
  /\ Calls!Record(FALSE, Calls!NoUsage).tokens = 0
  /\ Calls!Record(FALSE, Calls!NoUsage).tier = "none"
BY DEF Calls!Record, Calls!NoUsage, CallRecords

\* A line read is the last, and a tier told remains so.
LEMMA LineTells ==
  ASSUME lines \in Seq(Calls!Lines), NEW line \in Calls!Lines, lines' = Append(lines, line)
  PROVE  /\ Calls!TellsTokens(line) => Calls!ToldLast(line.tokens)'
         /\ ~Calls!TellsTokens(line) => \A n \in Nat : Calls!ToldLast(n) => Calls!ToldLast(n)'
         /\ Calls!Tiers' # {} <=> Calls!Tiers # {} \/ line.tier # "none"
<1> DEFINE n == Len(lines) + 1
<1>1. /\ DOMAIN lines = 1..Len(lines) /\ Len(lines) \in Nat
      /\ DOMAIN lines' = 1..n
      /\ \A k \in 1..Len(lines) : lines'[k] = lines[k]
      /\ lines'[n] = line
  BY LenProperties, AppendProperties
<1>2. ASSUME Calls!TellsTokens(line) PROVE Calls!ToldLast(line.tokens)'
  <2>1. n \in Calls!TellAt' /\ \A i \in Calls!TellAt' : i <= n /\ i \in Nat
    BY <1>1, <1>2 DEF Calls!TellAt
  <2>2. \A i \in Calls!TellAt' : (\A j \in Calls!TellAt' : j <= i) => i = n
    BY <1>1, <2>1
  <2> QED
    BY <1>1, <2>1, <2>2 DEF Calls!ToldLast
<1>3. ASSUME ~Calls!TellsTokens(line) PROVE \A t \in Nat : Calls!ToldLast(t) => Calls!ToldLast(t)'
  <2>1. Calls!TellAt' = Calls!TellAt
    BY <1>1, <1>3 DEF Calls!TellAt
  <2>2. \A i \in Calls!TellAt : lines'[i] = lines[i]
    BY <1>1 DEF Calls!TellAt
  <2> QED
    BY <2>1, <2>2 DEF Calls!ToldLast
<1>4. Calls!Range(lines)' = Calls!Range(lines) \cup {line}
  BY <1>1 DEF Calls!Range
<1>5. Calls!Tiers' # {} <=> Calls!Tiers # {} \/ line.tier # "none"
  BY <1>4 DEF Calls!Tiers
<1> QED
  BY <1>2, <1>3, <1>5

\* What the buffer makes of a line.
LEMMA ObserveTells ==
  ASSUME NEW buf \in [tokens : Nat, tier : {"none", "t"}, seen : BOOLEAN], NEW line \in Calls!Lines,
         NEW new, new = Calls!Observe(buf, line)
  PROVE  /\ new \in [tokens : Nat, tier : {"none", "t"}, seen : BOOLEAN]
         /\ new.tokens = IF Calls!TellsTokens(line) THEN line.tokens ELSE buf.tokens
         /\ new.tier # "none" <=> buf.tier # "none" \/ line.tier # "none"
         /\ ~new.seen => new = buf
<1>1. line.tokens \in {-1, 0, 1, 2} /\ line.tier \in {"none", "t"}
  BY LineIs
<1>2. CASE line.tokens = -1 /\ ~(buf.tier = "none" /\ line.tier = "t")
  <2>1. new = buf
    BY <1>1, <1>2 DEF Calls!Observe, Calls!NoTokens
  <2>2. ~Calls!TellsTokens(line)
    BY <1>2 DEF Calls!TellsTokens
  <2> QED
    BY <1>1, <1>2, <2>1, <2>2
<1>3. CASE line.tokens \in {-1, 0} /\ line.tier = "t" /\ (line.tokens = -1 => buf.tier = "none")
  <2>1. new = [buf EXCEPT !.tier = "t", !.seen = TRUE]
    <3>1. CASE line.tokens = -1
      BY <1>3, <3>1 DEF Calls!Observe, Calls!NoTokens
    <3>2. CASE line.tokens = 0
      BY <1>3, <3>2 DEF Calls!Observe, Calls!NoTokens
    <3> QED
      BY <1>3, <3>1, <3>2
  <2>2. ~Calls!TellsTokens(line)
    BY <1>3 DEF Calls!TellsTokens
  <2> QED
    BY <1>3, <2>1, <2>2
<1>4. CASE line.tokens \in {1, 2} \/ (line.tokens = 0 /\ line.tier = "none")
  <2>1. new = [tokens |-> line.tokens, seen |-> TRUE,
               tier |-> IF line.tier = "none" THEN buf.tier ELSE line.tier]
    <3>1. CASE line.tier = "none"
      BY <1>4, <3>1 DEF Calls!Observe, Calls!NoTokens
    <3>2. CASE line.tier # "none"
      <4>1. line.tokens # -1 /\ line.tokens > 0
        BY <1>4, <3>2
      <4> QED
        BY <1>1, <3>2, <4>1 DEF Calls!Observe, Calls!NoTokens
    <3> QED
      BY <3>1, <3>2
  <2>2. Calls!TellsTokens(line)
    BY <1>4 DEF Calls!TellsTokens
  <2> QED
    BY <1>1, <1>4, <2>1, <2>2
<1> QED
  BY <1>1, <1>2, <1>3, <1>4

\* A call that ends before anything of its answer is handed over.
LEMMA CallEndsEarly ==
  ASSUME CallInv, Calls!Quiet, phase \in {"start", "answered"},
         phase' = "ended", result' \in {"ok", "error"}, body' \in {"none", "closed"},
         records' = <<>> \/ \E r \in CallRecords : records' = <<r>>,
         Calls!HasReporter /\ result' = "error" /\ records' = <<>> => Calls!HasLimit /\ body' = "none",
         Calls!HasReporter /\ result' = "ok" /\ how.executor = "compat" => records' # <<>>,
         how.mode \in Calls!Streams => result' = "error",
         ~Calls!HasReporter => records' = <<>>,
         \A r \in CallRecords : records' = <<r>> /\ r.failed => result' = "error"
  PROVE  CallInv'
<1>1. UNCHANGED <<how, buffer, chunks, offer, gone, lines>>
  BY DEF Calls!Quiet
<1>2. CallTyped'
  BY <1>1 DEF CallInv, CallTyped
<1>3. BufferTells'
  BY <1>1 DEF CallInv, BufferTells, CompatStream, Tells, Calls!ToldLast, Calls!TellAt, Calls!Tiers
<1>4. StreamHolds'
  BY <1>1 DEF StreamHolds
<1>5. EndIsRecorded'
  BY <1>1 DEF EndIsRecorded, CompatStream, Calls!HasReporter, Calls!HasLimit, Calls!Streams
<1>6. /\ (~Calls!HasReporter => records = <<>>)'
      /\ (\A r \in CallRecords : records = <<r>> /\ r.failed => Announced)'
  BY <1>1 DEF Calls!HasReporter, Announced
<1> QED
  BY <1>2, <1>3, <1>4, <1>5, <1>6 DEF CallInv

LEMMA HowIs ==
  ASSUME how \in Calls!Hows
  PROVE  /\ how.executor \in {"claude", "compat"}
         /\ how.mode \in {"unary", "stream", "images", "image_stream", "count"}
         /\ how.translated \in BOOLEAN
         /\ how.mode \in {"images", "image_stream"} => how.executor = "compat"
BY DEF Calls!Hows, Calls!Executors, Calls!Modes

LEMMA EarlySteps ==
  ASSUME CallInv,
         \/ Calls!LimitReached \/ Calls!RequestFails \/ Calls!CountLocally \/ Calls!ReadFails
         \/ \E notFound \in BOOLEAN : Calls!StatusFails(notFound)
         \/ \E line \in Calls!Lines, valid \in BOOLEAN : Calls!Completes(line, valid)
  PROVE  CallInv'
<1>1. /\ phase \in {"start", "answered"} => records = <<>> /\ result = "none"
      /\ phase = "start" => body = "none"
      /\ how \in Calls!Hows
  BY DEF CallInv, CallTyped, StreamHolds
<1> DEFINE Failed == Calls!Record(TRUE, Calls!NoUsage)
<1>2. /\ Failed \in CallRecords /\ <<Failed>> # <<>>
      /\ \A r \in CallRecords : <<r>> # <<>>
  BY RecordIs
<1>3. phase \in {"start", "answered"} => Calls!Reported(records) = IF Calls!HasReporter THEN <<Failed>> ELSE <<>>
  BY <1>1 DEF Calls!Reported, Calls!Failure, Calls!Published
<1> HIDE DEF Failed
<1>4. CASE Calls!LimitReached
  BY <1>1, <1>4, CallEndsEarly
     DEF Calls!LimitReached, Calls!Return, Calls!HasLimit, Calls!HasReporter
<1>5. CASE Calls!RequestFails
  BY <1>1, <1>2, <1>3, <1>5, CallEndsEarly DEF Calls!RequestFails, Calls!Return
<1>6. CASE Calls!CountLocally
  BY <1>1, <1>6, CallEndsEarly DEF Calls!CountLocally, Calls!Return, Calls!HasReporter, Calls!Streams
<1>7. CASE Calls!ReadFails
  BY <1>1, <1>2, <1>3, <1>7, CallEndsEarly DEF Calls!ReadFails, Calls!Return
<1>8. ASSUME NEW notFound \in BOOLEAN, Calls!StatusFails(notFound) PROVE CallInv'
  <2>1. CASE notFound /\ how.mode = "count"
    BY <1>1, <1>8, <2>1, CallEndsEarly DEF Calls!StatusFails, Calls!Return, Calls!HasReporter, Calls!Streams
  <2>2. CASE ~(notFound /\ how.mode = "count")
    BY <1>1, <1>2, <1>3, <1>8, <2>2, CallEndsEarly DEF Calls!StatusFails, Calls!Return
  <2> QED
    BY <2>1, <2>2
<1>9. ASSUME NEW line \in Calls!Lines, NEW valid \in BOOLEAN, Calls!Completes(line, valid)
      PROVE  CallInv'
  <2>1. phase = "answered" /\ how.mode \notin Calls!Streams /\ Calls!Quiet /\ body' = "closed"
    BY <1>9 DEF Calls!Completes
  <2>2. CASE ~valid
    <3>1. records' = <<Failed>> /\ result' = "error" /\ phase' = "ended" /\ Calls!HasReporter
      <4>1. Calls!Failure(records) = <<Failed>>
        BY <1>1, <2>1 DEF Calls!Failure, Calls!Published, Failed
      <4>2. how.mode # "count"
        BY <1>9, <2>2 DEF Calls!Completes
      <4>3. records' = Calls!Failure(records) /\ Calls!Return("error")
        BY <1>9, <2>2 DEF Calls!Completes
      <4> QED
        BY <4>1, <4>2, <4>3 DEF Calls!Return, Calls!HasReporter
    <3> QED
      BY <1>2, <2>1, <3>1, CallEndsEarly
  <2>3. CASE valid /\ how.mode = "count"
    BY <1>1, <1>9, <2>1, <2>3, CallEndsEarly DEF Calls!Completes, Calls!Return, Calls!HasReporter
  <2>4. CASE valid /\ how.mode # "count"
    <3> DEFINE usage == [tokens |-> IF line.tokens = Calls!NoTokens THEN 0 ELSE line.tokens,
                         tier |-> line.tier, seen |-> TRUE]
               told == IF how.executor = "claude" THEN [usage EXCEPT !.tier = "none"] ELSE usage
               new == Calls!Record(FALSE, told)
    <3>1. /\ phase' = "ended" /\ result' = "ok"
          /\ \/ how.executor = "claude" /\ records' = <<>>
             \/ records' = <<new>>
      BY <1>1, <1>9, <2>1, <2>4 DEF Calls!Completes, Calls!Return, Calls!Published
    <3>2. new \in CallRecords /\ ~new.failed
      <4>1. usage.tokens \in Nat /\ usage.tier \in {"none", "t"}
        BY LineIs DEF Calls!NoTokens
      <4>2. told.tokens \in Nat /\ told.tier \in {"none", "t"}
        BY <4>1
      <4> HIDE DEF told
      <4> QED
        BY <4>2 DEF Calls!Record, CallRecords
    <3> HIDE DEF new
    <3>3. Calls!HasReporter
      BY <2>4 DEF Calls!HasReporter
    <3>4. CASE records' = <<>>
      BY <1>1, <2>1, <3>1, <3>3, <3>4, CallEndsEarly, <1>2
    <3>5. CASE records' = <<new>>
      <4>1. \A r \in CallRecords : <<new>> = <<r>> => r = new
        OBVIOUS
      <4> QED
        BY <1>1, <1>2, <2>1, <3>1, <3>2, <3>3, <3>5, <4>1, CallEndsEarly
    <3> QED
      BY <3>1, <3>4, <3>5
  <2> QED
    BY <2>2, <2>3, <2>4
<1> QED
  BY <1>4, <1>5, <1>6, <1>7, <1>8, <1>9

\* The stages between: an answer, a stream that opens, a reader that leaves.
LEMMA PassingSteps ==
  ASSUME CallInv, Calls!Answered \/ Calls!StreamOpens \/ Calls!Leave
  PROVE  CallInv'
<1>1. UNCHANGED <<how, buffer, records, lines, chunks, offer>>
  BY DEF Calls!Answered, Calls!StreamOpens, Calls!Leave, Calls!Quiet
<1>2. BufferTells'
  BY <1>1 DEF CallInv, BufferTells, CompatStream, Tells, Calls!ToldLast, Calls!TellAt, Calls!Tiers
<1>3. (~Calls!HasReporter => records = <<>>)'
  BY <1>1 DEF CallInv, Calls!HasReporter
<1>4. CASE Calls!Answered \/ Calls!StreamOpens
  <2>1. /\ phase \in {"start", "answered"} /\ phase' \in {"answered", "lines"} /\ gone' = gone
        /\ body' \in {"none", "open", "closed"} /\ result' \in {"none", "ok"}
        /\ phase' = "answered" => result' = result
        /\ phase' = "lines" => result' = "ok" /\ how.mode \in Calls!Streams
    <3>1. body \in {"none", "open", "closed"} /\ result \in {"none", "ok", "error"}
          /\ (phase = "start" => result = "none")
      BY DEF CallInv, CallTyped, StreamHolds
    <3>2. CASE Calls!Answered
      BY <3>1, <3>2 DEF Calls!Answered, Calls!Quiet
    <3>3. CASE Calls!StreamOpens
      BY <3>1, <3>3 DEF Calls!StreamOpens, Calls!Quiet
    <3> QED
      BY <1>4, <3>2, <3>3
  <2>2. records = <<>> /\ result = "none"
    BY <2>1 DEF CallInv, StreamHolds
  <2>3. \A r \in CallRecords : records' # <<r>>
    BY <1>1, <2>2
  <2>4. CallTyped'
    BY <1>1, <2>1 DEF CallInv, CallTyped
  <2>5. StreamHolds'
    BY <1>1, <2>1, <2>2, <2>3 DEF StreamHolds
  <2>6. EndIsRecorded'
    BY <2>1 DEF EndIsRecorded
  <2> QED
    BY <1>2, <1>3, <2>3, <2>4, <2>5, <2>6 DEF CallInv
<1>5. CASE Calls!Leave
  <2>1. UNCHANGED <<phase, body, result>> /\ gone' \in BOOLEAN /\ phase # "ended"
    BY <1>5 DEF Calls!Leave
  <2>2. CallTyped'
    BY <1>1, <2>1 DEF CallInv, CallTyped
  <2>3. StreamHolds' /\ EndIsRecorded'
    BY <1>1, <2>1 DEF CallInv, StreamHolds, EndIsRecorded, CompatStream
  <2>4. (\A r \in CallRecords : records = <<r>> /\ r.failed => Announced)'
    BY <1>1, <1>5, <2>1 DEF CallInv, Announced, Calls!Leave
  <2> QED
    BY <1>2, <1>3, <2>2, <2>3, <2>4 DEF CallInv
<1> QED
  BY <1>4, <1>5

\* The end of a stream's goroutine, with what its deferred calls publish.
LEMMA ClosedIs ==
  ASSUME CallInv, phase \in {"lines", "handing"}, NEW recs,
         recs = <<>> \/ \E r \in CallRecords : recs = <<r>>,
         Calls!Closed(recs)
  PROVE  /\ body' = "closed" /\ phase' = "ended"
         /\ records' = <<>> \/ \E r \in CallRecords : records' = <<r>>
         /\ how.mode = "image_stream" \/ (CompatStream /\ buffer.seen) => records' # <<>>
         /\ recs # <<>> => records' = recs
         /\ recs = <<>> => \A r \in CallRecords : records' = <<r>> => ~r.failed
         /\ recs = <<>> /\ CompatStream =>
               \A r \in CallRecords : records' = <<r>> => r.tokens = buffer.tokens /\ r.tier = buffer.tier
<1>1. /\ how.mode \in {"stream", "image_stream"} /\ how.executor \in {"claude", "compat"}
      /\ buffer \in [tokens : Nat, tier : {"none", "t"}, seen : BOOLEAN]
  BY HowIs DEF CallInv, CallTyped, StreamHolds, Calls!Streams
<1> DEFINE none == Calls!Record(FALSE, Calls!NoUsage)
           said == Calls!Record(FALSE, buffer)
<1>2. /\ none \in CallRecords /\ said \in CallRecords /\ ~none.failed /\ ~said.failed
      /\ said.tokens = buffer.tokens /\ said.tier = buffer.tier
  BY <1>1 DEF Calls!Record, Calls!NoUsage, CallRecords
<1>3. /\ body' = "closed" /\ phase' = "ended"
      /\ \/ how.mode = "image_stream" /\ records' = IF recs = <<>> THEN <<none>> ELSE recs
         \/ /\ CompatStream
            /\ records' = IF buffer.seen /\ recs = <<>> THEN <<said>> ELSE recs
         \/ how.mode = "stream" /\ how.executor = "claude" /\ records' = recs
  BY <1>1 DEF Calls!Closed, Calls!EnsurePublished, Calls!PublishBuffer, Calls!Published, CompatStream
<1>4. \A r, q \in CallRecords : <<r>> # <<>> /\ (<<r>> = <<q>> => r = q)
  OBVIOUS
<1> HIDE DEF none, said
<1>5. how.mode = "image_stream" => ~CompatStream
  BY DEF CompatStream
<1> QED
  BY <1>2, <1>3, <1>4, <1>5 DEF CompatStream

\* What holds of a stream underway.
LEMMA UnderWay ==
  ASSUME CallInv, phase \in {"lines", "handing"}
  PROVE  /\ how.mode \in {"stream", "image_stream"} /\ how.executor \in {"claude", "compat"}
         /\ how.mode = "image_stream" => how.executor = "compat"
         /\ result = "ok" /\ Calls!HasReporter
         /\ buffer \in [tokens : Nat, tier : {"none", "t"}, seen : BOOLEAN]
         /\ records = <<>> \/ \E r \in CallRecords : records = <<r>>
         /\ chunks \in Seq({"data", "error"})
         /\ offer \in [left : {<<>>, <<"data">>, <<"error">>}, then : {"lines", "return", "done", "fail"}]
         /\ CompatStream => Tells(buffer) /\ (~buffer.seen => buffer.tokens = 0 /\ buffer.tier = "none")
         /\ \A r \in CallRecords : records = <<r>> /\ r.failed => Announced
         /\ CompatStream => \A r \in CallRecords : records = <<r>> => r.failed
         /\ how.executor = "compat" /\ phase = "handing" /\ offer.then = "return" => records # <<>>
BY HowIs DEF CallInv, CallTyped, StreamHolds, BufferTells, CompatStream, Calls!Streams, Calls!HasReporter

LEMMA StreamEnds ==
  ASSUME CallInv, phase \in {"lines", "handing"}, NEW recs, Calls!Closed(recs),
         UNCHANGED <<how, buffer, chunks, gone, lines, result>>, offer' = Calls!NoOffer,
         recs = <<>> \/ \E r \in CallRecords : recs = <<r>>,
         records # <<>> => recs = records,
         records = <<>> => \A r \in CallRecords : recs = <<r>> => ~r.failed /\ (CompatStream => Tells(r)),
         CompatStream /\ ~gone => recs # <<>>,
         \A r \in CallRecords : records = <<r>> /\ r.failed => gone \/ Calls!Last(chunks) = "error"
  PROVE  CallInv'
<1>1. /\ result = "ok" /\ Calls!HasReporter /\ how.mode # "count"
      /\ how.executor = "compat" => CompatStream \/ how.mode = "image_stream"
  BY UnderWay DEF CompatStream
<1>2. /\ body' = "closed" /\ phase' = "ended"
      /\ records' = <<>> \/ \E r \in CallRecords : records' = <<r>>
      /\ how.mode = "image_stream" \/ (CompatStream /\ buffer.seen) => records' # <<>>
      /\ recs # <<>> => records' = recs
      /\ recs = <<>> => \A r \in CallRecords : records' = <<r>> => ~r.failed
      /\ recs = <<>> /\ CompatStream =>
            \A r \in CallRecords : records' = <<r>> => r.tokens = buffer.tokens /\ r.tier = buffer.tier
  BY ClosedIs
<1>3. \A r \in CallRecords : <<r>> # <<>>
  OBVIOUS
<1>4. CallTyped'
  <2>1. offer' \in [left : {<<>>, <<"data">>, <<"error">>}, then : {"lines", "return", "done", "fail"}]
    BY DEF Calls!NoOffer
  <2> QED
    BY <1>2, <2>1 DEF CallInv, CallTyped
<1>5. BufferTells'
  BY DEF CallInv, BufferTells, CompatStream, Tells, Calls!ToldLast, Calls!TellAt, Calls!Tiers
<1>6. StreamHolds'
  BY <1>1, <1>2 DEF StreamHolds
<1>7. ASSUME CompatStream, NEW r \in CallRecords, records' = <<r>>, ~r.failed PROVE Tells(r)
  <2>1. CASE recs = <<>>
    <3>1. r.tokens = buffer.tokens /\ r.tier = buffer.tier /\ Tells(buffer)
      BY <1>2, <1>7, <2>1, UnderWay
    <3> QED
      BY <3>1 DEF Tells
  <2>2. CASE recs # <<>> /\ records = <<>>
    BY <1>2, <1>7, <2>2
  <2>3. CASE recs # <<>> /\ records # <<>>
    <3>1. records = <<r>>
      BY <1>2, <1>7, <2>3
    <3> QED
      BY <1>7, <3>1, UnderWay
  <2> QED
    BY <2>1, <2>2, <2>3
<1>8. EndIsRecorded'
  <2>1. (Tells(buffer) <=> Tells(buffer)') /\ \A r \in CallRecords : Tells(r) => Tells(r)'
    BY DEF Tells, Calls!ToldLast, Calls!TellAt, Calls!Tiers
  <2>2. how.executor = "compat" /\ ~gone => records' # <<>>
    BY <1>1, <1>2
  <2> QED
    BY <1>1, <1>2, <1>7, <2>1, <2>2 DEF EndIsRecorded, CompatStream
<1>9. (~Calls!HasReporter => records = <<>>)'
  BY <1>1 DEF Calls!HasReporter
<1>10. (\A r \in CallRecords : records = <<r>> /\ r.failed => Announced)'
  <2>1. ASSUME NEW r \in CallRecords, records' = <<r>>, r.failed PROVE records = <<r>>
    BY <1>2, <2>1
  <2> QED
    BY <1>2, <2>1 DEF Announced
<1> QED
  BY <1>4, <1>5, <1>6, <1>8, <1>9, <1>10 DEF CallInv

LEMMA HandedStep ==
  ASSUME CallInv, Calls!Handed
  PROVE  CallInv'
<1>1. /\ phase = "handing" /\ offer.left = <<>> /\ offer' = Calls!NoOffer
      /\ offer.then # "fail"
      /\ UNCHANGED <<how, buffer, chunks, gone, lines, result>>
  BY DEF Calls!Handed
<1>2. /\ how.mode \in {"stream", "image_stream"} /\ how.executor \in {"claude", "compat"}
      /\ how.mode = "image_stream" => how.executor = "compat"
      /\ result = "ok" /\ Calls!HasReporter
      /\ buffer \in [tokens : Nat, tier : {"none", "t"}, seen : BOOLEAN]
      /\ records = <<>> \/ \E r \in CallRecords : records = <<r>>
      /\ offer.then \in {"lines", "return", "done"}
      /\ CompatStream => Tells(buffer) /\ (~buffer.seen => buffer.tokens = 0 /\ buffer.tier = "none")
      /\ \A r \in CallRecords : records = <<r>> /\ r.failed => Announced
      /\ how.executor = "compat" /\ offer.then = "return" => records # <<>>
  BY <1>1, UnderWay
<1>3. ASSUME NEW r \in CallRecords, records = <<r>>, r.failed
      PROVE  offer.then # "lines" /\ (gone \/ Calls!Last(chunks) = "error")
  BY <1>1, <1>2, <1>3 DEF Announced
<1>4. CASE offer.then = "lines"
  <2>1. phase' = "lines" /\ UNCHANGED <<body, records>>
    BY <1>4 DEF Calls!Handed
  <2>2. CallTyped'
    BY <1>1, <2>1 DEF CallInv, CallTyped, Calls!NoOffer
  <2>3. BufferTells'
    BY <1>1 DEF CallInv, BufferTells, CompatStream, Tells, Calls!ToldLast, Calls!TellAt, Calls!Tiers
  <2>4. StreamHolds'
    BY <1>1, <2>1 DEF CallInv, StreamHolds, CompatStream
  <2>5. EndIsRecorded' /\ (~Calls!HasReporter => records = <<>>)'
    BY <1>1, <2>1 DEF CallInv, EndIsRecorded, Calls!HasReporter
  <2>6. (\A r \in CallRecords : records = <<r>> /\ r.failed => Announced)'
    BY <1>3, <1>4, <2>1
  <2> QED
    BY <2>2, <2>3, <2>4, <2>5, <2>6 DEF CallInv
<1>5. CASE offer.then = "return" \/ (offer.then = "done" /\ ~CompatStream)
  <2>1. Calls!Closed(records)
    BY <1>5 DEF Calls!Handed, CompatStream
  <2>2. CompatStream => records # <<>>
    BY <1>2, <1>5 DEF CompatStream
  <2> QED
    BY <1>1, <1>2, <1>3, <2>1, <2>2, StreamEnds
<1>6. CASE offer.then = "done" /\ CompatStream
  <2> DEFINE said == Calls!Record(FALSE, buffer)
             none == Calls!Record(FALSE, Calls!NoUsage)
             recs == Calls!EnsurePublished(Calls!PublishBuffer(records, buffer))
  <2>1. Calls!Closed(recs)
    BY <1>6 DEF Calls!Handed, CompatStream
  <2>2. /\ said \in CallRecords /\ none \in CallRecords /\ ~said.failed /\ ~none.failed
        /\ said.tokens = buffer.tokens /\ said.tier = buffer.tier
        /\ none.tokens = 0 /\ none.tier = "none"
    BY <1>2 DEF Calls!Record, Calls!NoUsage, CallRecords
  <2>3. recs = IF records # <<>> THEN records ELSE IF buffer.seen THEN <<said>> ELSE <<none>>
    BY <1>2 DEF Calls!EnsurePublished, Calls!PublishBuffer, Calls!Published
  <2>4. Tells(said) /\ (~buffer.seen => Tells(none))
    BY <1>2, <1>6, <2>2 DEF Tells
  <2>5. \A r, q \in CallRecords : <<r>> # <<>> /\ (<<r>> = <<q>> => r = q)
    OBVIOUS
  <2> HIDE DEF recs, said, none
  <2>6. /\ recs = <<>> \/ \E r \in CallRecords : recs = <<r>>
        /\ recs # <<>>
        /\ records # <<>> => recs = records
        /\ records = <<>> => \A r \in CallRecords : recs = <<r>> => ~r.failed /\ Tells(r)
    BY <1>2, <2>2, <2>3, <2>4, <2>5
  <2> QED
    BY <1>1, <1>3, <2>1, <2>6, StreamEnds
<1> QED
  BY <1>2, <1>4, <1>5, <1>6

LEMMA OneChunk ==
  ASSUME NEW x
  PROVE  <<x>> # <<>> /\ Head(<<x>>) = x /\ Tail(<<x>>) = <<>>
OBVIOUS

LEMMA LastOfAppend ==
  ASSUME NEW S, NEW s \in Seq(S), NEW x \in S
  PROVE  Append(s, x) \in Seq(S) /\ Calls!Last(Append(s, x)) = x
BY AppendProperties DEF Calls!Last

\* While a chunk is on offer the stream stays underway.
LEMMA StaysUnderWay ==
  ASSUME CallInv, phase \in {"lines", "handing"}, phase' = "handing",
         UNCHANGED <<how, body, gone, result>>, CallTyped', BufferTells',
         records # <<>> => records' = records,
         records = <<>> => \A r \in CallRecords : records' = <<r>> /\ CompatStream => r.failed,
         how.executor = "compat" /\ offer'.then = "return" => records' # <<>>,
         \A r \in CallRecords : records' = <<r>> /\ r.failed => Announced'
  PROVE  CallInv'
<1>1. /\ how.mode \in {"stream", "image_stream"} /\ result = "ok" /\ Calls!HasReporter
      /\ CompatStream => \A r \in CallRecords : records = <<r>> => r.failed
  BY UnderWay
<1>2. StreamHolds'
  BY <1>1 DEF StreamHolds, CompatStream, Calls!Streams
<1>3. EndIsRecorded' /\ (~Calls!HasReporter => records = <<>>)'
  BY <1>1 DEF EndIsRecorded, Calls!HasReporter
<1> QED
  BY <1>2, <1>3 DEF CallInv

LEMMA OfferSteps ==
  ASSUME CallInv, Calls!Receive \/ Calls!GiveUp
  PROVE  CallInv'
<1>1. /\ phase = "handing" /\ offer.left # <<>>
      /\ UNCHANGED <<how, buffer, gone, lines, result>>
  BY DEF Calls!Receive, Calls!GiveUp
<1>2. /\ offer \in [left : {<<>>, <<"data">>, <<"error">>}, then : {"lines", "return", "done", "fail"}]
      /\ chunks \in Seq({"data", "error"})
      /\ records = <<>> \/ \E r \in CallRecords : records = <<r>>
      /\ CompatStream => \A r \in CallRecords : records = <<r>> => r.failed
      /\ \A r \in CallRecords : records = <<r>> /\ r.failed => Announced
      /\ how.executor = "compat" /\ offer.then = "return" => records # <<>>
  BY <1>1, UnderWay
<1>3. PICK x \in {"data", "error"} : offer.left = <<x>>
  BY <1>1, <1>2
<1>4. Head(offer.left) = x /\ Tail(offer.left) = <<>>
  BY <1>3, OneChunk
<1>5. ASSUME NEW r \in CallRecords, records = <<r>>, r.failed
      PROVE  offer.then # "lines" /\ x = "error"
  <2>1. offer.then # "lines" /\ offer.left = <<"error">>
    BY <1>1, <1>2, <1>5 DEF Announced
  <2> QED
    BY <1>3, <1>4, <2>1, OneChunk
<1>6. BufferTells'
  BY <1>1 DEF CallInv, BufferTells, CompatStream, Tells, Calls!ToldLast, Calls!TellAt, Calls!Tiers
\* The chunk is taken, or the error dropped.
<1>7. ASSUME UNCHANGED <<phase, body, records>>, offer' = [offer EXCEPT !.left = <<>>],
             chunks' \in Seq({"data", "error"}), gone \/ Calls!Last(chunks') = x
      PROVE  CallInv'
  <2>1. offer' \in [left : {<<>>, <<"data">>, <<"error">>}, then : {"lines", "return", "done", "fail"}]
        /\ offer'.then = offer.then /\ offer'.left = <<>>
    BY <1>2, <1>7
  <2>2. CallTyped'
    BY <1>1, <1>7, <2>1 DEF CallInv, CallTyped
  <2>3. ASSUME NEW r \in CallRecords, records' = <<r>>, r.failed PROVE Announced'
    <3>1. offer.then # "lines" /\ x = "error"
      BY <1>5, <1>7, <2>3
    <3> QED
      BY <1>1, <1>7, <2>1, <3>1 DEF Announced
  <2> QED
    BY <1>1, <1>2, <1>6, <1>7, <2>1, <2>2, <2>3, StaysUnderWay
<1>8. CASE Calls!Receive
  <2>1. chunks' \in Seq({"data", "error"}) /\ Calls!Last(chunks') = x
    BY <1>2, <1>4, <1>8, LastOfAppend DEF Calls!Receive
  <2>2. offer' = [offer EXCEPT !.left = <<>>] /\ UNCHANGED <<phase, body, records>>
    BY <1>4, <1>8 DEF Calls!Receive
  <2> QED
    BY <1>7, <2>1, <2>2
<1>9. CASE Calls!GiveUp
  <2>1. gone /\ UNCHANGED chunks
    BY <1>9 DEF Calls!GiveUp
  <2>2. CASE x = "error"
    <3>1. offer' = [offer EXCEPT !.left = <<>>] /\ UNCHANGED <<phase, body, records>>
      BY <1>4, <1>9, <2>2 DEF Calls!GiveUp
    <3> QED
      BY <1>2, <1>7, <2>1, <3>1
  <2>3. CASE x # "error"
    <3>1. offer' = Calls!NoOffer /\ Calls!Closed(records)
      BY <1>4, <1>9, <2>3 DEF Calls!GiveUp
    <3> QED
      BY <1>1, <1>2, <2>1, <3>1, StreamEnds
  <2> QED
    BY <2>2, <2>3
<1> QED
  BY <1>8, <1>9

\* What is handed over for a line or at the end: nothing or a chunk.
LEMMA OfferIs ==
  ASSUME NEW told \in 0..1
  PROVE  [i \in 1..told |-> "data"] \in {<<>>, <<"data">>}
<1>1. CASE told = 0
  BY <1>1
<1>2. CASE told = 1
  BY <1>2
<1> QED
  BY <1>1, <1>2

LEMMA FailureIs ==
  ASSUME records = <<>> \/ \E r \in CallRecords : records = <<r>>
  PROVE  /\ \E r \in CallRecords : Calls!Failure(records) = <<r>>
         /\ Calls!Failure(records) # <<>>
         /\ records # <<>> => Calls!Failure(records) = records
         /\ records = <<>> => \A r \in CallRecords : Calls!Failure(records) = <<r>> => r.failed
<1> DEFINE Failed == Calls!Record(TRUE, Calls!NoUsage)
<1>1. Failed \in CallRecords /\ Failed.failed
  BY RecordIs
<1>2. \A r, q \in CallRecords : <<r>> # <<>> /\ (<<r>> = <<q>> => r = q)
  OBVIOUS
<1>3. Calls!Failure(records) = IF records = <<>> THEN <<Failed>> ELSE records
  BY DEF Calls!Failure, Calls!Published
<1> HIDE DEF Failed
<1> QED
  BY <1>1, <1>2, <1>3

\* The failure goes on record with the error that is handed over.
LEMMA FailsStep ==
  ASSUME CallInv, phase \in {"lines", "handing"}, Calls!Fails,
         UNCHANGED <<how, body, buffer, chunks, gone, lines, result>>
  PROVE  CallInv'
<1>1. /\ records' = Calls!Failure(records) /\ phase' = "handing"
      /\ offer' = [left |-> <<"error">>, then |-> IF how.executor = "compat" THEN "done" ELSE "return"]
  BY DEF Calls!Fails, Calls!Hand
<1>2. records = <<>> \/ \E r \in CallRecords : records = <<r>>
  BY UnderWay
<1>3. BufferTells'
  BY DEF CallInv, BufferTells, CompatStream, Tells, Calls!ToldLast, Calls!TellAt, Calls!Tiers
<1>4. CallTyped'
  BY <1>1, <1>2, FailureIs DEF CallInv, CallTyped
<1>5. Announced'
  BY <1>1, OneChunk DEF Announced
<1> QED
  BY <1>1, <1>2, <1>3, <1>4, <1>5, FailureIs, StaysUnderWay

LEMMA UpstreamEnds ==
  ASSUME CallInv, Calls!Breaks \/ Calls!Flushed \/ \E told \in 0..1 : Calls!Ends(told)
  PROVE  CallInv'
<1>1. CASE Calls!Flushed
  BY <1>1, FailsStep DEF Calls!Flushed
<1>2. CASE Calls!Breaks /\ ~Calls!Unended
  BY <1>2, FailsStep DEF Calls!Breaks
\* A chunk or none is handed over, and nothing goes on record.
<1>3. ASSUME NEW left \in {<<>>, <<"data">>}, NEW then \in {"done", "fail"},
             phase = "lines", Calls!Hand(left, then),
             UNCHANGED <<how, body, buffer, records, chunks, gone, lines, result>>
      PROVE  CallInv'
  <2>1. phase' = "handing" /\ offer' = [left |-> left, then |-> then]
    BY <1>3 DEF Calls!Hand
  <2>2. \A r \in CallRecords : records' = <<r>> => ~r.failed
    BY <1>3, UnderWay DEF Announced
  <2>3. BufferTells'
    BY <1>3 DEF CallInv, BufferTells, CompatStream, Tells, Calls!ToldLast, Calls!TellAt, Calls!Tiers
  <2>4. CallTyped'
    BY <1>3, <2>1 DEF CallInv, CallTyped
  <2>5. offer'.then # "return"
    BY <2>1
  <2> QED
    BY <1>3, <2>1, <2>2, <2>3, <2>4, <2>5, StaysUnderWay
<1>4. CASE Calls!Breaks /\ Calls!Unended
  BY <1>3, <1>4 DEF Calls!Breaks
<1>5. ASSUME NEW told \in 0..1, Calls!Ends(told) PROVE CallInv'
  BY <1>3, <1>5, OfferIs DEF Calls!Ends
<1> QED
  BY <1>1, <1>2, <1>4, <1>5

LEMMA LineStep ==
  ASSUME CallInv, NEW line \in Calls!Lines, NEW told \in 0..1, Calls!ReadLine(line, told)
  PROVE  CallInv'
<1>1. /\ phase = "lines" /\ lines' = Append(lines, line) /\ lines \in Seq(Calls!Lines)
      /\ UNCHANGED <<how, body, chunks, gone, result>>
  BY DEF Calls!ReadLine, CallInv, CallTyped
<1>2. /\ how.mode \in {"stream", "image_stream"} /\ how.executor \in {"claude", "compat"}
      /\ how.mode = "image_stream" => how.executor = "compat"
      /\ buffer \in [tokens : Nat, tier : {"none", "t"}, seen : BOOLEAN]
      /\ records = <<>> \/ \E r \in CallRecords : records = <<r>>
      /\ \A r \in CallRecords : records = <<r>> => ~r.failed
      /\ CompatStream => records = <<>>
      /\ CompatStream => Tells(buffer) /\ (~buffer.seen => buffer.tokens = 0 /\ buffer.tier = "none")
  <2>1. \A r \in CallRecords : records = <<r>> => ~r.failed
    BY <1>1, UnderWay DEF Announced
  <2>2. CompatStream => records = <<>>
    BY <1>1, <2>1, UnderWay
  <2> QED
    BY <1>1, <2>1, <2>2, UnderWay
<1>3. lines' \in Seq(Calls!Lines)
  BY <1>1, AppendProperties
<1>4. line.tokens \in {-1, 0, 1, 2} /\ line.kind \in {"data", "blank", "bare"}
  BY LineIs
<1>5. \A r, q \in CallRecords : <<r>> # <<>> /\ (<<r>> = <<q>> => r = q)
  OBVIOUS
<1>6. CASE how.mode = "image_stream"
  <2>1. UNCHANGED <<records, buffer>> /\ phase' = "handing"
        /\ offer' = [left |-> <<"data">>, then |-> "lines"]
    BY <1>6 DEF Calls!ReadLine, Calls!ImageBytes, Calls!Hand
  <2>2. CallTyped'
    BY <1>1, <1>3, <2>1 DEF CallInv, CallTyped
  <2>3. BufferTells' /\ ~CompatStream
    BY <1>1, <1>6 DEF BufferTells, CompatStream
  <2> QED
    BY <1>1, <1>2, <2>1, <2>2, <2>3, StaysUnderWay
<1>7. CASE how.mode = "stream" /\ how.executor = "claude"
  <2> DEFINE said == Calls!Record(FALSE, [tokens |-> line.tokens, tier |-> "none"])
  <2>1. /\ UNCHANGED buffer /\ phase' = "handing"
        /\ records' = IF line.tokens # -1 THEN Calls!Published(records, said) ELSE records
        /\ offer'.left \in {<<>>, <<"data">>} /\ offer'.then = "lines"
        /\ offer' \in [left : {<<>>, <<"data">>, <<"error">>}, then : {"lines", "return", "done", "fail"}]
    <3>1. Calls!ClaudeLine(line, told)
      BY <1>7 DEF Calls!ReadLine
    <3>2. PICK left \in {<<>>, <<"data">>} : offer' = [left |-> left, then |-> "lines"]
      BY <3>1, OfferIs DEF Calls!ClaudeLine, Calls!Hand
    <3> QED
      BY <3>1, <3>2 DEF Calls!ClaudeLine, Calls!Hand, Calls!NoTokens
  <2>2. line.tokens # -1 => said \in CallRecords /\ ~said.failed
    BY <1>4 DEF Calls!Record, CallRecords
  <2> HIDE DEF said
  <2>3. /\ records' = <<>> \/ \E r \in CallRecords : records' = <<r>>
        /\ \A r \in CallRecords : records' = <<r>> => ~r.failed
        /\ records # <<>> => records' = records
    BY <1>2, <1>5, <2>1, <2>2 DEF Calls!Published
  <2>4. CallTyped'
    BY <1>1, <1>3, <2>1, <2>3 DEF CallInv, CallTyped
  <2>5. BufferTells' /\ ~CompatStream
    BY <1>1, <1>7 DEF BufferTells, CompatStream
  <2> QED
    BY <1>1, <1>7, <2>1, <2>3, <2>4, <2>5, StaysUnderWay
<1>8. CASE CompatStream
  <2> DEFINE new == Calls!Observe(buffer, line)
  <2>1. /\ buffer' = new /\ phase' = "handing"
        /\ \/ /\ line.kind = "bare" /\ records' = Calls!Failure(records)
              /\ offer' = [left |-> <<"error">>, then |-> "return"]
           \/ /\ UNCHANGED records /\ \E left \in {<<>>, <<"data">>} : offer' = [left |-> left, then |-> "lines"]
    <3>1. Calls!CompatLine(line, told)
      BY <1>8 DEF Calls!ReadLine, CompatStream
    <3> QED
      BY <3>1, OfferIs DEF Calls!CompatLine, Calls!Hand
  <2>2. /\ new \in [tokens : Nat, tier : {"none", "t"}, seen : BOOLEAN]
        /\ new.tokens = IF Calls!TellsTokens(line) THEN line.tokens ELSE buffer.tokens
        /\ new.tier # "none" <=> buffer.tier # "none" \/ line.tier # "none"
        /\ ~new.seen => new = buffer
    BY <1>2, ObserveTells
  <2> HIDE DEF new
  <2>3. BufferTells'
    <3>1. Tells(buffer) /\ (~buffer.seen => buffer.tokens = 0 /\ buffer.tier = "none")
      BY <1>2, <1>8
    <3>2. /\ Calls!TellsTokens(line) => Calls!ToldLast(line.tokens)'
          /\ ~Calls!TellsTokens(line) => \A n \in Nat : Calls!ToldLast(n) => Calls!ToldLast(n)'
          /\ Calls!Tiers' # {} <=> Calls!Tiers # {} \/ line.tier # "none"
      BY <1>1, LineTells
    <3>3. PICK n \in Nat : n = new.tokens
      BY <2>2
    <3>4. PICK m \in Nat : m = buffer.tokens
      BY <1>2
    <3>5. Calls!ToldLast(m)
      BY <3>1, <3>4 DEF Tells
    <3>6. Calls!ToldLast(n)'
      <4>1. CASE Calls!TellsTokens(line)
        <5>1. n = line.tokens
          BY <2>2, <3>3, <4>1
        <5> QED
          BY <3>2, <4>1, <5>1
      <4>2. CASE ~Calls!TellsTokens(line)
        <5>1. n = m
          BY <2>2, <3>3, <3>4, <4>2
        <5> QED
          BY <3>2, <3>5, <4>2, <5>1
      <4> QED
        BY <4>1, <4>2
    <3>7. new.tier # "none" <=> Calls!Tiers' # {}
      BY <2>2, <3>1, <3>2 DEF Tells
    <3>8. buffer'.tokens = n
      BY <2>1, <3>3
    <3>9. Calls!ToldLast(buffer.tokens)'
      BY <3>6, <3>8 DEF Calls!ToldLast
    <3>10. (buffer.tier # "none" <=> Calls!Tiers # {})'
      BY <2>1, <3>7
    <3>11. ~buffer'.seen => buffer'.tokens = 0 /\ buffer'.tier = "none"
      BY <2>1, <2>2, <3>1
    <3> QED
      BY <3>9, <3>10, <3>11 DEF BufferTells, Tells
  <2>4. CASE records' = Calls!Failure(records) /\ offer' = [left |-> <<"error">>, then |-> "return"]
    <3>1. CallTyped'
      BY <1>1, <1>2, <1>3, <2>1, <2>2, <2>4, FailureIs DEF CallInv, CallTyped
    <3>2. Announced'
      BY <2>1, <2>4, OneChunk DEF Announced
    <3> QED
      BY <1>1, <1>2, <2>1, <2>3, <2>4, <3>1, <3>2, FailureIs, StaysUnderWay
  <2>5. CASE UNCHANGED records /\ \E left \in {<<>>, <<"data">>} : offer' = [left |-> left, then |-> "lines"]
    <3>1. CallTyped'
      BY <1>1, <1>2, <1>3, <2>1, <2>2, <2>5 DEF CallInv, CallTyped
    <3>2. offer'.then = "lines" /\ records' = <<>>
      BY <1>2, <1>8, <2>5
    <3> QED
      BY <1>1, <1>2, <1>5, <1>8, <2>1, <2>3, <2>5, <3>1, <3>2, StaysUnderWay
  <2> QED
    BY <2>1, <2>4, <2>5
<1> QED
  BY <1>2, <1>6, <1>7, <1>8 DEF CompatStream

LEMMA CallStarts == Calls!Init => CallInv
<1> SUFFICES ASSUME Calls!Init PROVE CallInv
  OBVIOUS
<1>1. /\ how \in Calls!Hows /\ phase = "start" /\ body = "none" /\ buffer = Calls!NoUsage
      /\ records = <<>> /\ chunks = <<>> /\ offer = Calls!NoOffer /\ gone = FALSE
      /\ lines = <<>> /\ result = "none"
  BY DEF Calls!Init
<1>2. CallTyped
  <2>1. offer \in [left : {<<>>, <<"data">>, <<"error">>}, then : {"lines", "return", "done", "fail"}]
        /\ buffer \in [tokens : Nat, tier : {"none", "t"}, seen : BOOLEAN]
    BY <1>1 DEF Calls!NoOffer, Calls!NoUsage
  <2>2. lines \in Seq(Calls!Lines) /\ chunks \in Seq({"data", "error"})
    BY <1>1
  <2> QED
    BY <1>1, <2>1, <2>2 DEF CallTyped
<1>3. BufferTells
  <2>1. Calls!TellAt = {} /\ Calls!Tiers = {}
    BY <1>1 DEF Calls!TellAt, Calls!Tiers, Calls!Range
  <2> QED
    BY <1>1, <2>1 DEF BufferTells, Tells, Calls!ToldLast, Calls!NoUsage
<1>4. StreamHolds /\ EndIsRecorded
  BY <1>1 DEF StreamHolds, EndIsRecorded
<1>5. \A r \in CallRecords : records # <<r>>
  BY <1>1
<1> QED
  BY <1>1, <1>2, <1>3, <1>4, <1>5 DEF CallInv

LEMMA CallStep ==
  ASSUME CallInv, [Calls!Next]_(Calls!vars)
  PROVE  CallInv'
<1>1. CASE Calls!Next
  BY <1>1, EarlySteps, PassingSteps, HandedStep, OfferSteps, UpstreamEnds, LineStep DEF Calls!Next
<1>2. CASE UNCHANGED Calls!vars
  <2>1. UNCHANGED <<how, phase, body, buffer, records, chunks, offer, gone, lines, result>>
    BY <1>2 DEF Calls!vars
  <2>2. CallTyped' /\ StreamHolds'
    BY <2>1 DEF CallInv, CallTyped, StreamHolds, CompatStream
  <2>3. BufferTells'
    BY <2>1 DEF CallInv, BufferTells, CompatStream, Tells, Calls!ToldLast, Calls!TellAt, Calls!Tiers
  <2>4. \A r \in CallRecords : Tells(r) => Tells(r)'
    BY <2>1 DEF Tells, Calls!ToldLast, Calls!TellAt, Calls!Tiers
  <2>5. EndIsRecorded'
    BY <2>1, <2>4 DEF CallInv, EndIsRecorded, CompatStream, Calls!HasReporter, Calls!HasLimit
  <2>6. /\ (~Calls!HasReporter => records = <<>>)'
        /\ (\A r \in CallRecords : records = <<r>> /\ r.failed => Announced)'
    BY <2>1 DEF CallInv, Calls!HasReporter, Announced
  <2> QED
    BY <2>2, <2>3, <2>5, <2>6 DEF CallInv
<1> QED
  BY <1>1, <1>2

\* A call leaves one usage record at most, a failed one only when its failure is
\* returned, its error handed over or its reader gone; the connection is given
\* back; a completed call of the compatible executor is on record with the last
\* tokens and the tier its stream told (UsageReporter, StreamUsageBuffer).
THEOREM CallsAreRecorded == Calls!Spec => []CallIsRecorded
<1>1. Calls!Init => CallInv
  BY CallStarts
<1>2. CallInv /\ [Calls!Next]_(Calls!vars) => CallInv'
  BY CallStep
<1>3. CallInv => CallIsRecorded
  <2> SUFFICES ASSUME CallInv PROVE Calls!CallIsRecorded
    BY DEF CallIsRecorded
  <2>1. /\ records = <<>> \/ \E r \in CallRecords : records = <<r>>
        /\ phase = "ended" => body # "open"
        /\ ~Calls!HasReporter => records = <<>>
        /\ \A r \in CallRecords : records = <<r>> /\ r.failed => Announced
        /\ EndIsRecorded
    BY DEF CallInv, CallTyped, StreamHolds
  <2>2. CASE records = <<>>
    <3>1. Len(records) = 0 /\ Calls!Range(records) = {}
      BY <2>2 DEF Calls!Range
    <3> QED
      BY <2>1, <2>2, <3>1 DEF Calls!CallIsRecorded, Calls!Ended, EndIsRecorded
  <2>3. ASSUME NEW r \in CallRecords, records = <<r>> PROVE Calls!CallIsRecorded
    <3>1. Len(records) = 1 /\ records # <<>> /\ Calls!Range(records) = {r}
      BY <2>3 DEF Calls!Range
    <3>2. phase = "ended" /\ r.failed => gone \/ result = "error" \/ Calls!Last(chunks) = "error"
      BY <2>1, <2>3 DEF Announced
    <3>3. phase = "ended" /\ CompatStream /\ result = "ok" /\ ~r.failed => Tells(r)
      BY <2>1, <2>3 DEF EndIsRecorded
    <3> QED
      BY <2>1, <2>3, <3>1, <3>2, <3>3 DEF Calls!CallIsRecorded, Calls!Ended, CompatStream, Tells
  <2> QED
    BY <2>1, <2>2, <2>3
<1> QED
  BY <1>1, <1>2, <1>3, PTL DEF Calls!Spec

-----------------------------------------------------------------------------
(* A change of the configuration on its way to the credentials *)

Cfgs == [Ids -> Int]
Changes == [id : Ids, version : Int]

\* What the first n changes of a sequence leave a credential with.
PlacesTo(s, n, i) == {k \in 1..n : s[k].id = i}
WordTo(s, n, i, v) ==
    IF PlacesTo(s, n, i) = {} THEN v
    ELSE s[CHOOSE k \in PlacesTo(s, n, i) : \A j \in PlacesTo(s, n, i) : j <= k].version

\* No credential has two changes pending.
Distinct(s) == \A j, k \in 1..Len(s) : s[j].id = s[k].id => j = k

LEMMA WordIs ==
  ASSUME NEW s, NEW i, NEW v
  PROVE  Config!Word(s, i, v) = WordTo(s, Len(s), i, v)
BY DEF Config!Word, Config!Positions, WordTo, PlacesTo

LEMMA WordOfNone ==
  ASSUME NEW s, NEW i, NEW v
  PROVE  WordTo(s, 0, i, v) = v
<1>1. PlacesTo(s, 0, i) = {}
  BY DEF PlacesTo
<1> QED
  BY <1>1 DEF WordTo

\* Places have a greatest one.
LEMMA LastPlace ==
  ASSUME NEW s, NEW n \in Nat, NEW i, PlacesTo(s, n, i) # {}
  PROVE  LET last == CHOOSE k \in PlacesTo(s, n, i) : \A j \in PlacesTo(s, n, i) : j <= k IN
         last \in PlacesTo(s, n, i) /\ \A j \in PlacesTo(s, n, i) : j <= last
<1>1. PlacesTo(s, n, i) \in SUBSET (1..n) /\ IsFiniteSet(1..n)
  BY CountUpTo DEF PlacesTo
<1>2. PlacesTo(s, n, i) \in SUBSET Nat /\ IsFiniteSet(PlacesTo(s, n, i))
  BY <1>1, FS_Subset
<1>3. \E k \in PlacesTo(s, n, i) : \A j \in PlacesTo(s, n, i) : j <= k
  BY <1>2, GreatestOf
<1> QED
  BY <1>3

\* The last of the places determines the word.
LEMMA WordAt ==
  ASSUME NEW s, NEW n \in Nat, NEW i, NEW v, NEW k \in PlacesTo(s, n, i),
         \A j \in PlacesTo(s, n, i) : j <= k
  PROVE  WordTo(s, n, i, v) = s[k].version
<1> DEFINE last == CHOOSE m \in PlacesTo(s, n, i) : \A j \in PlacesTo(s, n, i) : j <= m
<1>1. last \in PlacesTo(s, n, i) /\ \A j \in PlacesTo(s, n, i) : j <= last
  BY LastPlace
<1>2. \A j \in PlacesTo(s, n, i) : j \in Nat
  BY DEF PlacesTo
<1>3. WordTo(s, n, i, v) = s[last].version
  BY DEF WordTo
<1> HIDE DEF last
<1>4. last = k
  BY <1>1, <1>2
<1> QED
  BY <1>3, <1>4

\* One more change.
LEMMA WordOfNext ==
  ASSUME NEW s, NEW n \in Nat, NEW i, NEW v
  PROVE  WordTo(s, n + 1, i, v) = IF s[n + 1].id = i THEN s[n + 1].version ELSE WordTo(s, n, i, v)
<1>1. CASE s[n + 1].id = i
  <2>1. n + 1 \in PlacesTo(s, n + 1, i) /\ \A j \in PlacesTo(s, n + 1, i) : j <= n + 1
    BY <1>1 DEF PlacesTo
  <2> QED
    BY <1>1, <2>1, WordAt
<1>2. CASE s[n + 1].id # i
  <2>1. PlacesTo(s, n + 1, i) = PlacesTo(s, n, i)
    BY <1>2 DEF PlacesTo
  <2>2. WordTo(s, n + 1, i, v) = WordTo(s, n, i, v)
    <3>1. CASE PlacesTo(s, n, i) = {}
      BY <2>1, <3>1 DEF WordTo
    <3>2. CASE PlacesTo(s, n, i) # {}
      <4>1. PICK k \in PlacesTo(s, n, i) : \A j \in PlacesTo(s, n, i) : j <= k
        BY <3>2, LastPlace
      <4>2. WordTo(s, n, i, v) = s[k].version
        BY <4>1, WordAt
      <4>3. n + 1 \in Nat /\ k \in PlacesTo(s, n + 1, i) /\ \A j \in PlacesTo(s, n + 1, i) : j <= k
        BY <2>1, <4>1
      <4>4. WordTo(s, n + 1, i, v) = s[k].version
        BY <4>3, WordAt
      <4> QED
        BY <4>2, <4>4
    <3> QED
      BY <3>1, <3>2
  <2> QED
    BY <1>2, <2>2
<1> QED
  BY <1>1, <1>2

\* Sequences that agree say the same.
LEMMA SameWord ==
  ASSUME NEW s, NEW t, NEW n \in Nat, NEW i, NEW v, \A k \in 1..n : s[k] = t[k]
  PROVE  WordTo(s, n, i, v) = WordTo(t, n, i, v)
<1>1. PlacesTo(s, n, i) = PlacesTo(t, n, i)
  BY DEF PlacesTo
<1>2. CASE PlacesTo(s, n, i) = {}
  BY <1>1, <1>2 DEF WordTo
<1>3. CASE PlacesTo(s, n, i) # {}
  <2> DEFINE last == CHOOSE k \in PlacesTo(s, n, i) : \A j \in PlacesTo(s, n, i) : j <= k
  <2>1. last \in PlacesTo(s, n, i)
    BY <1>3, LastPlace
  <2>2. s[last] = t[last]
    <3> HIDE DEF last
    <3> QED
      BY <2>1 DEF PlacesTo
  <2> QED
    BY <1>1, <1>3, <2>2 DEF WordTo
<1> QED
  BY <1>2, <1>3

LEMMA WordOfAppend ==
  ASSUME NEW s \in Seq(Changes), NEW u \in Changes, NEW i, NEW v
  PROVE  Config!Word(Append(s, u), i, v) = IF u.id = i THEN u.version ELSE Config!Word(s, i, v)
<1> DEFINE t == Append(s, u)
<1>1. Len(s) \in Nat /\ Len(t) = Len(s) + 1 /\ t[Len(s) + 1] = u
  BY AppendProperties, LenProperties
<1>2. \A k \in 1..Len(s) : t[k] = s[k]
  BY AppendProperties
<1> HIDE DEF t
<1>3. WordTo(t, Len(s), i, v) = WordTo(s, Len(s), i, v)
  BY <1>1, <1>2, SameWord
<1>4. WordTo(t, Len(s) + 1, i, v)
        = IF t[Len(s) + 1].id = i THEN t[Len(s) + 1].version ELSE WordTo(t, Len(s), i, v)
  BY <1>1, WordOfNext
<1>5. Config!Word(t, i, v) = WordTo(t, Len(t), i, v) /\ Config!Word(s, i, v) = WordTo(s, Len(s), i, v)
  BY WordIs
<1>6. Config!Word(t, i, v) = IF u.id = i THEN u.version ELSE Config!Word(s, i, v)
  BY <1>1, <1>3, <1>4, <1>5
<1> QED
  BY <1>6 DEF t

\* The first change of a sequence comes before the others.
LEMMA WordOfTail ==
  ASSUME NEW s \in Seq(Changes), s # <<>>, NEW i, NEW v
  PROVE  Config!Word(s, i, v)
           = Config!Word(Tail(s), i, IF Head(s).id = i THEN Head(s).version ELSE v)
<1> DEFINE t == Tail(s)
           first == IF Head(s).id = i THEN Head(s).version ELSE v
<1>1. Len(s) \in Nat /\ Len(t) \in Nat /\ Len(s) = Len(t) + 1
  BY HeadTailProperties, LenProperties, EmptySeq
<1>2. \A k \in 1..Len(t) : t[k] = s[k + 1]
  BY HeadTailProperties, LenProperties, EmptySeq
<1>3. first = IF s[1].id = i THEN s[1].version ELSE v
  BY HeadTailProperties
<1> DEFINE Agrees(n) == WordTo(s, n + 1, i, v) = WordTo(t, n, i, first)
           Broken == {n \in Nat : n <= Len(t) /\ ~Agrees(n)}
<1> HIDE DEF t, first
<1>4. Agrees(0)
  <2>1. 0 \in Nat /\ 0 + 1 = 1
    OBVIOUS
  <2>2. WordTo(s, 0 + 1, i, v) = IF s[0 + 1].id = i THEN s[0 + 1].version ELSE WordTo(s, 0, i, v)
    <3> HIDE DEF Agrees, Broken
    <3> QED
      BY <2>1, WordOfNext
  <2>3. WordTo(s, 0, i, v) = v /\ WordTo(t, 0, i, first) = first
    <3> HIDE DEF Agrees, Broken
    <3> QED
      BY WordOfNone
  <2> QED
    BY <1>3, <2>1, <2>2, <2>3
<1>5. ASSUME NEW n \in Nat, n + 1 <= Len(t), Agrees(n)
      PROVE  Agrees(n + 1)
  <2>1. WordTo(s, (n + 1) + 1, i, v)
          = IF s[(n + 1) + 1].id = i THEN s[(n + 1) + 1].version ELSE WordTo(s, n + 1, i, v)
    <3> HIDE DEF Agrees, Broken
    <3>1. n + 1 \in Nat
      OBVIOUS
    <3> QED
      BY <3>1, WordOfNext
  <2>2. WordTo(t, n + 1, i, first)
          = IF t[n + 1].id = i THEN t[n + 1].version ELSE WordTo(t, n, i, first)
    BY WordOfNext
  <2>3. t[n + 1] = s[(n + 1) + 1]
    BY <1>1, <1>2, <1>5
  <2> QED
    BY <1>5, <2>1, <2>2, <2>3
<1>6. Broken = {}
  <2> SUFFICES ASSUME Broken # {} PROVE FALSE
    OBVIOUS
  <2>1. PICK n \in Broken : \A m \in Broken : n <= m
    <3>1. Broken \in SUBSET Nat
      OBVIOUS
    <3> HIDE DEF Broken
    <3> QED
      BY <3>1, LeastOf
  <2>2. n \in Nat /\ n <= Len(t) /\ ~Agrees(n)
    BY <2>1
  <2> HIDE DEF Agrees
  <2>3. n # 0
    BY <1>4, <2>2
  <2>4. n - 1 \in Nat /\ n - 1 <= Len(t) /\ (n - 1) + 1 = n /\ ~(n <= n - 1)
    BY <1>1, <2>2, <2>3
  <2>5. n - 1 \notin Broken
    BY <2>1, <2>4
  <2>6. Agrees(n - 1)
    BY <2>4, <2>5
  <2>7. Agrees((n - 1) + 1)
    BY <1>5, <2>2, <2>4, <2>6
  <2> QED
    BY <2>2, <2>4, <2>7
<1>7. Agrees(Len(t))
  BY <1>1, <1>6
<1> QED
  BY <1>1, <1>7, WordIs DEF t, first

\* A change put in its place is the last of its credential; the others stay.
LEMMA WordOfPlaced ==
  ASSUME NEW s \in Seq(Changes), Distinct(s), NEW u \in Changes
  PROVE  /\ Config!Placed(s, u) \in Seq(Changes) /\ Distinct(Config!Placed(s, u))
         /\ \A i, v : Config!Word(Config!Placed(s, u), i, v)
                        = IF u.id = i THEN u.version ELSE Config!Word(s, i, v)
<1> DEFINE t == Config!Placed(s, u)
           P == Config!Positions(s, u.id)
<1>1. CASE P = {}
  <2>1. t = Append(s, u)
    BY <1>1 DEF Config!Placed
  <2>2. t \in Seq(Changes)
    BY <2>1, AppendProperties
  <2>3. \A i, v : Config!Word(t, i, v) = IF u.id = i THEN u.version ELSE Config!Word(s, i, v)
    BY <2>1, WordOfAppend
  <2>4. Len(s) \in Nat /\ Len(t) = Len(s) + 1 /\ t[Len(s) + 1] = u
    BY <2>1, AppendProperties, LenProperties
  <2>5. \A k \in 1..Len(s) : t[k] = s[k]
    BY <2>1, AppendProperties
  <2>6. \A k \in 1..Len(s) : s[k].id # u.id
    BY <1>1 DEF Config!Positions
  <2>7. Distinct(t)
    <3> HIDE DEF t
    <3> SUFFICES ASSUME NEW j \in 1..Len(t), NEW k \in 1..Len(t), t[j].id = t[k].id
                 PROVE  j = k
      BY DEF Distinct
    <3>1. (j \in 1..Len(s) \/ j = Len(s) + 1) /\ (k \in 1..Len(s) \/ k = Len(s) + 1)
      BY <2>4
    <3> QED
      BY <2>4, <2>5, <2>6, <3>1 DEF Distinct
  <2> QED
    BY <2>2, <2>3, <2>7
<1>2. CASE P # {}
  <2> DEFINE k == CHOOSE k \in P : TRUE
  <2>1. k \in P
    BY <1>2
  <2>2. t = [s EXCEPT ![k] = u]
    BY <1>2 DEF Config!Placed
  <2> HIDE DEF k, P, t
  <2>3. k \in 1..Len(s) /\ s[k].id = u.id
    BY <2>1 DEF P, Config!Positions
  <2>4. Len(s) \in Nat /\ DOMAIN s = 1..Len(s)
    BY LenProperties
  <2>5. t \in Seq(Changes) /\ Len(t) = Len(s)
    BY <2>2, <2>3, ExceptSeq
  <2>6. t[k] = u /\ \A j \in 1..Len(s) : j # k => t[j] = s[j]
    BY <2>2, <2>3, <2>4
  <2>7. \A j \in 1..Len(s) : t[j].id = s[j].id
    BY <2>3, <2>6
  <2>8. Distinct(t)
    BY <2>5, <2>7 DEF Distinct
  <2>9. ASSUME NEW i, NEW v
        PROVE  WordTo(t, Len(s), i, v) = IF u.id = i THEN u.version ELSE WordTo(s, Len(s), i, v)
    <3>1. PlacesTo(t, Len(s), i) = PlacesTo(s, Len(s), i)
      BY <2>7 DEF PlacesTo
    <3>2. CASE u.id = i
      <4>1. \A j \in PlacesTo(s, Len(s), i) : j = k
        BY <2>3, <3>2 DEF PlacesTo, Distinct
      <4>2. k \in PlacesTo(t, Len(s), i) /\ \A j \in PlacesTo(t, Len(s), i) : j <= k
        BY <2>3, <3>1, <3>2, <4>1 DEF PlacesTo
      <4>3. WordTo(t, Len(s), i, v) = t[k].version
        BY <2>4, <4>2, WordAt
      <4> QED
        BY <2>6, <3>2, <4>3
    <3>3. CASE u.id # i
      <4>1. k \notin PlacesTo(s, Len(s), i)
        BY <2>3, <3>3 DEF PlacesTo
      <4>2. CASE PlacesTo(s, Len(s), i) = {}
        BY <3>1, <3>3, <4>2 DEF WordTo
      <4>3. CASE PlacesTo(s, Len(s), i) # {}
        <5>1. PICK last \in PlacesTo(s, Len(s), i) : \A j \in PlacesTo(s, Len(s), i) : j <= last
          BY <2>4, <4>3, LastPlace
        <5>2. WordTo(s, Len(s), i, v) = s[last].version
          BY <2>4, <5>1, WordAt
        <5>3. WordTo(t, Len(s), i, v) = t[last].version
          BY <2>4, <3>1, <5>1, WordAt
        <5>4. t[last] = s[last]
          BY <2>6, <4>1, <5>1 DEF PlacesTo
        <5> QED
          BY <3>3, <5>2, <5>3, <5>4
      <4> QED
        BY <4>2, <4>3
    <3> QED
      BY <3>2, <3>3
  <2>10. \A i, v : Config!Word(t, i, v) = IF u.id = i THEN u.version ELSE Config!Word(s, i, v)
    BY <2>5, <2>9, WordIs
  <2> QED
    BY <2>5, <2>8, <2>10 DEF t
<1> QED
  BY <1>1, <1>2

\* The changes merged one after the other.
Merging(s, ups, n, a) == [m \in 0..n |-> IF m = 0 THEN s ELSE Config!Placed(a[m - 1], ups[m])]

LEMMA MergingExists ==
  ASSUME NEW s, NEW ups, NEW n \in Nat
  PROVE  \E a : a = Merging(s, ups, n, a)
<1> DEFINE Merges(m) == \E a : a = Merging(s, ups, m, a)
           Broken == {m \in Nat : ~Merges(m)}
<1>1. Merges(0)
  <2> DEFINE a == [m \in 0..0 |-> s]
  <2>1. a = Merging(s, ups, 0, a)
    BY DEF Merging
  <2> QED
    BY <2>1
<1>2. ASSUME NEW m \in Nat, Merges(m)
      PROVE  Merges(m + 1)
  <2>1. PICK a : a = Merging(s, ups, m, a)
    BY <1>2
  <2> DEFINE b == [k \in 0..(m + 1) |-> IF k = m + 1 THEN Config!Placed(a[m], ups[m + 1]) ELSE a[k]]
  <2>2. \A k \in 0..m : b[k] = a[k]
    OBVIOUS
  <2>3. \A k \in 0..m : a[k] = IF k = 0 THEN s ELSE Config!Placed(a[k - 1], ups[k])
    BY <2>1 DEF Merging
  <2>4. ASSUME NEW k \in 0..(m + 1)
        PROVE  b[k] = IF k = 0 THEN s ELSE Config!Placed(b[k - 1], ups[k])
    <3>1. CASE k = m + 1
      <4>1. k # 0 /\ k - 1 = m /\ m \in 0..m
        BY <3>1
      <4>2. b[k] = Config!Placed(a[m], ups[m + 1])
        BY <3>1
      <4>3. b[k - 1] = a[m]
        BY <2>2, <4>1
      <4> HIDE DEF b
      <4> QED
        BY <3>1, <4>1, <4>2, <4>3
    <3>2. CASE k # m + 1
      <4>1. k \in 0..m /\ b[k] = a[k]
        BY <2>2, <3>2
      <4>2. k # 0 => k - 1 \in 0..m /\ b[k - 1] = a[k - 1]
        BY <2>2, <4>1
      <4> HIDE DEF b
      <4> QED
        BY <2>3, <4>1, <4>2
    <3> QED
      BY <3>1, <3>2
  <2>5. b = [k \in 0..(m + 1) |-> b[k]]
    OBVIOUS
  <2> HIDE DEF b
  <2>6. b = Merging(s, ups, m + 1, b)
    BY <2>4, <2>5 DEF Merging
  <2> QED
    BY <2>6
<1>3. Broken = {}
  <2> SUFFICES ASSUME Broken # {} PROVE FALSE
    OBVIOUS
  <2>1. PICK m \in Broken : \A k \in Broken : m <= k
    <3>1. Broken \in SUBSET Nat
      OBVIOUS
    <3> HIDE DEF Broken
    <3> QED
      BY <3>1, LeastOf
  <2>2. m \in Nat /\ ~Merges(m)
    BY <2>1
  <2> HIDE DEF Merges
  <2>3. m # 0
    BY <1>1, <2>2
  <2>4. m - 1 \in Nat /\ (m - 1) + 1 = m /\ ~(m <= m - 1)
    BY <2>2, <2>3
  <2>5. Merges(m - 1)
    BY <2>1, <2>4
  <2> QED
    BY <1>2, <2>2, <2>4, <2>5
<1> QED
  BY <1>3

\* What is merged leads on from where the changes before it led.
LEMMA WordOfMerged ==
  ASSUME NEW s \in Seq(Changes), Distinct(s), NEW ups \in Seq(Changes)
  PROVE  /\ Config!Merged(s, ups) \in Seq(Changes) /\ Distinct(Config!Merged(s, ups))
         /\ \A i, v : Config!Word(Config!Merged(s, ups), i, v)
                        = Config!Word(ups, i, Config!Word(s, i, v))
<1> DEFINE a == CHOOSE f : f = Merging(s, ups, Len(ups), f)
<1>1. Config!Merged(s, ups) = a[Len(ups)]
  BY DEF Config!Merged, Merging
<1>2. Len(ups) \in Nat
  BY LenProperties
<1>3. a = Merging(s, ups, Len(ups), a)
  BY <1>2, MergingExists
<1> HIDE DEF a
<1>4. \A n \in 0..Len(ups) : a[n] = IF n = 0 THEN s ELSE Config!Placed(a[n - 1], ups[n])
  BY <1>3 DEF Merging
<1> DEFINE Leads(n) == /\ a[n] \in Seq(Changes) /\ Distinct(a[n])
                       /\ \A i, v : Config!Word(a[n], i, v) = WordTo(ups, n, i, Config!Word(s, i, v))
           Broken == {n \in Nat : n <= Len(ups) /\ ~Leads(n)}
<1>5. Leads(0)
  <2>1. a[0] = s
    BY <1>2, <1>4
  <2>2. \A i, v : WordTo(ups, 0, i, Config!Word(s, i, v)) = Config!Word(s, i, v)
    BY WordOfNone
  <2> QED
    BY <2>1, <2>2
<1>6. ASSUME NEW n \in Nat, n + 1 <= Len(ups), Leads(n)
      PROVE  Leads(n + 1)
  <2>1. n + 1 \in 1..Len(ups) /\ n + 1 # 0 /\ (n + 1) - 1 = n /\ n + 1 \in 0..Len(ups)
    BY <1>2, <1>6
  <2>2. a[n + 1] = Config!Placed(a[n], ups[n + 1])
    BY <1>4, <2>1
  <2>3. ups[n + 1] \in Changes
    BY <2>1, ElementOfSeq
  <2>4. /\ a[n + 1] \in Seq(Changes) /\ Distinct(a[n + 1])
        /\ \A i, v : Config!Word(a[n + 1], i, v)
                       = IF ups[n + 1].id = i THEN ups[n + 1].version ELSE Config!Word(a[n], i, v)
    BY <1>6, <2>2, <2>3, WordOfPlaced
  <2>5. ASSUME NEW i, NEW v
        PROVE  Config!Word(a[n + 1], i, v) = WordTo(ups, n + 1, i, Config!Word(s, i, v))
    <3>1. WordTo(ups, n + 1, i, Config!Word(s, i, v))
            = IF ups[n + 1].id = i THEN ups[n + 1].version
              ELSE WordTo(ups, n, i, Config!Word(s, i, v))
      <4> HIDE DEF Leads, Broken
      <4> QED
        BY WordOfNext
    <3>2. Config!Word(a[n], i, v) = WordTo(ups, n, i, Config!Word(s, i, v))
      BY <1>6
    <3> QED
      BY <2>4, <3>1, <3>2
  <2> QED
    BY <2>4, <2>5
<1>7. Broken = {}
  <2> SUFFICES ASSUME Broken # {} PROVE FALSE
    OBVIOUS
  <2>1. PICK n \in Broken : \A m \in Broken : n <= m
    <3>1. Broken \in SUBSET Nat
      OBVIOUS
    <3> HIDE DEF Broken
    <3> QED
      BY <3>1, LeastOf
  <2>2. n \in Nat /\ n <= Len(ups) /\ ~Leads(n)
    BY <2>1
  <2> HIDE DEF Leads
  <2>3. n # 0
    BY <1>5, <2>2
  <2>4. n - 1 \in Nat /\ n - 1 <= Len(ups) /\ (n - 1) + 1 = n /\ ~(n <= n - 1)
    BY <1>2, <2>2, <2>3
  <2>5. n - 1 \notin Broken
    BY <2>1, <2>4
  <2>6. Leads(n - 1)
    BY <2>4, <2>5
  <2> QED
    BY <1>6, <2>2, <2>4, <2>6
<1>8. Leads(Len(ups))
  BY <1>2, <1>7
<1> QED
  BY <1>1, <1>8, WordIs

\* The credentials that differ, and the change of each.
Differing(old, new) == {i \in Ids : old[i] # new[i]}
ChangesTo(old, new) == {Config!Change(i, new[i]) : i \in Differing(old, new)}

LEMMA ChangesAreFinite ==
  ASSUME NEW old, NEW new
  PROVE  IsFiniteSet(ChangesTo(old, new))
<1> DEFINE D == Differing(old, new)
           f == [i \in D |-> Config!Change(i, new[i])]
<1>1. IsFiniteSet(D)
  BY ConfigSound, FS_Subset DEF Differing
<1>2. f \in Surjection(D, ChangesTo(old, new))
  BY DEF ChangesTo, Surjection
<1> QED
  BY <1>1, <1>2, FS_Surjection

\* The differences in some order, each once.
LEMMA DiffIs ==
  ASSUME NEW old \in Cfgs, NEW new \in Cfgs
  PROVE  LET d == Config!Diff(old, new) T == ChangesTo(old, new) IN
         /\ d \in Seq(Changes)
         /\ \A k \in 1..Len(d) : d[k] \in T
         /\ \A u \in T : \E k \in 1..Len(d) : d[k] = u
<1> DEFINE T == ChangesTo(old, new)
           N == Cardinality(T)
           d == Config!Diff(old, new)
<1>1. IsFiniteSet(T) /\ N \in Nat /\ ExistsBijection(1..N, T)
  BY ChangesAreFinite, FS_CardinalityType
<1>2. \E f \in [1..N -> T] : Config!IsInjective(f)
  <2>1. PICK f \in [1..N -> T] : IsInjective(f)
    BY <1>1 DEF ExistsBijection, Bijection, Injection
  <2> QED
    BY <2>1 DEF IsInjective, Config!IsInjective
<1>3. d = CHOOSE f \in [1..N -> T] : Config!IsInjective(f)
  <2>1. Config!Cardinality(T) = Cardinality(T)
    BY DEF Config!Cardinality, Cardinality
  <2>2. d = Config!SetToSeq(T)
    BY DEF Config!Diff, ChangesTo, Differing
  <2> HIDE DEF T, d
  <2> QED
    BY <2>1, <2>2 DEF Config!SetToSeq, N
<1> HIDE DEF d
<1>4. d \in [1..N -> T] /\ Config!IsInjective(d)
  BY <1>2, <1>3
<1>5. d \in Injection(1..N, T)
  BY <1>4 DEF Injection, IsInjective, Config!IsInjective
<1>6. IsFiniteSet(1..N) /\ Cardinality(1..N) = N
  BY <1>1, CountUpTo
<1>7. d \in Surjection(1..N, T)
  <2> HIDE DEF T, N
  <2>1. Cardinality(1..N) = Cardinality(T)
    BY <1>6 DEF N
  <2> QED
    BY <1>1, <1>5, <2>1, FS_Injection
<1>8. T \subseteq Changes
  BY DEF ChangesTo, Differing, Config!Change, Changes, Cfgs
<1>9. d \in Seq(Changes) /\ Len(d) = N
  <2> HIDE DEF T, N
  <2>1. d \in [1..N -> Changes]
    BY <1>4, <1>8
  <2> QED
    BY <1>1, <2>1
<1>10. \A u \in T : \E k \in 1..N : d[k] = u
  BY <1>7 DEF Surjection
<1>11. \A k \in 1..N : d[k] \in T
  BY <1>4
<1> QED
  BY <1>9, <1>10, <1>11 DEF d

\* The differences lead from the old configuration to the new one.
LEMMA WordOfDiff ==
  ASSUME NEW old \in Cfgs, NEW new \in Cfgs, NEW i \in Ids
  PROVE  Config!Word(Config!Diff(old, new), i, old[i]) = new[i]
<1> DEFINE d == Config!Diff(old, new)
           T == ChangesTo(old, new)
<1>1. /\ d \in Seq(Changes)
      /\ \A k \in 1..Len(d) : d[k] \in T
      /\ \A u \in T : \E k \in 1..Len(d) : d[k] = u
  BY DiffIs
<1>2. \A u \in T : u.id \in Ids /\ u.version = new[u.id] /\ old[u.id] # new[u.id]
  BY DEF ChangesTo, Differing, Config!Change
<1>3. old[i] # new[i] => \E u \in T : u.id = i
  <2>1. old[i] # new[i] => Config!Change(i, new[i]) \in T
    BY DEF ChangesTo, Differing
  <2>2. Config!Change(i, new[i]).id = i
    BY DEF Config!Change
  <2> HIDE DEF T
  <2> QED
    BY <2>1, <2>2
<1> HIDE DEF d, T
<1>4. Len(d) \in Nat
  BY <1>1, LenProperties
<1>5. CASE PlacesTo(d, Len(d), i) = {}
  <2>1. WordTo(d, Len(d), i, old[i]) = old[i]
    BY <1>5 DEF WordTo
  <2>2. old[i] = new[i]
    BY <1>1, <1>3, <1>5 DEF PlacesTo
  <2> QED
    BY <2>1, <2>2, WordIs DEF d
<1>6. CASE PlacesTo(d, Len(d), i) # {}
  <2>1. PICK k \in PlacesTo(d, Len(d), i) : \A j \in PlacesTo(d, Len(d), i) : j <= k
    BY <1>4, <1>6, LastPlace
  <2>2. WordTo(d, Len(d), i, old[i]) = d[k].version
    BY <1>4, <2>1, WordAt
  <2>3. k \in 1..Len(d) /\ d[k].id = i
    BY <2>1 DEF PlacesTo
  <2>4. d[k].version = new[i]
    BY <1>1, <1>2, <2>3
  <2> QED
    BY <2>2, <2>4, WordIs DEF d
<1> QED
  BY <1>5, <1>6

-----------------------------------------------------------------------------
Stages == {"off", "read", "load", "clients", "apply", "snapshot", "diff", "enqueue", "final"}

ConfigTyped ==
    /\ disk \in Seq(Cfgs) /\ (~mgmt.saving => disk # <<>>)
    /\ mgmt \in [cfg : Cfgs, saving : BOOLEAN, edits : Int, gens : SUBSET Int, applied : Int]
    /\ watch \in [cfg : Cfgs, hash : Seq(Cfgs), current : Cfgs]
    /\ reload \in [Reloaders -> [pc : Stages, by : {"timer", "hook"}, gen : Int,
                                 seen : Seq(Cfgs), cfg : Cfgs, ups : Seq(Changes)]]
    /\ flow \in [pending : Seq(Changes), batch : Seq(Changes),
                 queue : Seq(Changes), todo : Seq(Changes)]
    /\ Distinct(flow.pending)
    /\ creds \in Cfgs
    /\ overlap \in BOOLEAN

Enqueues(r) == reload[r].pc = "enqueue"

\* Until two refreshes overtake each other, what is underway, and the
\* differences of the one refresh that has still to enqueue them, lead to what
\* the watcher knows.
Follows ==
    overlap = FALSE =>
      /\ \A r, q \in Reloaders : Enqueues(r) /\ Enqueues(q) => r = q
      /\ (\A r \in Reloaders : ~Enqueues(r)) =>
            \A i \in Ids : Config!Arriving(i) = watch.current[i]
      /\ \A r \in Reloaders : Enqueues(r) =>
            \A i \in Ids : Config!Word(reload[r].ups, i, Config!Arriving(i)) = watch.current[i]

ConfigInv == ConfigTyped /\ Follows

LEMMA ConfigStarts == Config!Init => ConfigInv
<1> SUFFICES ASSUME Config!Init PROVE ConfigInv
  OBVIOUS
<1>1. Config!NoConfig \in Cfgs /\ Config!Start \in Cfgs
  BY DEF Config!NoConfig, Config!Start, Cfgs
<1>2. <<Config!Start>> \in Seq(Cfgs) /\ <<Config!Start>> # <<>>
  BY <1>1
<1>3. Config!Off \in [pc : Stages, by : {"timer", "hook"}, gen : Int,
                      seen : Seq(Cfgs), cfg : Cfgs, ups : Seq(Changes)] /\ Config!Off.pc = "off"
  BY <1>1 DEF Config!Off, Config!Begun, Stages
<1>4. Distinct(<<>>)
  BY DEF Distinct
<1>5. ConfigTyped
  <2>1. disk \in Seq(Cfgs) /\ disk # <<>> /\ creds \in Cfgs /\ overlap \in BOOLEAN
    BY <1>1, <1>2 DEF Config!Init
  <2>2. mgmt \in [cfg : Cfgs, saving : BOOLEAN, edits : Int, gens : SUBSET Int, applied : Int]
    BY <1>1 DEF Config!Init
  <2>3. watch \in [cfg : Cfgs, hash : Seq(Cfgs), current : Cfgs]
    <3>1. <<>> \in Seq(Cfgs)
      OBVIOUS
    <3> HIDE DEF Cfgs
    <3> QED
      BY <1>1, <3>1 DEF Config!Init
  <2>4. reload \in [Reloaders -> [pc : Stages, by : {"timer", "hook"}, gen : Int,
                                  seen : Seq(Cfgs), cfg : Cfgs, ups : Seq(Changes)]]
    BY <1>3 DEF Config!Init
  <2>5. /\ flow \in [pending : Seq(Changes), batch : Seq(Changes),
                      queue : Seq(Changes), todo : Seq(Changes)]
        /\ Distinct(flow.pending)
    <3>1. <<>> \in Seq(Changes)
      OBVIOUS
    <3> QED
      BY <1>4, <3>1 DEF Config!Init
  <2> QED
    BY <2>1, <2>2, <2>3, <2>4, <2>5 DEF ConfigTyped
<1>6. \A i, v : Config!Word(<<>>, i, v) = v
  BY WordIs, WordOfNone
<1>7. \A i \in Ids : Config!Arriving(i) = watch.current[i]
  BY <1>6 DEF Config!Init, Config!Arriving
<1>8. \A r \in Reloaders : ~Enqueues(r)
  BY <1>3 DEF Config!Init, Enqueues
<1> QED
  BY <1>5, <1>7, <1>8 DEF ConfigInv, Follows

-----------------------------------------------------------------------------
\* The changes on their way, wherever they are.
Ahead(f, c, i) ==
    Config!Word(f.pending, i, Config!Word(f.batch, i,
        Config!Word(f.queue, i, Config!Word(f.todo, i, c[i]))))

Flows == [pending : Seq(Changes), batch : Seq(Changes), queue : Seq(Changes), todo : Seq(Changes)]

LEMMA NothingSaid ==
  ASSUME NEW i, NEW v
  PROVE  Config!Word(<<>>, i, v) = v
BY WordIs, WordOfNone

\* The dispatcher and the consumer take nothing away.
LEMMA DeliveryKeeps ==
  ASSUME ConfigTyped, Config!Delivery
  PROVE  /\ flow' \in Flows /\ Distinct(flow'.pending) /\ creds' \in Cfgs
         /\ \A i \in Ids : Ahead(flow', creds', i) = Ahead(flow, creds, i)
<1>1. flow \in Flows /\ Distinct(flow.pending) /\ creds \in Cfgs
  BY DEF ConfigTyped, Flows
<1>2. <<>> \in Seq(Changes) /\ Distinct(<<>>)
  BY DEF Distinct
<1>3. CASE Config!NextBatch
  <2>1. flow' = [flow EXCEPT !.batch = flow.pending, !.pending = <<>>]
        /\ flow.batch = <<>> /\ creds' = creds
    BY <1>3 DEF Config!NextBatch
  <2>2. flow' \in Flows /\ Distinct(flow'.pending)
    BY <1>1, <1>2, <2>1 DEF Flows
  <2>3. /\ flow'.pending = <<>> /\ flow'.batch = flow.pending
        /\ flow'.queue = flow.queue /\ flow'.todo = flow.todo
    BY <1>1, <2>1 DEF Flows
  <2> QED
    BY <1>1, <2>1, <2>2, <2>3, NothingSaid DEF Ahead
<1>4. CASE Config!Send
  <2> DEFINE b == flow.batch
             q == flow.queue
             u == Head(b)
  <2>1. flow' = [flow EXCEPT !.queue = Append(q, u), !.batch = Tail(b)]
        /\ b # <<>> /\ creds' = creds
    BY <1>4 DEF Config!Send
  <2>2. b \in Seq(Changes) /\ q \in Seq(Changes)
    BY <1>1 DEF Flows
  <2> HIDE DEF b, q
  <2>3. u \in Changes /\ Tail(b) \in Seq(Changes)
    BY <2>1, <2>2, HeadTailProperties
  <2> HIDE DEF u
  <2>4. Append(q, u) \in Seq(Changes)
    BY <2>2, <2>3, AppendProperties
  <2>5. flow' \in Flows
    BY <1>1, <2>1, <2>3, <2>4 DEF Flows
  <2>6. /\ flow'.pending = flow.pending /\ flow'.batch = Tail(b)
        /\ flow'.queue = Append(q, u) /\ flow'.todo = flow.todo
    BY <1>1, <2>1 DEF Flows
  <2>7. ASSUME NEW i, NEW v
        PROVE  Config!Word(b, i, Config!Word(q, i, v))
                 = Config!Word(Tail(b), i, Config!Word(Append(q, u), i, v))
    <3>1. Config!Word(Append(q, u), i, v) = IF u.id = i THEN u.version ELSE Config!Word(q, i, v)
      BY <2>2, <2>3, WordOfAppend
    <3>2. Config!Word(b, i, Config!Word(q, i, v))
            = Config!Word(Tail(b), i, IF u.id = i THEN u.version ELSE Config!Word(q, i, v))
      BY <2>1, <2>2, WordOfTail DEF u
    <3> QED
      BY <3>1, <3>2
  <2> QED
    BY <1>1, <2>1, <2>5, <2>6, <2>7 DEF Ahead, b, q
<1>5. CASE Config!Take
  <2>1. flow' = [flow EXCEPT !.todo = Config!Merged(<<>>, flow.queue), !.queue = <<>>]
        /\ flow.todo = <<>> /\ creds' = creds
    BY <1>5 DEF Config!Take, Config!Coalesced
  <2>2. flow.queue \in Seq(Changes)
    BY <1>1 DEF Flows
  <2>3. /\ Config!Merged(<<>>, flow.queue) \in Seq(Changes)
        /\ \A i, v : Config!Word(Config!Merged(<<>>, flow.queue), i, v)
                       = Config!Word(flow.queue, i, Config!Word(<<>>, i, v))
    BY <1>2, <2>2, WordOfMerged
  <2>4. flow' \in Flows
    BY <1>1, <1>2, <2>1, <2>3 DEF Flows
  <2>5. /\ flow'.pending = flow.pending /\ flow'.batch = flow.batch
        /\ flow'.queue = <<>> /\ flow'.todo = Config!Merged(<<>>, flow.queue)
    BY <1>1, <2>1 DEF Flows
  <2> QED
    BY <1>1, <2>1, <2>3, <2>4, <2>5, NothingSaid DEF Ahead
<1>6. CASE Config!ApplyChange
  <2> DEFINE t == flow.todo
             u == Head(t)
  <2>1. /\ flow' = [flow EXCEPT !.todo = Tail(t)] /\ t # <<>>
        /\ creds' = [creds EXCEPT ![u.id] = u.version]
    BY <1>6 DEF Config!ApplyChange
  <2>2. t \in Seq(Changes)
    BY <1>1 DEF Flows
  <2> HIDE DEF t
  <2>3. u \in Changes /\ Tail(t) \in Seq(Changes)
    BY <2>1, <2>2, HeadTailProperties
  <2>4. \A i, v : Config!Word(t, i, v) = Config!Word(Tail(t), i, IF u.id = i THEN u.version ELSE v)
    BY <2>1, <2>2, WordOfTail
  <2> HIDE DEF u
  <2>5. creds' \in Cfgs /\ \A i \in Ids : creds'[i] = IF u.id = i THEN u.version ELSE creds[i]
    BY <1>1, <2>1, <2>3 DEF Cfgs, Changes
  <2>6. flow' \in Flows
    BY <1>1, <2>1, <2>3 DEF Flows
  <2>7. /\ flow'.pending = flow.pending /\ flow'.batch = flow.batch
        /\ flow'.queue = flow.queue /\ flow'.todo = Tail(t)
    BY <1>1, <2>1 DEF Flows
  <2>8. \A i \in Ids : Config!Word(Tail(t), i, creds'[i]) = Config!Word(t, i, creds[i])
    BY <2>4, <2>5
  <2> QED
    BY <1>1, <2>5, <2>6, <2>7, <2>8 DEF Ahead, t
<1> QED
  BY <1>3, <1>4, <1>5, <1>6 DEF Config!Delivery

LEMMA ArrivingIs ==
  ASSUME NEW i
  PROVE  /\ Config!Arriving(i) = Ahead(flow, creds, i)
         /\ Config!Arriving(i)' = Ahead(flow', creds', i)
BY DEF Config!Arriving, Ahead

Refreshes == [pc : Stages, by : {"timer", "hook"}, gen : Int,
              seen : Seq(Cfgs), cfg : Cfgs, ups : Seq(Changes)]

\* What neither touches the changes on their way nor a refresh that has still
\* to enqueue leaves them as they are.
LEMMA StillFollows ==
  ASSUME Follows, overlap' = overlap, watch'.current = watch.current,
         \A i \in Ids : Ahead(flow', creds', i) = Ahead(flow, creds, i),
         \A r \in Reloaders : /\ reload'[r].pc = "enqueue" <=> reload[r].pc = "enqueue"
                              /\ reload[r].pc = "enqueue" => reload'[r].ups = reload[r].ups
  PROVE  Follows'
<1> SUFFICES ASSUME overlap = FALSE
             PROVE  /\ \A r, q \in Reloaders : Enqueues(r)' /\ Enqueues(q)' => r = q
                    /\ (\A r \in Reloaders : ~Enqueues(r)') =>
                          \A i \in Ids : Config!Arriving(i)' = watch'.current[i]
                    /\ \A r \in Reloaders : Enqueues(r)' =>
                          \A i \in Ids : Config!Word(reload'[r].ups, i, Config!Arriving(i)') = watch'.current[i]
  BY DEF Follows, Config!Word, Config!Positions
<1>1. \A r \in Reloaders : Enqueues(r)' <=> Enqueues(r)
  BY DEF Enqueues
<1>2. \A i \in Ids : Config!Arriving(i)' = Config!Arriving(i)
  BY ArrivingIs
<1>3. \A r \in Reloaders : Enqueues(r) => reload'[r].ups = reload[r].ups
  BY DEF Enqueues
<1> QED
  BY <1>1, <1>2, <1>3 DEF Follows

\* A goroutine moves on, and what it holds stays well-typed.
LEMMA RefreshMoves ==
  ASSUME ConfigTyped, NEW r \in Reloaders, NEW e \in Refreshes,
         reload' = [reload EXCEPT ![r] = e]
  PROVE  /\ reload' \in [Reloaders -> Refreshes] /\ reload'[r] = e
         /\ \A q \in Reloaders : q # r => reload'[q] = reload[q]
BY DEF ConfigTyped, Refreshes

\* The writers of the file.
LEMMA WritersKeep ==
  ASSUME ConfigInv, Config!Edit \/ Config!Put \/ Config!Saved
  PROVE  ConfigInv'
<1>1. /\ disk \in Seq(Cfgs) /\ (~mgmt.saving => disk # <<>>)
      /\ mgmt \in [cfg : Cfgs, saving : BOOLEAN, edits : Int, gens : SUBSET Int, applied : Int]
  BY DEF ConfigInv, ConfigTyped
<1>2. Config!Versions \subseteq Int
  BY ConfigSound DEF Config!Versions
<1>3. \A c \in Cfgs : \A i \in Ids, v \in Config!Versions : Config!Edited(c, i, v) \in Cfgs
  BY <1>2 DEF Cfgs, Config!Edited
<1>4. UNCHANGED <<reload, watch, flow, creds, overlap>>
  <2>1. CASE Config!Edit
    BY <2>1 DEF Config!Edit
  <2>2. CASE Config!Put
    BY <2>2 DEF Config!Put
  <2>3. CASE Config!Saved
    BY <2>3 DEF Config!Saved
  <2> QED
    BY <2>1, <2>2, <2>3
<1>5. /\ disk' \in Seq(Cfgs) /\ (~mgmt'.saving => disk' # <<>>)
      /\ mgmt' \in [cfg : Cfgs, saving : BOOLEAN, edits : Int, gens : SUBSET Int, applied : Int]
  <2>1. CASE Config!Edit
    <3>1. PICK i \in Ids, v \in Config!Versions : disk' = <<Config!Edited(disk[1], i, v)>>
      BY <2>1 DEF Config!Edit
    <3>2. ~mgmt.saving /\ mgmt' = [mgmt EXCEPT !.edits = @ + 1]
      BY <2>1 DEF Config!Edit
    <3>3. 1 \in 1..Len(disk)
      BY <1>1, <3>2, EmptySeq, LenProperties
    <3>4. disk[1] \in Cfgs
      BY <1>1, <3>3, ElementOfSeq
    <3>5. Config!Edited(disk[1], i, v) \in Cfgs
      BY <1>3, <3>4
    <3>6. disk' \in Seq(Cfgs) /\ disk' # <<>>
      <4> HIDE DEF Cfgs
      <4> QED
        BY <3>1, <3>5
    <3>7. mgmt' \in [cfg : Cfgs, saving : BOOLEAN, edits : Int, gens : SUBSET Int, applied : Int]
      BY <1>1, <3>2
    <3> QED
      BY <3>6, <3>7
  <2>2. CASE Config!Put
    <3>1. PICK i \in Ids, v \in Config!Versions :
            mgmt' = [cfg |-> Config!Edited(mgmt.cfg, i, v), edits |-> mgmt.edits + 1,
                     saving |-> TRUE, gens |-> mgmt.gens, applied |-> mgmt.applied]
      BY <2>2 DEF Config!Put
    <3>2. Config!Edited(mgmt.cfg, i, v) \in Cfgs
      BY <1>1, <1>3
    <3>4. disk' = <<>>
      BY <2>2 DEF Config!Put
    <3>5. mgmt' \in [cfg : Cfgs, saving : BOOLEAN, edits : Int, gens : SUBSET Int, applied : Int]
          /\ mgmt'.saving = TRUE
      BY <1>1, <3>1, <3>2
    <3> QED
      BY <3>4, <3>5
  <2>3. CASE Config!Saved
    <3>1. disk' = <<mgmt.cfg>>
          /\ mgmt' = [mgmt EXCEPT !.saving = FALSE, !.gens = @ \union {mgmt.edits}]
      BY <2>3 DEF Config!Saved
    <3>2. mgmt.cfg \in Cfgs
      BY <1>1
    <3>3. disk' \in Seq(Cfgs) /\ disk' # <<>>
      <4> HIDE DEF Cfgs
      <4> QED
        BY <3>1, <3>2
    <3>4. mgmt' \in [cfg : Cfgs, saving : BOOLEAN, edits : Int, gens : SUBSET Int, applied : Int]
      BY <1>1, <3>1
    <3> QED
      BY <3>3, <3>4
  <2> QED
    BY <2>1, <2>2, <2>3
<1>6. ConfigTyped'
  BY <1>4, <1>5 DEF ConfigInv, ConfigTyped, Distinct
<1>7. Follows'
  BY <1>4, StillFollows DEF ConfigInv
<1> QED
  BY <1>6, <1>7 DEF ConfigInv

\* The goroutines that reload, but for those steps that touch what is underway.
LEMMA ReloadersKeep ==
  ASSUME ConfigInv, NEW r \in Reloaders,
         \/ Config!TimerFires(r) \/ \E g \in 1..MaxEdits : Config!HookStarts(r, g)
         \/ Config!Read(r) \/ Config!Load(r) \/ Config!Clients(r) \/ Config!Apply(r)
         \/ Config!Snapshot(r) \/ Config!Final(r)
  PROVE  ConfigInv'
<1> DEFINE Managed == [cfg : Cfgs, saving : BOOLEAN, edits : Int, gens : SUBSET Int, applied : Int]
           Watched == [cfg : Cfgs, hash : Seq(Cfgs), current : Cfgs]
           e == reload[r]
           \* A step of r from which the invariant follows.
           Fine == /\ UNCHANGED <<disk, flow, creds, overlap>>
                   /\ mgmt' \in Managed /\ mgmt'.saving = mgmt.saving
                   /\ watch' \in Watched /\ watch'.current = watch.current
                   /\ \/ reload' = reload
                      \/ \E f \in Refreshes :
                           /\ reload' = [reload EXCEPT ![r] = f]
                           /\ e.pc # "enqueue" /\ f.pc # "enqueue"
<1>1. /\ disk \in Seq(Cfgs) /\ (~mgmt.saving => disk # <<>>) /\ mgmt \in Managed
      /\ watch \in Watched /\ e \in Refreshes /\ <<>> \in Seq(Changes)
      /\ <<>> \in Seq(Cfgs) /\ Config!NoConfig \in Cfgs
  <2>1. Config!NoConfig \in Cfgs
    BY DEF Config!NoConfig, Cfgs
  <2>2. <<>> \in Seq(Cfgs) /\ <<>> \in Seq(Changes)
    OBVIOUS
  <2>3. e \in Refreshes
    BY DEF ConfigInv, ConfigTyped, Refreshes
  <2> HIDE DEF e
  <2> QED
    BY <2>1, <2>2, <2>3 DEF ConfigInv, ConfigTyped
<1>3. ASSUME Fine PROVE ConfigInv'
  <2>1. /\ reload' \in [Reloaders -> Refreshes]
        /\ \A q \in Reloaders : /\ reload'[q].pc = "enqueue" <=> reload[q].pc = "enqueue"
                                /\ reload[q].pc = "enqueue" => reload'[q].ups = reload[q].ups
    <3>1. CASE reload' = reload
      BY <3>1 DEF ConfigInv, ConfigTyped, Refreshes
    <3>2. CASE reload' # reload
      <4>1. PICK f \in Refreshes : reload' = [reload EXCEPT ![r] = f] /\ e.pc # "enqueue" /\ f.pc # "enqueue"
        BY <1>3, <3>2
      <4>2. /\ reload' \in [Reloaders -> Refreshes] /\ reload'[r] = f
            /\ \A q \in Reloaders : q # r => reload'[q] = reload[q]
        BY <4>1, RefreshMoves DEF ConfigInv
      <4> QED
        BY <4>1, <4>2
    <3> QED
      BY <3>1, <3>2
  <2>2. UNCHANGED <<disk, flow, creds, overlap>> /\ mgmt' \in Managed /\ mgmt'.saving = mgmt.saving
        /\ watch' \in Watched /\ watch'.current = watch.current
    BY <1>3
  <2>3. ConfigTyped'
    BY <1>1, <2>1, <2>2 DEF ConfigInv, ConfigTyped, Distinct, Refreshes
  <2>4. Follows'
    BY <2>1, <2>2, StillFollows DEF ConfigInv
  <2> QED
    BY <2>3, <2>4 DEF ConfigInv
<1> SUFFICES Fine
  BY <1>3
\* A goroutine that stays out of the way of the changes.
<1>4. ASSUME Config!Done(r), e.pc # "enqueue"
      PROVE  /\ mgmt' \in Managed /\ mgmt'.saving = mgmt.saving
             /\ \E f \in Refreshes :
                  reload' = [reload EXCEPT ![r] = f] /\ e.pc # "enqueue" /\ f.pc # "enqueue"
  <2>1. reload' = [reload EXCEPT ![r] = [e EXCEPT !.pc = "off"]]
    BY <1>4 DEF Config!Done, Config!To
  <2>2. [e EXCEPT !.pc = "off"] \in Refreshes /\ [e EXCEPT !.pc = "off"].pc = "off"
    <3> HIDE DEF e
    <3> QED
      BY <1>1 DEF Refreshes, Stages
  <2>3. mgmt' = [mgmt EXCEPT !.applied = IF e.by = "hook" /\ e.gen > @ THEN e.gen ELSE @]
    BY <1>4 DEF Config!Done
  <2> HIDE DEF e
  <2>4. e.gen \in Int
    BY <1>1 DEF Refreshes
  <2>5. mgmt' \in Managed /\ mgmt'.saving = mgmt.saving
    BY <1>1, <2>3, <2>4
  <2> QED
    BY <1>4, <2>1, <2>2, <2>5
<1>5. CASE Config!TimerFires(r)
  <2>1. /\ UNCHANGED <<disk, mgmt, watch, flow, creds, overlap>> /\ e.pc = "off"
        /\ reload' = [reload EXCEPT ![r] = Config!Begun("read", "timer", 0)]
    BY <1>5 DEF Config!TimerFires, Config!Starts
  <2>2. Config!Begun("read", "timer", 0) \in Refreshes /\ Config!Begun("read", "timer", 0).pc = "read"
    BY <1>1 DEF Config!Begun, Refreshes, Stages
  <2> HIDE DEF e
  <2> QED
    BY <1>1, <2>1, <2>2
<1>6. CASE \E g \in 1..MaxEdits : Config!HookStarts(r, g)
  <2>1. PICK g \in 1..MaxEdits : Config!HookStarts(r, g)
    BY <1>6
  <2>2. /\ UNCHANGED <<disk, watch, flow, creds, overlap>>
        /\ mgmt' = [mgmt EXCEPT !.gens = @ \ {g}]
        /\ \/ reload' = reload
           \/ e.pc = "off" /\ reload' = [reload EXCEPT ![r] = Config!Begun("read", "hook", g)]
    BY <2>1 DEF Config!HookStarts, Config!Starts
  <2>3. Config!Begun("read", "hook", g) \in Refreshes /\ Config!Begun("read", "hook", g).pc = "read"
    BY <1>1 DEF Config!Begun, Refreshes, Stages
  <2>4. mgmt' \in Managed /\ mgmt'.saving = mgmt.saving
    BY <1>1, <2>2
  <2> HIDE DEF e
  <2> QED
    BY <1>1, <2>2, <2>3, <2>4
<1>7. CASE Config!Read(r)
  <2>1. e.pc = "read" /\ UNCHANGED <<disk, watch, flow, creds, overlap>>
    BY <1>7 DEF Config!Read, Config!At
  <2>2. CASE disk \in {<<>>, watch.hash}
    <3>1. Config!Done(r)
      BY <1>7, <2>2 DEF Config!Read
    <3> QED
      BY <1>1, <1>4, <2>1, <3>1
  <2>3. CASE disk \notin {<<>>, watch.hash}
    <3>1. reload' = [reload EXCEPT ![r] = [e EXCEPT !.pc = "load", !.seen = disk]] /\ mgmt' = mgmt
      BY <1>7, <2>3 DEF Config!Read
    <3> HIDE DEF e
    <3>2. [e EXCEPT !.pc = "load", !.seen = disk] \in Refreshes
          /\ [e EXCEPT !.pc = "load", !.seen = disk].pc = "load"
      BY <1>1 DEF Refreshes, Stages
    <3> QED
      BY <1>1, <2>1, <3>1, <3>2
  <2> QED
    BY <2>2, <2>3
<1>8. CASE Config!Load(r)
  <2> DEFINE c == IF disk = <<>> THEN Config!NoConfig ELSE disk[1]
  <2>1. /\ reload' = [reload EXCEPT ![r] = [e EXCEPT !.pc = "clients"]]
        /\ watch' = [watch EXCEPT !.cfg = c]
    BY <1>8 DEF Config!Load, Config!To
  <2>2. e.pc = "load" /\ UNCHANGED <<disk, mgmt, flow, creds, overlap>>
    BY <1>8 DEF Config!Load, Config!At
  <2>3. c \in Cfgs
    <3>1. CASE disk = <<>>
      BY <1>1, <2>1, <3>1
    <3>2. CASE disk # <<>>
      <4>1. 1 \in 1..Len(disk)
        BY <1>1, <3>2, EmptySeq, LenProperties
      <4> QED
        BY <1>1, <2>1, <3>2, <4>1, ElementOfSeq
    <3> QED
      BY <3>1, <3>2
  <2> HIDE DEF e, c
  <2>4. [e EXCEPT !.pc = "clients"] \in Refreshes /\ [e EXCEPT !.pc = "clients"].pc = "clients"
    BY <1>1 DEF Refreshes, Stages
  <2>5. watch' \in Watched /\ watch'.current = watch.current
    BY <1>1, <2>1, <2>3
  <2> QED
    BY <1>1, <2>1, <2>2, <2>4, <2>5
<1>12. CASE Config!Clients(r)
  <2>1. /\ e.pc = "clients" /\ UNCHANGED <<disk, mgmt, watch, flow, creds, overlap>>
        /\ reload' = [reload EXCEPT ![r] = [e EXCEPT !.pc = "apply", !.cfg = watch.cfg]]
    BY <1>12 DEF Config!Clients, Config!At
  <2> HIDE DEF e
  <2>2. watch.cfg \in Cfgs
    BY <1>1
  <2>3. [e EXCEPT !.pc = "apply", !.cfg = watch.cfg] \in Refreshes
        /\ [e EXCEPT !.pc = "apply", !.cfg = watch.cfg].pc = "apply"
    BY <1>1, <2>2 DEF Refreshes, Stages
  <2> QED
    BY <1>1, <2>1, <2>3
<1>9. CASE Config!Apply(r)
  <2>1. /\ e.pc = "apply" /\ UNCHANGED <<disk, watch, flow, creds, overlap>>
        /\ reload' = [reload EXCEPT ![r] = [e EXCEPT !.pc = "snapshot"]]
        /\ mgmt' = [mgmt EXCEPT !.cfg = e.cfg]
    BY <1>9 DEF Config!Apply, Config!At, Config!To
  <2> HIDE DEF e
  <2>2. e.cfg \in Cfgs
    BY <1>1 DEF Refreshes
  <2>3. [e EXCEPT !.pc = "snapshot"] \in Refreshes /\ [e EXCEPT !.pc = "snapshot"].pc = "snapshot"
    BY <1>1 DEF Refreshes, Stages
  <2>4. mgmt' \in Managed /\ mgmt'.saving = mgmt.saving
    BY <1>1, <2>1, <2>2
  <2> QED
    BY <1>1, <2>1, <2>3, <2>4
<1>10. CASE Config!Snapshot(r)
  <2>1. /\ e.pc = "snapshot" /\ UNCHANGED <<disk, mgmt, watch, flow, creds, overlap>>
        /\ reload' = [reload EXCEPT ![r] = [e EXCEPT !.pc = "diff", !.cfg = watch.cfg]]
    BY <1>10 DEF Config!Snapshot, Config!At
  <2> HIDE DEF e
  <2>2. watch.cfg \in Cfgs
    BY <1>1
  <2>3. [e EXCEPT !.pc = "diff", !.cfg = watch.cfg] \in Refreshes
        /\ [e EXCEPT !.pc = "diff", !.cfg = watch.cfg].pc = "diff"
    BY <1>1, <2>2 DEF Refreshes, Stages
  <2> QED
    BY <1>1, <2>1, <2>3
<1>11. CASE Config!Final(r)
  <2>1. /\ e.pc = "final" /\ UNCHANGED <<disk, flow, creds, overlap>> /\ Config!Done(r)
        /\ watch' = [watch EXCEPT !.hash = IF disk = <<>> THEN e.seen ELSE disk]
    BY <1>11 DEF Config!Final, Config!At
  <2>2. e.seen \in Seq(Cfgs)
    BY <1>1 DEF Refreshes
  <2>3. watch' \in Watched /\ watch'.current = watch.current
    <3> HIDE DEF e
    <3> QED
      BY <1>1, <2>1, <2>2
  <2> QED
    BY <1>4, <2>1, <2>3
<1> QED
  BY <1>5, <1>6, <1>7, <1>8, <1>9, <1>10, <1>11, <1>12

\* The differences are taken under the watcher's mutex ...
LEMMA PrepareKeeps ==
  ASSUME ConfigInv, NEW r \in Reloaders, Config!Prepare(r)
  PROVE  ConfigInv'
<1> DEFINE e == reload[r]
           new == e.cfg
           d == Config!Diff(watch.current, new)
           f == [e EXCEPT !.pc = "enqueue", !.ups = d]
<1>1. /\ e.pc = "diff" /\ UNCHANGED <<disk, mgmt, flow, creds>>
      /\ reload' = [reload EXCEPT ![r] = f]
      /\ watch' = [watch EXCEPT !.current = new]
  BY DEF Config!Prepare, Config!At
<1>2. overlap' = (overlap \/ \E q \in Reloaders \ {r} : reload[q].pc = "enqueue")
  BY DEF Config!Prepare, Config!At
<1>3. e \in Refreshes /\ watch \in [cfg : Cfgs, hash : Seq(Cfgs), current : Cfgs] /\ overlap \in BOOLEAN
  BY DEF ConfigInv, ConfigTyped, Refreshes
<1>4. new \in Cfgs /\ watch.current \in Cfgs
  <2> HIDE DEF e
  <2> QED
    BY <1>3 DEF Refreshes
<1>5. d \in Seq(Changes)
  BY <1>4, DiffIs
<1>6. \A i \in Ids : Config!Word(d, i, watch.current[i]) = new[i]
  BY <1>4, WordOfDiff
<1>7. f \in Refreshes /\ f.pc = "enqueue" /\ f.ups = d
  <2> HIDE DEF e, d
  <2> QED
    BY <1>3, <1>5 DEF Refreshes, Stages
<1> HIDE DEF e, d, f, new
<1>8. /\ reload' \in [Reloaders -> Refreshes] /\ reload'[r] = f
      /\ \A q \in Reloaders : q # r => reload'[q] = reload[q]
  BY <1>1, <1>7, RefreshMoves DEF ConfigInv
<1>9. watch' \in [cfg : Cfgs, hash : Seq(Cfgs), current : Cfgs] /\ watch'.current = new
  BY <1>1, <1>3, <1>4
<1>10. overlap' \in BOOLEAN
  BY <1>2
<1>11. ConfigTyped'
  BY <1>1, <1>8, <1>9, <1>10 DEF ConfigInv, ConfigTyped, Distinct, Refreshes
<1>12. Follows'
  <2> SUFFICES ASSUME overlap' = FALSE
               PROVE  /\ \A p, q \in Reloaders : Enqueues(p)' /\ Enqueues(q)' => p = q
                      /\ (\A q \in Reloaders : ~Enqueues(q)') =>
                            \A i \in Ids : Config!Arriving(i)' = watch'.current[i]
                      /\ \A q \in Reloaders : Enqueues(q)' =>
                            \A i \in Ids : Config!Word(reload'[q].ups, i, Config!Arriving(i)') = watch'.current[i]
    BY DEF Follows, Config!Word, Config!Positions
  <2>1. overlap = FALSE /\ \A q \in Reloaders : q # r => reload[q].pc # "enqueue"
    BY <1>2, <1>3
  <2>2. \A q \in Reloaders : ~Enqueues(q)
    BY <1>1, <2>1 DEF Enqueues, e
  <2>3. \A q \in Reloaders : Enqueues(q)' <=> q = r
    BY <1>7, <1>8, <2>1 DEF Enqueues
  <2>4. \A i \in Ids : Config!Arriving(i)' = watch.current[i]
    <3>1. \A i \in Ids : Config!Arriving(i) = watch.current[i]
      BY <2>1, <2>2 DEF ConfigInv, Follows
    <3> QED
      BY <1>1, <3>1, ArrivingIs
  <2>5. reload'[r].ups = d
    BY <1>7, <1>8
  <2> QED
    BY <1>6, <1>9, <2>3, <2>4, <2>5
<1> QED
  BY <1>11, <1>12 DEF ConfigInv

\* ... and enqueued without it.
LEMMA EnqueueKeeps ==
  ASSUME ConfigInv, NEW r \in Reloaders, Config!Enqueue(r)
  PROVE  ConfigInv'
<1> DEFINE e == reload[r]
           m == Config!Merged(flow.pending, e.ups)
           f == [e EXCEPT !.pc = "final"]
<1>1. /\ e.pc = "enqueue" /\ UNCHANGED <<disk, mgmt, watch, creds, overlap>>
      /\ reload' = [reload EXCEPT ![r] = f]
      /\ flow' = [flow EXCEPT !.pending = m]
  BY DEF Config!Enqueue, Config!At, Config!To
<1>2. e \in Refreshes /\ flow \in Flows /\ Distinct(flow.pending)
  BY DEF ConfigInv, ConfigTyped, Refreshes, Flows
<1>3. flow.pending \in Seq(Changes) /\ e.ups \in Seq(Changes)
  <2> HIDE DEF e
  <2> QED
    BY <1>2 DEF Refreshes, Flows
<1>4. /\ m \in Seq(Changes) /\ Distinct(m)
      /\ \A i, v : Config!Word(m, i, v) = Config!Word(e.ups, i, Config!Word(flow.pending, i, v))
  BY <1>2, <1>3, WordOfMerged
<1>5. f \in Refreshes /\ f.pc = "final"
  <2> HIDE DEF e
  <2> QED
    BY <1>2 DEF Refreshes, Stages
<1> HIDE DEF m, f
<1>6. /\ reload' \in [Reloaders -> Refreshes] /\ reload'[r] = f
      /\ \A q \in Reloaders : q # r => reload'[q] = reload[q]
  BY <1>1, <1>5, RefreshMoves DEF ConfigInv
<1>7. /\ flow' \in Flows /\ flow'.pending = m /\ flow'.batch = flow.batch
      /\ flow'.queue = flow.queue /\ flow'.todo = flow.todo
  BY <1>1, <1>2, <1>4 DEF Flows
<1>8. ConfigTyped'
  BY <1>1, <1>4, <1>6, <1>7 DEF ConfigInv, ConfigTyped, Distinct, Refreshes, Flows
<1>9. \A i \in Ids : Config!Arriving(i)' = Config!Word(e.ups, i, Config!Arriving(i))
  BY <1>1, <1>4, <1>7, ArrivingIs DEF Ahead
<1>10. Follows'
  <2> SUFFICES ASSUME overlap = FALSE
               PROVE  /\ \A p, q \in Reloaders : Enqueues(p)' /\ Enqueues(q)' => p = q
                      /\ (\A q \in Reloaders : ~Enqueues(q)') =>
                            \A i \in Ids : Config!Arriving(i)' = watch'.current[i]
                      /\ \A q \in Reloaders : Enqueues(q)' =>
                            \A i \in Ids : Config!Word(reload'[q].ups, i, Config!Arriving(i)') = watch'.current[i]
    BY <1>1 DEF Follows, Config!Word, Config!Positions
  <2>1. Enqueues(r)
    BY <1>1 DEF Enqueues
  <2>2. \A q \in Reloaders : ~Enqueues(q)'
    <3>1. \A q \in Reloaders : q # r => ~Enqueues(q)
      BY <2>1 DEF ConfigInv, Follows
    <3> QED
      BY <1>5, <1>6, <3>1 DEF Enqueues
  <2>3. \A i \in Ids : Config!Word(e.ups, i, Config!Arriving(i)) = watch.current[i]
    BY <2>1 DEF ConfigInv, Follows
  <2> QED
    BY <1>1, <1>9, <2>2, <2>3
<1> QED
  BY <1>8, <1>10 DEF ConfigInv

LEMMA ConfigStep == ConfigInv /\ [Config!Next]_configVars => ConfigInv'
<1> SUFFICES ASSUME ConfigInv, [Config!Next]_configVars
             PROVE  ConfigInv'
  OBVIOUS
<1>1. CASE UNCHANGED configVars
  <2>1. UNCHANGED <<disk, mgmt, watch, reload, flow, creds, overlap>>
    BY <1>1 DEF configVars
  <2>2. ConfigTyped'
    BY <2>1 DEF ConfigInv, ConfigTyped, Distinct
  <2>3. Follows'
    BY <2>1, StillFollows DEF ConfigInv
  <2> QED
    BY <2>2, <2>3 DEF ConfigInv
<1>2. CASE Config!Delivery
  <2>1. UNCHANGED <<disk, mgmt, reload, watch, overlap>>
    BY <1>2 DEF Config!Delivery, Config!NextBatch, Config!Send, Config!Take, Config!ApplyChange,
                Config!Upstream
  <2>2. /\ flow' \in Flows /\ Distinct(flow'.pending) /\ creds' \in Cfgs
        /\ \A i \in Ids : Ahead(flow', creds', i) = Ahead(flow, creds, i)
    BY <1>2, DeliveryKeeps DEF ConfigInv
  <2>3. ConfigTyped'
    BY <2>1, <2>2 DEF ConfigInv, ConfigTyped, Distinct, Flows
  <2>4. Follows'
    BY <2>1, <2>2, StillFollows DEF ConfigInv
  <2> QED
    BY <2>3, <2>4 DEF ConfigInv
<1> QED
  BY <1>1, <1>2, WritersKeep, ReloadersKeep, PrepareKeeps, EnqueueKeeps
     DEF Config!Next, Config!Starting, Config!Reloading

\* Whatever is batched, merged, replaced and coalesced on the way, what is
\* underway leads from the credentials in use to those the watcher believes in
\* use, for every number of credentials, versions, goroutines and changes, as
\* long as no two refreshes overtake each other (dispatchAuthUpdates,
\* nextPendingBatch, coalesceAuthUpdates, handleAuthUpdates).
THEOREM LastWordsCount == Config!Spec => []LastWordCounts
<1>1. Config!Init => ConfigInv
  BY ConfigStarts
<1>2. ConfigInv /\ [Config!Next]_Config!vars => ConfigInv'
  BY ConfigStep DEF Config!vars, configVars
<1>3. ConfigInv => LastWordCounts
  BY DEF ConfigInv, ConfigTyped, Follows, Enqueues, LastWordCounts, Config!LastWordCounts, Config!At
<1> QED
  BY <1>1, <1>2, <1>3, PTL DEF Config!Spec

-----------------------------------------------------------------------------
(* The conversations and their credentials *)

Credentials == Auths \cup {0}
SessionKeys == Sessions!Keys \cup {Sessions!NoKey}
Bindings    == [auth : Credentials, expires : Int]
Requests    == [pc : {"idle", "lookup", "fallback", "drop", "pick", "bind"},
                key : SessionKeys, fallback : SessionKeys, open : SUBSET Auths,
                auth : Credentials, calm : BOOLEAN]
Histories   == [auth : Credentials, sure : BOOLEAN, at : Int]

SessionsTyped ==
    /\ cache \in [Sessions!Keys -> Bindings]
    /\ clock \in Nat
    /\ turn \in [Conversations -> Nat]
    /\ req \in [Conversations -> Requests]
    /\ served \in [Conversations -> Histories]

\* A key leads to the credential a conversation was served by, for long enough.
Leads(k, c) ==
    cache[k].auth = served[c].auth /\ cache[k].expires >= served[c].at + TTL

\* The second turn is led there by the key of the first.
LedByFirst(c) == cache[Sessions!Full(c)] = Sessions!NoBinding /\ Leads(Sessions!Short(c), c)

\* The later keys of a conversation are not bound before its second turn.
Fresh(c) == turn[c] <= 1 => cache[Sessions!Full(c)] = Sessions!NoBinding

\* A request holds the keys of its turn, and while nothing stirs it, the
\* credentials it saw are those there are.
InSelector(c) ==
    req[c].pc # "idle" =>
      /\ turn[c] >= 1
      /\ req[c].key = Sessions!SessionIds(c, turn[c]).primary
      /\ req[c].fallback = Sessions!SessionIds(c, turn[c]).fallback
      /\ req[c].pc \in {"fallback", "drop"} => req[c].fallback # Sessions!NoKey
      /\ req[c].calm = TRUE => req[c].open = Sessions!Available
      /\ req[c].pc = "bind" /\ req[c].calm = TRUE => req[c].auth \in Sessions!Available
      /\ req[c].pc = "bind" => req[c].auth \in Auths

\* What the history is sure of: the credential is usable, some key leads there,
\* and the request that is in the selector is on its way there.
Settled(c) ==
    served[c].sure = TRUE =>
      /\ served[c].auth \in Sessions!Available
      /\ served[c].at <= clock /\ clock <= served[c].at + TTL
      /\ IF c \in Named THEN Leads(Sessions!Id(c), c)
         ELSE Leads(Sessions!Full(c), c) \/ LedByFirst(c)
      /\ turn[c] # 0
      /\ req[c].pc # "idle" =>
            /\ turn[c] # 1 /\ req[c].calm = TRUE
            /\ req[c].pc \in {"lookup", "fallback", "bind"}
            /\ req[c].pc = "fallback" => c \notin Named /\ LedByFirst(c)
            /\ req[c].pc = "bind" => req[c].auth = served[c].auth

Conversing(c) == Fresh(c) /\ InSelector(c) /\ Settled(c)

SessionsInv == SessionsTyped /\ \A c \in Conversations : Conversing(c)

LEMMA KeysDiffer ==
  ASSUME NEW c, NEW d
  PROVE  /\ Sessions!Short(c) # Sessions!Full(d) /\ Sessions!Short(c) # Sessions!Id(d)
         /\ Sessions!Full(c) # Sessions!Id(d)
         /\ (Sessions!Full(c) = Sessions!Full(d) => c = d)
         /\ (Sessions!Id(c) = Sessions!Id(d) => c = d)
BY DEF Sessions!Short, Sessions!Full, Sessions!Id

LEMMA KeysAre ==
  ASSUME NEW c \in Conversations
  PROVE  /\ Sessions!Short(c) \in Sessions!Keys /\ Sessions!Short(c) # Sessions!NoKey
         /\ Sessions!Full(c) \in Sessions!Keys /\ Sessions!Full(c) # Sessions!NoKey
         /\ Sessions!Id(c) \in Sessions!Keys /\ Sessions!Id(c) # Sessions!NoKey
<1>1. \A k \in {Sessions!Short(c), Sessions!Full(c), Sessions!Id(c)} : k \in Sessions!Keys
  BY DEF Sessions!Keys
<1>2. /\ Sessions!Short(c) # Sessions!NoKey /\ Sessions!Full(c) # Sessions!NoKey
      /\ Sessions!Id(c) # Sessions!NoKey
  BY DEF Sessions!Short, Sessions!Full, Sessions!Id, Sessions!NoKey
<1> QED
  BY <1>1, <1>2

LEMMA IdsAre ==
  ASSUME NEW c \in Conversations, NEW n \in Nat
  PROVE  LET ids == Sessions!SessionIds(c, n) IN
         /\ c \in Named => ids.primary = Sessions!Id(c) /\ ids.fallback = Sessions!NoKey
         /\ c \notin Named /\ n = 1 =>
              ids.primary = Sessions!Short(c) /\ ids.fallback = Sessions!NoKey
         /\ c \notin Named /\ n # 1 =>
              ids.primary = Sessions!Full(c) /\ ids.fallback = Sessions!Short(c)
         /\ ids.primary \in Sessions!Keys /\ ids.fallback \in SessionKeys
<1> DEFINE ids == Sessions!SessionIds(c, n)
<1>1. CASE c \in Named
  <2>1. ids.primary = Sessions!Id(c) /\ ids.fallback = Sessions!NoKey
    BY <1>1 DEF Sessions!SessionIds
  <2> QED
    BY <1>1, <2>1, KeysAre DEF SessionKeys
<1>2. CASE c \notin Named /\ n = 1
  <2>1. ids.primary = Sessions!Short(c) /\ ids.fallback = Sessions!NoKey
    BY <1>2 DEF Sessions!SessionIds
  <2> QED
    BY <1>2, <2>1, KeysAre DEF SessionKeys
<1>3. CASE c \notin Named /\ n # 1
  <2>1. ids.primary = Sessions!Full(c) /\ ids.fallback = Sessions!Short(c)
    BY <1>3 DEF Sessions!SessionIds
  <2> QED
    BY <1>3, <2>1, KeysAre DEF SessionKeys
<1> QED
  BY <1>1, <1>2, <1>3

\* The keys of the request that c has in the selector.
KeysOfTurn(c) ==
    \/ c \in Named /\ req[c].key = Sessions!Id(c) /\ req[c].fallback = Sessions!NoKey
    \/ /\ c \notin Named /\ turn[c] = 1
       /\ req[c].key = Sessions!Short(c) /\ req[c].fallback = Sessions!NoKey
    \/ /\ c \notin Named /\ turn[c] # 1 /\ turn[c] > 1
       /\ req[c].key = Sessions!Full(c) /\ req[c].fallback = Sessions!Short(c)

LEMMA TurnHasKeys ==
  ASSUME SessionsTyped, NEW c \in Conversations, InSelector(c), req[c].pc # "idle"
  PROVE  KeysOfTurn(c) /\ req[c].key \in Sessions!Keys /\ req[c].fallback \in SessionKeys
<1>1. turn[c] \in Nat
  BY DEF SessionsTyped
<1>2. /\ turn[c] >= 1
      /\ req[c].key = Sessions!SessionIds(c, turn[c]).primary
      /\ req[c].fallback = Sessions!SessionIds(c, turn[c]).fallback
  BY DEF InSelector
<1> QED
  BY <1>1, <1>2, IdsAre DEF KeysOfTurn

LEMMA AvailableIs ==
  /\ Sessions!Available \subseteq Auths
  /\ held' = held => Sessions!Available' = Sessions!Available
BY DEF Sessions!Available

LEMMA SessionsStart == Sessions!Init => SessionsInv
<1> SUFFICES ASSUME Sessions!Init PROVE SessionsInv
  OBVIOUS
<1>1. Sessions!NoBinding \in Bindings
  BY DEF Sessions!NoBinding, Bindings, Credentials
<1>2. Sessions!Idle \in Requests /\ Sessions!Idle.pc = "idle"
  BY DEF Sessions!Idle, Requests, Credentials, SessionKeys
<1>3. Sessions!Nobody \in Histories /\ Sessions!Nobody.sure = FALSE
  BY DEF Sessions!Nobody, Histories, Credentials
<1>4. SessionsTyped
  BY <1>1, <1>2, <1>3 DEF Sessions!Init, SessionsTyped
<1>5. ASSUME NEW c \in Conversations
      PROVE  Conversing(c)
  <2>1. Fresh(c)
    BY KeysAre DEF Sessions!Init, Fresh
  <2>2. InSelector(c)
    BY <1>2 DEF Sessions!Init, InSelector
  <2>3. Settled(c)
    BY <1>3 DEF Sessions!Init, Settled
  <2> QED
    BY <2>1, <2>2, <2>3 DEF Conversing
<1> QED
  BY <1>4, <1>5 DEF SessionsInv

\* A binding that leads to a settled conversation's credential has not expired.
LEMMA LeadLives ==
  ASSUME SessionsTyped, NEW c \in Conversations, Settled(c), served[c].sure = TRUE,
         NEW k \in Sessions!Keys, Leads(k, c)
  PROVE  /\ ~Sessions!Expired(cache[k]) /\ cache[k].auth # 0
         /\ cache[k].auth \in Sessions!Available
<1>1. /\ served[c].auth \in Sessions!Available
      /\ served[c].at <= clock /\ clock <= served[c].at + TTL
  BY DEF Settled
<1>2. clock \in Nat /\ served[c].at \in Int /\ cache[k].expires \in Int /\ TTL \in Nat
  BY AffinitySound DEF SessionsTyped, Bindings, Histories
<1>3. ~(clock > cache[k].expires)
  BY <1>1, <1>2 DEF Leads
<1>4. served[c].auth # 0
  BY <1>1, AvailableIs, AffinitySound
<1> QED
  BY <1>1, <1>3, <1>4 DEF Leads, Sessions!Expired

\* What others do leaves a conversation as it is.
LEMMA BystanderKeeps ==
  ASSUME SessionsTyped, NEW c \in Conversations, Conversing(c),
         held' = held, clock' = clock, turn'[c] = turn[c], req'[c] = req[c],
         served'[c] = served[c] \/ served'[c].sure = FALSE,
         \A k \in {Sessions!Full(c), Sessions!Id(c)} :
            cache'[k] = cache[k] \/ Sessions!Expired(cache[k]),
         LET k == Sessions!Short(c) IN
            \/ served'[c].sure = FALSE
            \/ cache'[k] = cache[k] \/ Sessions!Expired(cache[k])
            \/ /\ cache'[k].expires = clock + TTL
               /\ cache'[k].auth = cache[k].auth \/ cache'[k].auth = served[c].auth
  PROVE  Conversing(c)'
<1> DEFINE full == Sessions!Full(c)
           short == Sessions!Short(c)
           id == Sessions!Id(c)
<1>1. full \in Sessions!Keys /\ short \in Sessions!Keys /\ id \in Sessions!Keys
  BY KeysAre
<1>2. cache[full] = Sessions!NoBinding => cache'[full] = cache[full]
  BY DEF Sessions!Expired, Sessions!NoBinding
<1>3. Fresh(c)'
  BY <1>2 DEF Conversing, Fresh
<1>4. Sessions!Available' = Sessions!Available
  BY AvailableIs
<1>5. InSelector(c)'
  BY <1>4 DEF Conversing, InSelector
<1>6. Settled(c)'
  <2> SUFFICES ASSUME served'[c].sure = TRUE PROVE Settled(c)'
    BY DEF Settled
  <2>1. served'[c] = served[c] /\ served[c].sure = TRUE /\ Settled(c)
    BY DEF Conversing
  <2>2. Leads(full, c) => Leads(full, c)'
    BY <1>1, <2>1, LeadLives DEF Leads
  <2>3. Leads(id, c) => Leads(id, c)'
    BY <1>1, <2>1, LeadLives DEF Leads
  <2>4. Leads(short, c) => Leads(short, c)'
    <3>1. clock + TTL >= served[c].at + TTL
      BY <2>1, AffinitySound DEF Settled, SessionsTyped, Histories
    <3>2. Leads(short, c) => ~Sessions!Expired(cache[short])
      BY <1>1, <2>1, LeadLives
    <3> QED
      BY <2>1, <3>1, <3>2 DEF Leads
  <2>5. LedByFirst(c) => LedByFirst(c)'
    BY <1>2, <2>4 DEF LedByFirst
  <2>6. /\ served[c].auth \in Sessions!Available
        /\ served[c].at <= clock /\ clock <= served[c].at + TTL
        /\ IF c \in Named THEN Leads(id, c) ELSE Leads(full, c) \/ LedByFirst(c)
        /\ turn[c] # 0
        /\ req[c].pc # "idle" =>
             /\ turn[c] # 1 /\ req[c].calm = TRUE
             /\ req[c].pc \in {"lookup", "fallback", "bind"}
             /\ req[c].pc = "fallback" => c \notin Named /\ LedByFirst(c)
             /\ req[c].pc = "bind" => req[c].auth = served[c].auth
    BY <2>1 DEF Settled
  <2> HIDE DEF full, id, short
  <2>7. IF c \in Named THEN Leads(id, c)' ELSE Leads(full, c)' \/ LedByFirst(c)'
    BY <2>2, <2>3, <2>5, <2>6
  <2>8. /\ served'[c].auth \in Sessions!Available'
        /\ served'[c].at <= clock' /\ clock' <= served'[c].at + TTL
        /\ turn'[c] # 0
        /\ req'[c].pc # "idle" =>
             /\ turn'[c] # 1 /\ req'[c].calm = TRUE
             /\ req'[c].pc \in {"lookup", "fallback", "bind"}
             /\ req'[c].pc = "fallback" => c \notin Named /\ LedByFirst(c)'
             /\ req'[c].pc = "bind" => req'[c].auth = served'[c].auth
    BY <1>4, <2>1, <2>5, <2>6
  <2> QED
    BY <2>7, <2>8 DEF Settled, full, id
<1> QED
  BY <1>3, <1>5, <1>6 DEF Conversing

\* A step of c's request that touches one of c's keys at most.
LEMMA OthersKeep ==
  ASSUME SessionsInv, NEW c \in Conversations,
         NEW k \in {Sessions!Short(c), Sessions!Full(c), Sessions!Id(c)},
         held' = held, clock' = clock,
         \A j \in Sessions!Keys : j # k => cache'[j] = cache[j],
         \A d \in Conversations : d # c =>
            /\ turn'[d] = turn[d] /\ req'[d] = req[d]
            /\ served'[d] = served[d] \/ served'[d].sure = FALSE
            /\ Sessions!Short(d) = k =>
                  \/ served'[d].sure = FALSE
                  \/ cache'[k] = cache[k] \/ Sessions!Expired(cache[k])
                  \/ /\ cache'[k].expires = clock + TTL
                     /\ cache'[k].auth = cache[k].auth \/ cache'[k].auth = served[d].auth
  PROVE  \A d \in Conversations : d # c => Conversing(d)'
<1> SUFFICES ASSUME NEW d \in Conversations, d # c PROVE Conversing(d)'
  OBVIOUS
<1>1. SessionsTyped /\ Conversing(d)
  BY DEF SessionsInv
<1>2. /\ Sessions!Full(d) \in Sessions!Keys /\ Sessions!Short(d) \in Sessions!Keys
      /\ Sessions!Id(d) \in Sessions!Keys
  BY KeysAre
<1>3. Sessions!Full(d) # k /\ Sessions!Id(d) # k
  BY KeysDiffer
<1>4. \A j \in {Sessions!Full(d), Sessions!Id(d)} : cache'[j] = cache[j]
  BY <1>2, <1>3
<1>5. LET j == Sessions!Short(d) IN
         \/ served'[d].sure = FALSE
         \/ cache'[j] = cache[j] \/ Sessions!Expired(cache[j])
         \/ /\ cache'[j].expires = clock + TTL
            /\ cache'[j].auth = cache[j].auth \/ cache'[j].auth = served[d].auth
  BY <1>2
<1>6. turn'[d] = turn[d] /\ req'[d] = req[d] /\ (served'[d] = served[d] \/ served'[d].sure = FALSE)
  OBVIOUS
<1> QED
  BY <1>1, <1>4, <1>5, <1>6, BystanderKeeps

\* Who has been served is settled.
LEMMA ServedIsSettled ==
  ASSUME SessionsInv, NEW c \in Conversations, req[c].pc # "idle", NEW a \in Auths,
         req[c].calm = TRUE => a \in Sessions!Available,
         held' = held, clock' = clock, turn' = turn,
         req'[c] = Sessions!Idle,
         served'[c] = [auth |-> a, sure |-> req[c].calm, at |-> clock],
         cache'[req[c].key] = [auth |-> a, expires |-> clock + TTL],
         \A j \in Sessions!Keys : j # req[c].key => cache'[j] = cache[j]
  PROVE  Conversing(c)'
<1> DEFINE full == Sessions!Full(c)
           short == Sessions!Short(c)
           id == Sessions!Id(c)
           k == req[c].key
<1>1. SessionsTyped /\ Conversing(c)
  BY DEF SessionsInv
<1>2. KeysOfTurn(c) /\ turn[c] >= 1 /\ turn[c] \in Nat
  BY <1>1, TurnHasKeys DEF Conversing, InSelector, SessionsTyped
<1>3. full \in Sessions!Keys /\ short \in Sessions!Keys /\ id \in Sessions!Keys
  BY KeysAre
<1>4. full # short /\ full # id /\ short # id
  BY KeysDiffer
<1>5. req'[c].pc = "idle"
  BY DEF Sessions!Idle
<1>6. clock \in Nat /\ TTL \in Nat
  BY <1>1, AffinitySound DEF SessionsTyped
<1> HIDE DEF full, short, id
<1>7. turn[c] <= 1 => cache'[full] = Sessions!NoBinding
  <2>1. turn[c] <= 1 => cache[full] = Sessions!NoBinding
    BY <1>1 DEF Conversing, Fresh, full
  <2>2. turn[c] <= 1 => turn[c] = 1
    BY <1>2
  <2>3. turn[c] <= 1 => k # full
    BY <1>2, <1>4, <2>2 DEF KeysOfTurn, full, short, id
  <2> QED
    BY <1>3, <2>1, <2>3
<1>8. Fresh(c)'
  BY <1>7 DEF Fresh, full
<1>9. InSelector(c)'
  BY <1>5 DEF InSelector
<1>10. \A j : j = k => Leads(j, c)'
  <2>1. cache'[k].auth = a /\ cache'[k].expires = clock + TTL
    OBVIOUS
  <2>2. served'[c].auth = a /\ served'[c].at = clock
    OBVIOUS
  <2>3. cache'[k].auth = served'[c].auth /\ cache'[k].expires >= served'[c].at + TTL
    BY <1>6, <2>1, <2>2
  <2>4. \A j : j = k => cache'[j].auth = served'[c].auth /\ cache'[j].expires >= served'[c].at + TTL
    BY <2>3
  <2> QED
    BY <2>4 DEF Leads
<1>11. Settled(c)'
  <2> SUFFICES ASSUME served'[c].sure = TRUE PROVE Settled(c)'
    BY DEF Settled
  <2>1. a \in Sessions!Available'
    BY AvailableIs
  <2>2. IF c \in Named THEN Leads(id, c)' ELSE Leads(full, c)' \/ LedByFirst(c)'
    <3>1. CASE c \in Named
      BY <1>2, <1>10, <3>1 DEF KeysOfTurn, id
    <3>2. CASE c \notin Named /\ turn[c] = 1
      <4>1. k = short /\ cache'[full] = Sessions!NoBinding
        BY <1>2, <1>7, <3>2 DEF KeysOfTurn, short
      <4>2. Leads(short, c)'
        BY <1>10, <4>1
      <4> QED
        BY <3>2, <4>1, <4>2 DEF LedByFirst, full, short
    <3>3. CASE c \notin Named /\ turn[c] # 1
      <4>1. k = full
        BY <1>2, <3>3 DEF KeysOfTurn, full
      <4> QED
        BY <1>10, <3>3, <4>1
    <3> QED
      BY <3>1, <3>2, <3>3
  <2>3. /\ served'[c].auth = a /\ served'[c].at = clock /\ turn'[c] # 0
        /\ served'[c].at <= clock' /\ clock' <= served'[c].at + TTL
    BY <1>2, <1>6
  <2> QED
    BY <1>5, <2>1, <2>2, <2>3 DEF Settled, full, id
<1> QED
  BY <1>8, <1>9, <1>11 DEF Conversing

\* What a settled conversation's request finds under its key.
LEMMA SettledLookup ==
  ASSUME SessionsTyped, NEW c \in Conversations, Conversing(c), served[c].sure = TRUE,
         req[c].pc = "lookup"
  PROVE  LET b == cache[req[c].key] IN
         \/ /\ b.auth = served[c].auth /\ b.auth # 0 /\ ~Sessions!Expired(b)
            /\ b.auth \in req[c].open
         \/ /\ b = Sessions!NoBinding /\ b.auth = 0 /\ ~Sessions!Expired(b)
            /\ c \notin Named /\ req[c].fallback = Sessions!Short(c) /\ LedByFirst(c)
<1>1. KeysOfTurn(c) /\ Settled(c) /\ req[c].calm = TRUE /\ turn[c] # 1
  BY TurnHasKeys DEF Conversing, Settled
<1>2. req[c].open = Sessions!Available
  BY <1>1 DEF Conversing, InSelector
<1>3. /\ Sessions!Full(c) \in Sessions!Keys /\ Sessions!Id(c) \in Sessions!Keys
  BY KeysAre
<1>4. CASE c \in Named
  <2>1. req[c].key = Sessions!Id(c) /\ Leads(Sessions!Id(c), c)
    BY <1>1, <1>4 DEF KeysOfTurn, Settled
  <2> QED
    BY <1>1, <1>2, <1>3, <2>1, LeadLives DEF Leads
<1>5. CASE c \notin Named
  <2>1. /\ req[c].key = Sessions!Full(c) /\ req[c].fallback = Sessions!Short(c)
        /\ Leads(Sessions!Full(c), c) \/ LedByFirst(c)
    BY <1>1, <1>5 DEF KeysOfTurn, Settled
  <2>2. CASE Leads(Sessions!Full(c), c)
    BY <1>1, <1>2, <1>3, <2>1, <2>2, LeadLives DEF Leads
  <2>3. CASE LedByFirst(c)
    <3>1. Sessions!NoBinding.auth = 0 /\ ~Sessions!Expired(Sessions!NoBinding)
      BY DEF Sessions!NoBinding, Sessions!Expired
    <3>2. cache[Sessions!Full(c)] = Sessions!NoBinding
      BY <2>3 DEF LedByFirst
    <3> QED
      BY <1>5, <2>1, <2>3, <3>1, <3>2
  <2> QED
    BY <2>1, <2>2, <2>3
<1> QED
  BY <1>4, <1>5

\* The request of c enters the selector.
LEMMA EnterKeeps ==
  ASSUME SessionsInv, NEW c \in Conversations, Sessions!Enter(c)
  PROVE  SessionsInv'
<1> DEFINE ids == Sessions!SessionIds(c, turn[c] + 1)
           entry == [pc |-> "lookup", key |-> ids.primary, auth |-> 0, fallback |-> ids.fallback,
                     open |-> Sessions!Available, calm |-> TRUE]
<1>1. /\ req[c].pc = "idle" /\ UNCHANGED <<cache, clock, held, served>>
      /\ turn' = [turn EXCEPT ![c] = turn[c] + 1]
      /\ req' = IF Sessions!Available = {} THEN req ELSE [req EXCEPT ![c] = entry]
  BY DEF Sessions!Enter
<1>2. SessionsTyped /\ Conversing(c)
  BY DEF SessionsInv
<1>3. turn[c] \in Nat /\ turn[c] + 1 \in Nat /\ turn'[c] = turn[c] + 1
      /\ turn' \in [Conversations -> Nat]
      /\ \A d \in Conversations : d # c => turn'[d] = turn[d]
  BY <1>1, <1>2 DEF SessionsTyped
<1>4. ids.primary \in SessionKeys /\ ids.fallback \in SessionKeys
  BY <1>3, IdsAre DEF SessionKeys
<1>5. entry \in Requests /\ entry.pc = "lookup" /\ entry.calm = TRUE
      /\ entry.key = ids.primary /\ entry.fallback = ids.fallback
      /\ entry.open = Sessions!Available
  <2> HIDE DEF ids
  <2> QED
    BY <1>4, AvailableIs DEF Requests, Credentials
<1> HIDE DEF entry
<1>6. /\ req' \in [Conversations -> Requests]
      /\ \A d \in Conversations : d # c => req'[d] = req[d]
      /\ req'[c] = req[c] \/ req'[c] = entry
  BY <1>1, <1>2, <1>5 DEF SessionsTyped
<1>7. SessionsTyped'
  BY <1>1, <1>2, <1>3, <1>6 DEF SessionsTyped
<1>8. Sessions!Available' = Sessions!Available
  BY <1>1, AvailableIs
<1>9. Conversing(c)'
  <2>1. Fresh(c)'
    BY <1>1, <1>2, <1>3 DEF Conversing, Fresh
  <2>2. InSelector(c)'
    <3>1. CASE req'[c] = req[c]
      BY <1>1, <3>1 DEF InSelector
    <3>2. CASE req'[c] = entry
      BY <1>3, <1>5, <1>8, <3>2 DEF InSelector
    <3> QED
      BY <1>6, <3>1, <3>2
  <2>3. Settled(c)'
    <3> SUFFICES ASSUME served'[c].sure = TRUE PROVE Settled(c)'
      BY DEF Settled
    <3>1. /\ served[c].auth \in Sessions!Available
          /\ served[c].at <= clock /\ clock <= served[c].at + TTL
          /\ IF c \in Named THEN Leads(Sessions!Id(c), c)
             ELSE Leads(Sessions!Full(c), c) \/ LedByFirst(c)
          /\ turn[c] # 0
      BY <1>1, <1>2 DEF Conversing, Settled
    <3>2. /\ \A k : Leads(k, c)' <=> Leads(k, c)
          /\ LedByFirst(c)' <=> LedByFirst(c)
      BY <1>1 DEF Leads, LedByFirst
    <3>3. turn'[c] # 0 /\ turn'[c] # 1
      BY <1>3, <3>1
    <3>4. req'[c].pc # "idle" => req'[c].pc = "lookup" /\ req'[c].calm = TRUE
      BY <1>1, <1>5, <1>6
    <3>5. /\ served'[c].auth \in Sessions!Available'
          /\ served'[c].at <= clock' /\ clock' <= served'[c].at + TTL
      BY <1>1, <1>8, <3>1
    <3> QED
      BY <3>1, <3>2, <3>3, <3>4, <3>5 DEF Settled
  <2> QED
    BY <2>1, <2>2, <2>3 DEF Conversing
<1>10. \A d \in Conversations : d # c => Conversing(d)'
  BY <1>1, <1>3, <1>6, OthersKeep
<1> QED
  BY <1>7, <1>9, <1>10 DEF SessionsInv

\* What serving does to the history and to the request.
LEMMA ServeIs ==
  ASSUME SessionsTyped, NEW c \in Conversations, NEW a \in Credentials,
         NEW history \in [Conversations -> Histories], Sessions!Serve(c, a, history)
  PROVE  /\ served' \in [Conversations -> Histories] /\ req' \in [Conversations -> Requests]
         /\ served'[c] = [auth |-> a, sure |-> req[c].calm, at |-> clock]
         /\ req'[c] = Sessions!Idle /\ req'[c].pc = "idle"
         /\ \A d \in Conversations : d # c => served'[d] = history[d] /\ req'[d] = req[d]
<1> DEFINE h == [auth |-> a, sure |-> req[c].calm, at |-> clock]
<1>1. /\ req' = [req EXCEPT ![c] = Sessions!Idle]
      /\ served' = [history EXCEPT ![c] = h]
  BY DEF Sessions!Serve
<1>2. req[c].calm \in BOOLEAN /\ clock \in Int
  BY DEF SessionsTyped, Requests
<1>3. h \in Histories
  BY <1>2 DEF Histories
<1>4. Sessions!Idle \in Requests /\ Sessions!Idle.pc = "idle"
  BY DEF Sessions!Idle, Requests, Credentials, SessionKeys
<1> HIDE DEF h
<1>5. /\ req' \in [Conversations -> Requests] /\ req'[c] = Sessions!Idle
      /\ \A d \in Conversations : d # c => req'[d] = req[d]
  BY <1>1, <1>4 DEF SessionsTyped
<1>6. /\ served' \in [Conversations -> Histories] /\ served'[c] = h
      /\ \A d \in Conversations : d # c => served'[d] = history[d]
  BY <1>1, <1>3
<1> QED
  BY <1>4, <1>5, <1>6 DEF h

\* A request moves on.
LEMMA RequestMoves ==
  ASSUME SessionsTyped, NEW c \in Conversations,
         NEW pc \in {"idle", "lookup", "fallback", "drop", "pick", "bind"}, Sessions!Goes(c, pc)
  PROVE  /\ req' \in [Conversations -> Requests]
         /\ req'[c].pc = pc /\ req'[c].key = req[c].key /\ req'[c].fallback = req[c].fallback
         /\ req'[c].open = req[c].open /\ req'[c].auth = req[c].auth /\ req'[c].calm = req[c].calm
         /\ \A d \in Conversations : d # c => req'[d] = req[d]
<1> DEFINE r == req[c]
           e == [r EXCEPT !.pc = pc]
<1>1. req' = [req EXCEPT ![c] = e]
  BY DEF Sessions!Goes
<1>2. r \in Requests /\ req \in [Conversations -> Requests]
  BY DEF SessionsTyped
<1>3. e \in Requests /\ e.pc = pc /\ e.key = r.key /\ e.fallback = r.fallback
      /\ e.open = r.open /\ e.auth = r.auth /\ e.calm = r.calm
  <2> HIDE DEF r
  <2> QED
    BY <1>2 DEF Requests
<1> HIDE DEF e
<1> QED
  BY <1>1, <1>2, <1>3

\* One binding changes.
LEMMA BindingChanges ==
  ASSUME SessionsTyped, NEW k \in Sessions!Keys, NEW b \in Bindings,
         cache' = [cache EXCEPT ![k] = b]
  PROVE  /\ cache' \in [Sessions!Keys -> Bindings] /\ cache'[k] = b
         /\ \A j \in Sessions!Keys : j # k => cache'[j] = cache[j]
BY DEF SessionsTyped

\* A request that has not been served moves on, and is not settled, or will be
\* served what settles it.
LEMMA MovingKeeps ==
  ASSUME SessionsInv, NEW c \in Conversations, InSelector(c)',
         UNCHANGED <<clock, held, turn, served>>,
         cache'[Sessions!Full(c)] = cache[Sessions!Full(c)] \/ turn[c] > 1,
         \/ served[c].sure = FALSE
         \/ /\ cache'[Sessions!Full(c)] = cache[Sessions!Full(c)]
            /\ cache'[Sessions!Short(c)] = cache[Sessions!Short(c)]
            /\ c \notin Named /\ LedByFirst(c) /\ req'[c].calm = TRUE /\ turn[c] # 1
            /\ \/ req'[c].pc = "fallback"
               \/ req'[c].pc = "bind" /\ req'[c].auth = served[c].auth
  PROVE  Conversing(c)'
<1>1. SessionsTyped /\ Fresh(c) /\ Settled(c)
  BY DEF SessionsInv, Conversing
<1>2. turn[c] \in Nat
  BY <1>1 DEF SessionsTyped
<1>3. Fresh(c)'
  BY <1>1, <1>2 DEF Fresh
<1>4. Settled(c)'
  <2> SUFFICES ASSUME served'[c].sure = TRUE PROVE Settled(c)'
    BY DEF Settled
  <2>1. served[c].sure = TRUE
    OBVIOUS
  <2>2. /\ served[c].auth \in Sessions!Available
        /\ served[c].at <= clock /\ clock <= served[c].at + TTL /\ turn[c] # 0
    BY <1>1, <2>1 DEF Settled
  <2>3. LedByFirst(c)'
    BY <2>1 DEF LedByFirst, Leads
  <2>4. Sessions!Available' = Sessions!Available
    BY AvailableIs
  <2> QED
    BY <2>1, <2>2, <2>3, <2>4 DEF Settled
<1> QED
  BY <1>3, <1>4 DEF Conversing

LEMMA LookupKeeps ==
  ASSUME SessionsInv, NEW c \in Conversations, Sessions!Lookup(c)
  PROVE  SessionsInv'
<1> DEFINE k == req[c].key
           b == cache[k]
           live == b.auth # 0 /\ ~Sessions!Expired(b)
<1>1. req[c].pc = "lookup" /\ UNCHANGED <<clock, held, turn>>
  BY DEF Sessions!Lookup
<1>2. SessionsTyped /\ Conversing(c) /\ InSelector(c)
  BY DEF SessionsInv, Conversing
<1>3. KeysOfTurn(c) /\ k \in Sessions!Keys
  BY <1>1, <1>2, TurnHasKeys
<1>4. k \in {Sessions!Short(c), Sessions!Full(c), Sessions!Id(c)}
  BY <1>3 DEF KeysOfTurn
<1>5. k = Sessions!Full(c) => turn[c] > 1
  BY <1>3, KeysDiffer DEF KeysOfTurn
<1>6. b \in Bindings /\ TTL \in Nat /\ clock \in Nat /\ turn \in [Conversations -> Nat]
  BY <1>2, <1>3, AffinitySound DEF SessionsTyped
<1>7. Sessions!Full(c) \in Sessions!Keys /\ Sessions!Short(c) \in Sessions!Keys
  BY KeysAre
<1>8. served[c].sure = TRUE =>
         \/ b.auth = served[c].auth /\ live /\ b.auth \in req[c].open
         \/ /\ ~live /\ ~Sessions!Expired(b) /\ c \notin Named
            /\ req[c].fallback = Sessions!Short(c) /\ LedByFirst(c)
  BY <1>1, <1>2, SettledLookup
<1>9. served[c].sure \in BOOLEAN
  BY <1>2 DEF SessionsTyped, Histories
<1>10. CASE live /\ b.auth \in req[c].open
  <2>1. Sessions!Bind(k, b.auth) /\ Sessions!Serve(c, b.auth, served)
    BY <1>10 DEF Sessions!Lookup
  <2>2. [auth |-> b.auth, expires |-> clock + TTL] \in Bindings
    BY <1>6 DEF Bindings
  <2>3. cache' = [cache EXCEPT ![k] = [auth |-> b.auth, expires |-> clock + TTL]]
    BY <2>1 DEF Sessions!Bind
  <2>4. b.auth \in Credentials /\ b.auth \in Auths
    BY <1>6, <1>10 DEF Bindings, Credentials
  <2> HIDE DEF b
  <2>5. /\ cache' \in [Sessions!Keys -> Bindings]
        /\ cache'[k] = [auth |-> b.auth, expires |-> clock + TTL]
        /\ \A j \in Sessions!Keys : j # k => cache'[j] = cache[j]
    <3> HIDE DEF k
    <3> QED
      BY <1>2, <1>3, <2>2, <2>3, BindingChanges
  <2>6. /\ served' \in [Conversations -> Histories] /\ req' \in [Conversations -> Requests]
        /\ served'[c] = [auth |-> b.auth, sure |-> req[c].calm, at |-> clock]
        /\ req'[c] = Sessions!Idle
        /\ \A d \in Conversations : d # c => served'[d] = served[d] /\ req'[d] = req[d]
    <3>1. served \in [Conversations -> Histories]
      BY <1>2 DEF SessionsTyped
    <3> QED
      BY <1>2, <2>1, <2>4, <3>1, ServeIs
  <2>7. req[c].calm = TRUE => b.auth \in Sessions!Available
    BY <1>1, <1>2, <1>10 DEF InSelector
  <2>8. Conversing(c)'
    BY <1>1, <2>4, <2>5, <2>6, <2>7, ServedIsSettled
  <2>9. \A d \in Conversations : d # c => Conversing(d)'
    <3>1. cache'[k].expires = clock + TTL /\ cache'[k].auth = cache[k].auth
      BY <2>5 DEF b
    <3> HIDE DEF k
    <3> QED
      BY <1>1, <1>4, <2>5, <2>6, <3>1, OthersKeep
  <2>10. SessionsTyped'
    BY <1>1, <1>2, <2>5, <2>6 DEF SessionsTyped
  <2> QED
    BY <2>8, <2>9, <2>10 DEF SessionsInv
<1>11. CASE live /\ b.auth \notin req[c].open
  <2>1. Sessions!Bind(k, b.auth) /\ Sessions!Goes(c, "pick") /\ served' = served
    BY <1>11 DEF Sessions!Lookup
  <2>2. [auth |-> b.auth, expires |-> clock + TTL] \in Bindings
    BY <1>6 DEF Bindings
  <2>3. cache' = [cache EXCEPT ![k] = [auth |-> b.auth, expires |-> clock + TTL]]
    BY <2>1 DEF Sessions!Bind
  <2>4. /\ cache' \in [Sessions!Keys -> Bindings]
        /\ cache'[k] = [auth |-> b.auth, expires |-> clock + TTL]
        /\ \A j \in Sessions!Keys : j # k => cache'[j] = cache[j]
    <3> HIDE DEF k, b
    <3> QED
      BY <1>2, <1>3, <2>2, <2>3, BindingChanges
  <2>5. /\ req' \in [Conversations -> Requests]
        /\ req'[c].pc = "pick" /\ req'[c].key = req[c].key /\ req'[c].fallback = req[c].fallback
        /\ req'[c].open = req[c].open /\ req'[c].auth = req[c].auth /\ req'[c].calm = req[c].calm
        /\ \A d \in Conversations : d # c => req'[d] = req[d]
    BY <1>2, <2>1, RequestMoves
  <2>6. served[c].sure = FALSE
    BY <1>8, <1>9, <1>11
  <2>7. InSelector(c)'
    BY <1>1, <1>2, <2>5, AvailableIs DEF InSelector
  <2>8. cache'[Sessions!Full(c)] = cache[Sessions!Full(c)] \/ turn[c] > 1
    BY <1>5, <1>7, <2>4
  <2>9. Conversing(c)'
    BY <1>1, <2>1, <2>6, <2>7, <2>8, MovingKeeps
  <2>10. \A d \in Conversations : d # c => Conversing(d)'
    <3>1. cache'[k].expires = clock + TTL /\ cache'[k].auth = cache[k].auth
      BY <2>4
    <3> HIDE DEF k, b
    <3> QED
      BY <1>1, <1>4, <2>1, <2>4, <2>5, <3>1, OthersKeep
  <2>11. SessionsTyped'
    BY <1>1, <1>2, <2>1, <2>4, <2>5 DEF SessionsTyped
  <2> QED
    BY <2>9, <2>10, <2>11 DEF SessionsInv
<1>12. CASE ~live
  <2> DEFINE pc == IF req[c].fallback # Sessions!NoKey THEN "fallback" ELSE "pick"
  <2>1. /\ IF Sessions!Expired(b) THEN Sessions!Drop(k) ELSE UNCHANGED cache
        /\ Sessions!Goes(c, pc) /\ served' = served
    BY <1>12 DEF Sessions!Lookup
  <2>2. /\ cache' \in [Sessions!Keys -> Bindings]
        /\ cache'[k] = cache[k] \/ Sessions!Expired(cache[k])
        /\ \A j \in Sessions!Keys : j # k => cache'[j] = cache[j]
    <3>1. CASE Sessions!Expired(b)
      <4>1. cache' = [cache EXCEPT ![k] = Sessions!NoBinding]
        BY <2>1, <3>1 DEF Sessions!Drop
      <4>2. Sessions!NoBinding \in Bindings
        BY DEF Sessions!NoBinding, Bindings, Credentials
      <4> QED
        BY <1>2, <1>3, <3>1, <4>1, <4>2, BindingChanges
    <3>2. CASE ~Sessions!Expired(b)
      BY <1>2, <2>1, <3>2 DEF SessionsTyped
    <3> QED
      BY <3>1, <3>2
  <2>3. pc \in {"fallback", "pick"} /\ (pc = "fallback" => req[c].fallback # Sessions!NoKey)
        /\ (req[c].fallback # Sessions!NoKey => pc = "fallback")
    OBVIOUS
  <2> HIDE DEF pc
  <2>4. /\ req' \in [Conversations -> Requests]
        /\ req'[c].pc = pc /\ req'[c].key = req[c].key /\ req'[c].fallback = req[c].fallback
        /\ req'[c].open = req[c].open /\ req'[c].auth = req[c].auth /\ req'[c].calm = req[c].calm
        /\ \A d \in Conversations : d # c => req'[d] = req[d]
    BY <1>2, <2>1, <2>3, RequestMoves
  <2>5. InSelector(c)'
    BY <1>1, <1>2, <2>3, <2>4, AvailableIs DEF InSelector
  <2>6. cache'[Sessions!Full(c)] = cache[Sessions!Full(c)] \/ turn[c] > 1
    BY <1>5, <1>7, <2>2
  <2>7. \/ served[c].sure = FALSE
        \/ /\ cache'[Sessions!Full(c)] = cache[Sessions!Full(c)]
           /\ cache'[Sessions!Short(c)] = cache[Sessions!Short(c)]
           /\ c \notin Named /\ LedByFirst(c) /\ req'[c].calm = TRUE /\ turn[c] # 1
           /\ req'[c].pc = "fallback"
    <3> SUFFICES ASSUME served[c].sure = TRUE
                 PROVE  /\ cache'[Sessions!Full(c)] = cache[Sessions!Full(c)]
                        /\ cache'[Sessions!Short(c)] = cache[Sessions!Short(c)]
                        /\ c \notin Named /\ LedByFirst(c) /\ req'[c].calm = TRUE /\ turn[c] # 1
                        /\ req'[c].pc = "fallback"
      BY <1>9
    <3>1. /\ ~Sessions!Expired(b) /\ c \notin Named
          /\ req[c].fallback = Sessions!Short(c) /\ LedByFirst(c)
      BY <1>8, <1>12
    <3>2. req[c].calm = TRUE /\ turn[c] # 1
      BY <1>1, <1>2 DEF Conversing, Settled
    <3>3. cache' = cache
      BY <2>1, <3>1
    <3>4. req'[c].pc = "fallback"
      BY <2>3, <2>4, <3>1, KeysAre
    <3> QED
      BY <2>4, <3>1, <3>2, <3>3, <3>4
  <2>8. Conversing(c)'
    BY <1>1, <2>1, <2>5, <2>6, <2>7, MovingKeeps
  <2>9. \A d \in Conversations : d # c => Conversing(d)'
    <3> HIDE DEF k
    <3> QED
      BY <1>1, <1>4, <2>1, <2>2, <2>4, OthersKeep
  <2>10. SessionsTyped'
    BY <1>1, <1>2, <2>1, <2>2, <2>4 DEF SessionsTyped
  <2> QED
    BY <2>8, <2>9, <2>10 DEF SessionsInv
<1> QED
  BY <1>10, <1>11, <1>12

LEMMA FallbackKeeps ==
  ASSUME SessionsInv, NEW c \in Conversations, Sessions!Fallback(c)
  PROVE  SessionsInv'
<1> DEFINE r == req[c]
           b == cache[r.fallback]
           pc == IF Sessions!Expired(b) THEN "drop" ELSE IF b.auth \in r.open THEN "bind" ELSE "pick"
           e == [r EXCEPT !.pc = pc, !.auth = b.auth]
<1>1. /\ r.pc = "fallback" /\ UNCHANGED <<cache, clock, held, turn, served>>
      /\ req' = [req EXCEPT ![c] = e]
  BY DEF Sessions!Fallback
<1>2. SessionsTyped /\ Conversing(c) /\ InSelector(c)
  BY DEF SessionsInv, Conversing
<1>3. KeysOfTurn(c) /\ r.fallback # Sessions!NoKey /\ r.fallback \in SessionKeys
  BY <1>1, <1>2, TurnHasKeys DEF InSelector
<1>4. c \notin Named /\ turn[c] # 1 /\ r.fallback = Sessions!Short(c)
  BY <1>3 DEF KeysOfTurn
<1>5. r.fallback \in Sessions!Keys /\ r \in Requests /\ b \in Bindings
  BY <1>2, <1>4, KeysAre DEF SessionsTyped
<1>6. b.auth \in Credentials
  BY <1>5 DEF Bindings
<1>7. /\ pc \in {"drop", "bind", "pick"}
      /\ pc = "bind" => b.auth \in r.open
      /\ ~Sessions!Expired(b) /\ b.auth \in r.open => pc = "bind"
  OBVIOUS
<1> HIDE DEF pc
<1>8. e \in Requests /\ e.pc = pc /\ e.key = r.key /\ e.fallback = r.fallback
      /\ e.open = r.open /\ e.auth = b.auth /\ e.calm = r.calm
  <2> HIDE DEF r, b
  <2> QED
    BY <1>5, <1>6, <1>7 DEF Requests
<1> HIDE DEF e
<1>9. /\ req' \in [Conversations -> Requests] /\ req'[c] = e
      /\ \A d \in Conversations : d # c => req'[d] = req[d]
  BY <1>1, <1>2, <1>8 DEF SessionsTyped
<1>10. r.open \subseteq Auths
  <2> HIDE DEF r
  <2> QED
    BY <1>5 DEF Requests
<1>11. InSelector(c)'
  <2>1. r.calm = TRUE => r.open = Sessions!Available
    BY <1>1, <1>2 DEF InSelector
  <2>2. turn'[c] >= 1
    BY <1>1, <1>2 DEF InSelector
  <2>3. /\ req'[c].key = Sessions!SessionIds(c, turn'[c]).primary
        /\ req'[c].fallback = Sessions!SessionIds(c, turn'[c]).fallback
    BY <1>1, <1>2, <1>8, <1>9 DEF InSelector
  <2>4. req'[c].fallback # Sessions!NoKey
    BY <1>3, <1>8, <1>9
  <2>5. req'[c].calm = TRUE => req'[c].open = Sessions!Available'
    BY <1>1, <1>8, <1>9, <2>1, AvailableIs
  <2>6. req'[c].pc = "bind" => req'[c].auth \in Auths
    BY <1>7, <1>8, <1>9, <1>10
  <2>7. req'[c].pc = "bind" /\ req'[c].calm = TRUE => req'[c].auth \in Sessions!Available'
    BY <1>1, <1>7, <1>8, <1>9, <2>1, AvailableIs
  <2> QED
    BY <2>2, <2>3, <2>4, <2>5, <2>6, <2>7 DEF InSelector
<1>12. \/ served[c].sure = FALSE
       \/ /\ cache'[Sessions!Full(c)] = cache[Sessions!Full(c)]
          /\ cache'[Sessions!Short(c)] = cache[Sessions!Short(c)]
          /\ c \notin Named /\ LedByFirst(c) /\ req'[c].calm = TRUE /\ turn[c] # 1
          /\ req'[c].pc = "bind" /\ req'[c].auth = served[c].auth
  <2>1. served[c].sure \in BOOLEAN
    BY <1>2 DEF SessionsTyped, Histories
  <2>2. CASE served[c].sure = TRUE
    <3>1. Settled(c) /\ LedByFirst(c) /\ r.calm = TRUE
      BY <1>1, <1>2, <2>2 DEF Conversing, Settled
    <3>2. Leads(r.fallback, c)
      BY <1>4, <3>1 DEF LedByFirst
    <3>3. ~Sessions!Expired(b) /\ b.auth \in Sessions!Available /\ b.auth = served[c].auth
      BY <1>2, <1>5, <2>2, <3>1, <3>2, LeadLives DEF Leads
    <3>4. r.open = Sessions!Available
      BY <1>1, <1>2, <3>1 DEF InSelector
    <3> QED
      BY <1>1, <1>4, <1>7, <1>8, <1>9, <3>1, <3>3, <3>4
  <2> QED
    BY <2>1, <2>2
<1>13. Conversing(c)'
  BY <1>1, <1>11, <1>12, MovingKeeps
<1>14. \A d \in Conversations : d # c => Conversing(d)'
  BY <1>1, <1>9, OthersKeep
<1>15. SessionsTyped'
  BY <1>1, <1>2, <1>9 DEF SessionsTyped
<1> QED
  BY <1>13, <1>14, <1>15 DEF SessionsInv

\* The history doubts those that a key may lead elsewhere, and no other.
LEMMA MovedIs ==
  ASSUME SessionsTyped, NEW k, NEW a
  PROVE  /\ Sessions!Moved(k, a) \in [Conversations -> Histories]
         /\ \A d \in Conversations : LET h == Sessions!Moved(k, a)[d] IN
              /\ h = served[d] \/ h.sure = FALSE
              /\ served[d].sure = FALSE => h.sure = FALSE
              /\ Sessions!Short(d) = k => h.sure = FALSE \/ a = served[d].auth
<1>1. \A d \in Conversations : served[d] \in Histories
  BY DEF SessionsTyped
<1>2. \A h \in Histories : Sessions!Doubted(h) \in Histories /\ Sessions!Doubted(h).sure = FALSE
  BY DEF Sessions!Doubted, Histories
<1>3. \A d \in Conversations :
        Sessions!Moved(k, a)[d] =
          IF k \in {Sessions!Short(d), Sessions!Full(d), Sessions!Id(d)} /\ served[d].auth # a
          THEN Sessions!Doubted(served[d]) ELSE served[d]
  BY DEF Sessions!Moved
<1>4. Sessions!Moved(k, a) = [d \in Conversations |-> Sessions!Moved(k, a)[d]]
  BY DEF Sessions!Moved
<1>5. \A d \in Conversations : Sessions!Moved(k, a)[d] \in Histories
  BY <1>1, <1>2, <1>3
<1> QED
  BY <1>1, <1>2, <1>3, <1>4, <1>5

LEMMA DropKeeps ==
  ASSUME SessionsInv, NEW c \in Conversations, Sessions!DropFallback(c)
  PROVE  SessionsInv'
<1> DEFINE k == req[c].fallback
           h == Sessions!Moved(k, 0)
<1>1. /\ req[c].pc = "drop" /\ UNCHANGED <<clock, held, turn>>
      /\ cache' = [cache EXCEPT ![k] = Sessions!NoBinding]
      /\ served' = h /\ Sessions!Goes(c, "pick")
  BY DEF Sessions!DropFallback, Sessions!Drop
<1>2. SessionsTyped /\ Conversing(c) /\ InSelector(c)
  BY DEF SessionsInv, Conversing
<1>3. k = Sessions!Short(c) /\ k \in Sessions!Keys
  BY <1>1, <1>2, TurnHasKeys, KeysAre DEF KeysOfTurn, InSelector
<1>4. /\ h \in [Conversations -> Histories]
      /\ \A d \in Conversations :
           /\ h[d] = served[d] \/ h[d].sure = FALSE
           /\ served[d].sure = FALSE => h[d].sure = FALSE
           /\ Sessions!Short(d) = k => h[d].sure = FALSE \/ 0 = served[d].auth
  BY <1>2, MovedIs
<1> HIDE DEF h, k
<1>5. /\ cache' \in [Sessions!Keys -> Bindings]
      /\ \A j \in Sessions!Keys : j # k => cache'[j] = cache[j]
  <2>1. Sessions!NoBinding \in Bindings
    BY DEF Sessions!NoBinding, Bindings, Credentials
  <2> QED
    BY <1>1, <1>2, <1>3, <2>1, BindingChanges
<1>6. /\ req' \in [Conversations -> Requests]
      /\ req'[c].pc = "pick" /\ req'[c].key = req[c].key /\ req'[c].fallback = req[c].fallback
      /\ req'[c].open = req[c].open /\ req'[c].auth = req[c].auth /\ req'[c].calm = req[c].calm
      /\ \A d \in Conversations : d # c => req'[d] = req[d]
  BY <1>1, <1>2, RequestMoves
<1>7. \A d \in Conversations : h[d].sure = TRUE => served[d].auth # 0
  <2> SUFFICES ASSUME NEW d \in Conversations, h[d].sure = TRUE PROVE served[d].auth # 0
    OBVIOUS
  <2>1. served[d].sure = TRUE
    BY <1>2, <1>4 DEF SessionsTyped, Histories
  <2>2. served[d].auth \in Sessions!Available
    BY <2>1 DEF SessionsInv, Conversing, Settled
  <2> QED
    BY <2>2, AvailableIs, AffinitySound
<1>8. served[c].sure = FALSE
  <2>1. served[c].sure \in BOOLEAN
    BY <1>2 DEF SessionsTyped, Histories
  <2>2. served[c].sure = TRUE => req[c].pc \in {"lookup", "fallback", "bind"}
    BY <1>1, <1>2 DEF Conversing, Settled
  <2> QED
    BY <1>1, <2>1, <2>2
<1>9. Conversing(c)'
  <2>1. Sessions!Full(c) \in Sessions!Keys /\ Sessions!Full(c) # k
    BY <1>3, KeysAre, KeysDiffer
  <2>2. Fresh(c)'
    BY <1>1, <1>2, <1>5, <2>1 DEF Conversing, Fresh
  <2>3. InSelector(c)'
    BY <1>1, <1>2, <1>6, AvailableIs DEF InSelector
  <2>4. Settled(c)'
    BY <1>1, <1>4, <1>8 DEF Settled
  <2> QED
    BY <2>2, <2>3, <2>4 DEF Conversing
<1>10. \A d \in Conversations : d # c => Conversing(d)'
  <2>1. \A d \in Conversations : served'[d] = served[d] \/ served'[d].sure = FALSE
    BY <1>1, <1>4
  <2>2. \A d \in Conversations : Sessions!Short(d) = k => served'[d].sure = FALSE
    <3>1. \A d \in Conversations : h[d].sure \in BOOLEAN
      BY <1>4 DEF Histories
    <3> QED
      BY <1>1, <1>4, <1>7, <3>1
  <2> QED
    BY <1>1, <1>3, <1>5, <1>6, <2>1, <2>2, OthersKeep
<1>11. SessionsTyped'
  BY <1>1, <1>2, <1>4, <1>5, <1>6 DEF SessionsTyped
<1> QED
  BY <1>9, <1>10, <1>11 DEF SessionsInv

LEMMA PickKeeps ==
  ASSUME SessionsInv, NEW c \in Conversations, Sessions!Pick(c)
  PROVE  SessionsInv'
<1>1. req[c].pc = "pick" /\ UNCHANGED <<cache, clock, held, turn, served>>
  BY DEF Sessions!Pick
<1>2. SessionsTyped /\ Conversing(c) /\ InSelector(c) /\ req[c] \in Requests
  BY DEF SessionsInv, Conversing, SessionsTyped
<1>3. \E e \in Requests :
        /\ req' = [req EXCEPT ![c] = e]
        /\ e.pc # "idle" =>
             /\ e.pc = "bind" /\ e.key = req[c].key /\ e.fallback = req[c].fallback
             /\ e.open = req[c].open /\ e.calm = req[c].calm /\ e.auth \in Sessions!Available
  <2>1. CASE Sessions!Available = {}
    <3>1. req' = [req EXCEPT ![c] = Sessions!Idle]
      BY <2>1 DEF Sessions!Pick
    <3>2. Sessions!Idle \in Requests /\ Sessions!Idle.pc = "idle"
      BY DEF Sessions!Idle, Requests, Credentials, SessionKeys
    <3> QED
      BY <3>1, <3>2
  <2>2. CASE Sessions!Available # {}
    <3>1. PICK a \in Auths :
            (\E n : Sessions!IsAt(a, Sessions!Preferred(c), n))
            /\ req' = [req EXCEPT ![c] = Sessions!Picked(@, a)]
      BY <2>2 DEF Sessions!Pick
    <3>2. a \in Sessions!Available
      BY <3>1 DEF Sessions!IsAt, Sessions!Preferred
    <3>3. \A r \in Requests : LET e == Sessions!Picked(r, a) IN
            /\ e \in Requests /\ e.pc = "bind" /\ e.key = r.key /\ e.fallback = r.fallback
            /\ e.open = r.open /\ e.calm = r.calm /\ e.auth = a
      BY DEF Sessions!Picked, Requests, Credentials
    <3>4. req' = [req EXCEPT ![c] = Sessions!Picked(req[c], a)]
      BY <3>1
    <3> QED
      BY <1>2, <3>2, <3>3, <3>4
  <2> QED
    BY <2>1, <2>2
<1>4. PICK e \in Requests :
        /\ req' = [req EXCEPT ![c] = e]
        /\ e.pc # "idle" =>
             /\ e.pc = "bind" /\ e.key = req[c].key /\ e.fallback = req[c].fallback
             /\ e.open = req[c].open /\ e.calm = req[c].calm /\ e.auth \in Sessions!Available
  BY <1>3
<1>5. /\ req' \in [Conversations -> Requests] /\ req'[c] = e
      /\ \A d \in Conversations : d # c => req'[d] = req[d]
  BY <1>2, <1>4 DEF SessionsTyped
<1>6. InSelector(c)'
  BY <1>1, <1>2, <1>4, <1>5, AvailableIs DEF InSelector
<1>7. served[c].sure = FALSE
  <2>1. served[c].sure \in BOOLEAN
    BY <1>2 DEF SessionsTyped, Histories
  <2>2. served[c].sure = TRUE => req[c].pc \in {"lookup", "fallback", "bind"}
    BY <1>1, <1>2 DEF Conversing, Settled
  <2> QED
    BY <1>1, <2>1, <2>2
<1>8. Conversing(c)'
  BY <1>1, <1>6, <1>7, MovingKeeps
<1>9. \A d \in Conversations : d # c => Conversing(d)'
  BY <1>1, <1>5, OthersKeep
<1>10. SessionsTyped'
  BY <1>1, <1>2, <1>5 DEF SessionsTyped
<1> QED
  BY <1>8, <1>9, <1>10 DEF SessionsInv

LEMMA BindingKeeps ==
  ASSUME SessionsInv, NEW c \in Conversations, Sessions!SetBinding(c)
  PROVE  SessionsInv'
<1> DEFINE k == req[c].key
           a == req[c].auth
           h == Sessions!Moved(k, a)
           b == [auth |-> a, expires |-> clock + TTL]
<1>1. /\ req[c].pc = "bind" /\ UNCHANGED <<clock, held, turn>>
      /\ cache' = [cache EXCEPT ![k] = b]
      /\ Sessions!Serve(c, a, h)
  BY DEF Sessions!SetBinding, Sessions!Bind
<1>2. SessionsTyped /\ Conversing(c) /\ InSelector(c)
  BY DEF SessionsInv, Conversing
<1>3. KeysOfTurn(c) /\ k \in Sessions!Keys
  BY <1>1, <1>2, TurnHasKeys
<1>4. k \in {Sessions!Short(c), Sessions!Full(c), Sessions!Id(c)}
  BY <1>3 DEF KeysOfTurn
<1>5. a \in Auths /\ a \in Credentials /\ (req[c].calm = TRUE => a \in Sessions!Available)
  BY <1>1, <1>2 DEF InSelector, Credentials
<1>6. /\ h \in [Conversations -> Histories]
      /\ \A d \in Conversations :
           /\ h[d] = served[d] \/ h[d].sure = FALSE
           /\ Sessions!Short(d) = k => h[d].sure = FALSE \/ a = served[d].auth
  BY <1>2, MovedIs
<1>7. TTL \in Nat /\ clock \in Nat
  BY <1>2, AffinitySound DEF SessionsTyped
<1>8. b \in Bindings /\ b.auth = a /\ b.expires = clock + TTL
  BY <1>5, <1>7 DEF Bindings
<1> HIDE DEF h, b
<1>9. /\ cache' \in [Sessions!Keys -> Bindings] /\ cache'[k] = b
      /\ \A j \in Sessions!Keys : j # k => cache'[j] = cache[j]
  <2> HIDE DEF k
  <2> QED
    BY <1>1, <1>2, <1>3, <1>8, BindingChanges
<1>10. /\ served' \in [Conversations -> Histories] /\ req' \in [Conversations -> Requests]
       /\ served'[c] = [auth |-> a, sure |-> req[c].calm, at |-> clock]
       /\ req'[c] = Sessions!Idle
       /\ \A d \in Conversations : d # c => served'[d] = h[d] /\ req'[d] = req[d]
  BY <1>1, <1>2, <1>5, <1>6, ServeIs
<1>11. Conversing(c)'
  BY <1>1, <1>5, <1>9, <1>10, ServedIsSettled DEF b
<1>12. \A d \in Conversations : d # c => Conversing(d)'
  <2> HIDE DEF k, a
  <2>1. cache'[k].expires = clock + TTL /\ cache'[k].auth = a
    BY <1>8, <1>9
  <2>2. \A d \in Conversations : d # c =>
          /\ turn'[d] = turn[d] /\ req'[d] = req[d]
          /\ served'[d] = served[d] \/ served'[d].sure = FALSE
          /\ Sessions!Short(d) = k =>
                \/ served'[d].sure = FALSE
                \/ cache'[k] = cache[k] \/ Sessions!Expired(cache[k])
                \/ /\ cache'[k].expires = clock + TTL
                   /\ cache'[k].auth = cache[k].auth \/ cache'[k].auth = served[d].auth
    BY <1>1, <1>6, <1>10, <2>1
  <2>3. held' = held /\ clock' = clock /\ \A j \in Sessions!Keys : j # k => cache'[j] = cache[j]
    BY <1>1, <1>9
  <2> QED
    BY <1>4, <2>2, <2>3, OthersKeep
<1>13. SessionsTyped'
  BY <1>1, <1>2, <1>9, <1>10 DEF SessionsTyped
<1> QED
  BY <1>11, <1>12, <1>13 DEF SessionsInv

\* When the credentials change the history is sure of nothing.
LEMMA StirKeeps ==
  ASSUME SessionsInv, Sessions!Stir, UNCHANGED <<clock, turn>>,
         cache' \in [Sessions!Keys -> Bindings],
         \A k \in Sessions!Keys : cache'[k] = cache[k] \/ cache'[k] = Sessions!NoBinding
  PROVE  SessionsInv'
<1>1. SessionsTyped
  BY DEF SessionsInv
<1>2. \A h \in Histories : Sessions!Doubted(h) \in Histories /\ Sessions!Doubted(h).sure = FALSE
  BY DEF Sessions!Doubted, Histories
<1>3. \A r \in Requests : LET e == Sessions!Stirred(r) IN
        /\ e \in Requests /\ e.calm = FALSE /\ e.pc = r.pc /\ e.key = r.key
        /\ e.fallback = r.fallback /\ e.auth = r.auth
  BY DEF Sessions!Stirred, Requests
<1>4. /\ served' = [c \in Conversations |-> Sessions!Doubted(served[c])]
      /\ req' = [c \in Conversations |-> Sessions!Stirred(req[c])]
  BY DEF Sessions!Stir
<1>5. SessionsTyped'
  BY <1>1, <1>2, <1>3, <1>4 DEF SessionsTyped
<1>6. ASSUME NEW c \in Conversations
      PROVE  Conversing(c)'
  <2>1. Conversing(c) /\ req[c] \in Requests /\ served[c] \in Histories
    BY <1>1 DEF SessionsInv, SessionsTyped
  <2>2. Fresh(c)'
    BY <2>1, KeysAre DEF Conversing, Fresh
  <2>3. InSelector(c)'
    BY <1>3, <1>4, <2>1 DEF Conversing, InSelector
  <2>4. Settled(c)'
    BY <1>2, <1>4, <2>1 DEF Settled
  <2> QED
    BY <2>2, <2>3, <2>4 DEF Conversing
<1> QED
  BY <1>5, <1>6 DEF SessionsInv

LEMMA TickKeeps ==
  ASSUME SessionsInv, Sessions!Tick
  PROVE  SessionsInv'
<1>1. SessionsTyped
  BY DEF SessionsInv
<1>2. \A h \in Histories : Sessions!Doubted(h) \in Histories /\ Sessions!Doubted(h).sure = FALSE
  BY DEF Sessions!Doubted, Histories
<1>3. /\ clock' = clock + 1 /\ UNCHANGED <<cache, held, turn, req>>
      /\ served' = [c \in Conversations |->
           IF clock + 1 > served[c].at + TTL THEN Sessions!Doubted(served[c]) ELSE served[c]]
  BY DEF Sessions!Tick
<1>4. SessionsTyped'
  BY <1>1, <1>2, <1>3 DEF SessionsTyped
<1>5. ASSUME NEW c \in Conversations
      PROVE  Conversing(c)'
  <2>1. Conversing(c) /\ served[c] \in Histories /\ clock \in Nat /\ TTL \in Nat
    BY <1>1, AffinitySound DEF SessionsInv, SessionsTyped
  <2>2. Fresh(c)'
    BY <1>3, <2>1 DEF Conversing, Fresh
  <2>3. InSelector(c)'
    BY <1>3, <2>1, AvailableIs DEF Conversing, InSelector
  <2>4. Settled(c)'
    <3> SUFFICES ASSUME served'[c].sure = TRUE PROVE Settled(c)'
      BY DEF Settled
    <3>1. served'[c] = served[c] /\ ~(clock + 1 > served[c].at + TTL)
      BY <1>2, <1>3, <2>1
    <3>2. /\ served[c].auth \in Sessions!Available
          /\ served[c].at <= clock
          /\ IF c \in Named THEN Leads(Sessions!Id(c), c)
             ELSE Leads(Sessions!Full(c), c) \/ LedByFirst(c)
          /\ turn[c] # 0
          /\ req[c].pc # "idle" =>
               /\ turn[c] # 1 /\ req[c].calm = TRUE
               /\ req[c].pc \in {"lookup", "fallback", "bind"}
               /\ req[c].pc = "fallback" => c \notin Named /\ LedByFirst(c)
               /\ req[c].pc = "bind" => req[c].auth = served[c].auth
      BY <2>1, <3>1 DEF Conversing, Settled
    <3>3. /\ \A k : Leads(k, c)' <=> Leads(k, c)
          /\ LedByFirst(c)' <=> LedByFirst(c)
      BY <1>3, <3>1 DEF Leads, LedByFirst
    <3>4. served'[c].at <= clock' /\ clock' <= served'[c].at + TTL
      BY <1>3, <2>1, <3>1, <3>2 DEF Histories
    <3> QED
      BY <1>3, <3>1, <3>2, <3>3, <3>4, AvailableIs DEF Settled
  <2> QED
    BY <2>2, <2>3, <2>4 DEF Conversing
<1> QED
  BY <1>4, <1>5 DEF SessionsInv

LEMMA SessionsStep == SessionsInv /\ [Sessions!Next]_sessionsVars => SessionsInv'
<1> SUFFICES ASSUME SessionsInv, [Sessions!Next]_sessionsVars
             PROVE  SessionsInv'
  OBVIOUS
<1>1. SessionsTyped
  BY DEF SessionsInv
<1>2. ASSUME UNCHANGED <<clock, held, turn, req, served>>,
             cache' \in [Sessions!Keys -> Bindings],
             \A k \in Sessions!Keys : cache'[k] = cache[k] \/ Sessions!Expired(cache[k])
      PROVE  SessionsInv'
  <2>1. \A c \in Conversations : Conversing(c)'
    BY <1>1, <1>2, KeysAre, BystanderKeeps DEF SessionsInv
  <2>2. SessionsTyped'
    BY <1>1, <1>2 DEF SessionsTyped
  <2> QED
    BY <2>1, <2>2 DEF SessionsInv
<1>3. CASE UNCHANGED sessionsVars
  BY <1>1, <1>2, <1>3 DEF sessionsVars, SessionsTyped
<1>4. CASE Sessions!Cleanup
  <2>1. UNCHANGED <<clock, held, turn, req, served>>
        /\ cache' = [k \in Sessions!Keys |->
                       IF Sessions!Expired(cache[k]) THEN Sessions!NoBinding ELSE cache[k]]
    BY <1>4 DEF Sessions!Cleanup
  <2>2. Sessions!NoBinding \in Bindings
    BY DEF Sessions!NoBinding, Bindings, Credentials
  <2> QED
    BY <1>1, <1>2, <2>1, <2>2 DEF SessionsTyped
<1>5. ASSUME NEW a \in Auths, Sessions!Holding(a)
      PROVE  SessionsInv'
  BY <1>1, <1>5, StirKeeps DEF Sessions!Holding, SessionsTyped
<1>6. ASSUME NEW a \in Auths, Sessions!Invalidate(a)
      PROVE  SessionsInv'
  <2>1. Sessions!Stir /\ UNCHANGED <<clock, turn>>
        /\ cache' = [k \in Sessions!Keys |->
                       IF cache[k].auth = a THEN Sessions!NoBinding ELSE cache[k]]
    BY <1>6 DEF Sessions!Invalidate
  <2>2. Sessions!NoBinding \in Bindings
    BY DEF Sessions!NoBinding, Bindings, Credentials
  <2> QED
    BY <1>1, <2>1, <2>2, StirKeeps DEF SessionsTyped
<1>7. ASSUME NEW c \in Conversations, Sessions!Request(c)
      PROVE  SessionsInv'
  BY <1>7, EnterKeeps, LookupKeeps, FallbackKeeps, DropKeeps, PickKeeps, BindingKeeps
     DEF Sessions!Request
<1> QED
  BY <1>3, <1>4, <1>5, <1>6, <1>7, TickKeeps DEF Sessions!Next

\* A request that ends serves a settled conversation by its credential.
LEMMA SettledIsServed ==
  ASSUME SessionsInv, [Sessions!Next]_sessionsVars, NEW c \in Conversations,
         served[c].sure, req[c].pc # "idle", req'[c].pc = "idle"
  PROVE  served'[c].auth = served[c].auth
<1>1. SessionsTyped /\ Conversing(c) /\ InSelector(c) /\ Settled(c)
  BY DEF SessionsInv, Conversing
<1>2. served[c].sure = TRUE /\ req[c] \in Requests
  BY <1>1 DEF SessionsTyped, Histories
<1>3. /\ req[c].pc \in {"lookup", "fallback", "bind"}
      /\ req[c].pc = "bind" => req[c].auth = served[c].auth
  BY <1>1, <1>2 DEF Settled
<1>4. req'[c] # req[c]
  OBVIOUS
<1>5. ASSUME NEW d \in Conversations, Sessions!Request(d)
      PROVE  served'[c].auth = served[c].auth
  <2>1. d = c
    BY <1>1, <1>4, <1>5 DEF Sessions!Request, Sessions!Enter, Sessions!Lookup, Sessions!Fallback,
       Sessions!DropFallback, Sessions!Pick, Sessions!SetBinding, Sessions!Goes, Sessions!Serve,
       SessionsTyped
  <2>2. \/ Sessions!Lookup(c) /\ req[c].pc = "lookup"
        \/ Sessions!Fallback(c)
        \/ Sessions!SetBinding(c) /\ req[c].pc = "bind"
    BY <1>3, <1>5, <2>1 DEF Sessions!Request, Sessions!Enter, Sessions!Lookup,
       Sessions!DropFallback, Sessions!Pick, Sessions!SetBinding
  <2>3. CASE Sessions!Lookup(c) /\ req[c].pc = "lookup"
    <3> DEFINE b == cache[req[c].key]
               live == b.auth # 0 /\ ~Sessions!Expired(b)
    <3>1. CASE live /\ b.auth \in req[c].open
      <4>1. Sessions!Serve(c, b.auth, served)
        BY <2>3, <3>1 DEF Sessions!Lookup
      <4>2. b.auth = served[c].auth
        BY <1>1, <1>2, <2>3, <3>1, SettledLookup
      <4>3. served' = [served EXCEPT ![c] = [auth |-> b.auth, sure |-> req[c].calm, at |-> clock]]
        BY <4>1 DEF Sessions!Serve
      <4> HIDE DEF b
      <4> QED
        BY <1>1, <4>2, <4>3 DEF SessionsTyped
    <3>2. CASE live /\ b.auth \notin req[c].open
      <4>1. Sessions!Goes(c, "pick")
        BY <2>3, <3>2 DEF Sessions!Lookup
      <4>2. req'[c].pc = "pick"
        BY <1>1, <4>1, RequestMoves
      <4> QED
        BY <4>2
    <3>3. CASE ~live
      <4> DEFINE pc == IF req[c].fallback # Sessions!NoKey THEN "fallback" ELSE "pick"
      <4>1. Sessions!Goes(c, pc)
        BY <2>3, <3>3 DEF Sessions!Lookup
      <4>2. pc \in {"fallback", "pick"}
        OBVIOUS
      <4> HIDE DEF pc
      <4>3. req'[c].pc = pc
        BY <1>1, <4>1, <4>2, RequestMoves
      <4> QED
        BY <4>2, <4>3
    <3> QED
      BY <3>1, <3>2, <3>3
  <2>4. CASE Sessions!Fallback(c)
    BY <2>4 DEF Sessions!Fallback
  <2>5. CASE Sessions!SetBinding(c) /\ req[c].pc = "bind"
    <3> DEFINE a == req[c].auth
               h == Sessions!Moved(req[c].key, a)
    <3>1. served' = [h EXCEPT ![c] = [auth |-> a, sure |-> req[c].calm, at |-> clock]]
      BY <2>5 DEF Sessions!SetBinding, Sessions!Serve
    <3>2. h \in [Conversations -> Histories]
      BY <1>1, MovedIs
    <3>3. a = served[c].auth
      BY <1>3, <2>5
    <3> HIDE DEF a, h
    <3> QED
      BY <3>1, <3>2, <3>3
  <2> QED
    BY <2>2, <2>3, <2>4, <2>5
<1>6. CASE Sessions!Tick \/ Sessions!Cleanup \/ UNCHANGED sessionsVars
  BY <1>4, <1>6 DEF Sessions!Tick, Sessions!Cleanup, sessionsVars
<1>7. ASSUME Sessions!Stir PROVE FALSE
  <2>1. req'[c] = Sessions!Stirred(req[c])
    BY <1>7 DEF Sessions!Stir
  <2>2. \A r \in Requests : Sessions!Stirred(r).pc = r.pc
    BY DEF Sessions!Stirred, Requests
  <2> QED
    BY <1>2, <2>1, <2>2
<1>8. ASSUME NEW a \in Auths, Sessions!Holding(a) \/ Sessions!Invalidate(a)
      PROVE  FALSE
  BY <1>7, <1>8 DEF Sessions!Holding, Sessions!Invalidate
<1> QED
  BY <1>5, <1>6, <1>8 DEF Sessions!Next

\* A conversation stays with its credential from request to request, whatever
\* the other conversations, the clock and the clean-up do meanwhile, for every
\* set of conversations and credentials (SessionAffinitySelector.Pick,
\* SessionCache).
THEOREM SessionsStick == Sessions!Spec => SessionSticks
<1>1. Sessions!Init => SessionsInv
  BY SessionsStart
<1>2. SessionsInv /\ [Sessions!Next]_sessionsVars => SessionsInv'
  BY SessionsStep
<1>3. SessionsInv /\ [Sessions!Next]_sessionsVars
        => [\A c \in Conversations :
              served[c].sure /\ served'[c].at >= served[c].at
              /\ req[c].pc # "idle" /\ req'[c].pc = "idle"
                => served'[c].auth = served[c].auth]_sessionsVars
  BY SettledIsServed
<1>4. Sessions!vars = sessionsVars
  BY DEF Sessions!vars, sessionsVars
<1> QED
  BY <1>1, <1>2, <1>3, <1>4, PTL DEF Sessions!Spec, SessionSticks, Sessions!SessionSticks, Sessions!vars, sessionsVars

-----------------------------------------------------------------------------
(* The log of a request *)

LogPhases == {"none", "handling", "draining", "closing", "logging", "listing", "pruning", "over"}
PartFiles == [on : BOOLEAN, clean : BOOLEAN, parts : Seq(Nat)]
Pipes     == [on : BOOLEAN, queue : Seq(Nat), closed : BOOLEAN]
LogRequests ==
    [phase : LogPhases, onlyErrors : BOOLEAN, status : Nat, stream : BOOLEAN, failed : BOOLEAN,
     body : Seq(Nat), chunks : Pipes, writes : Pipes, file : Seq(Nat), temps : BOOLEAN,
     upload : PartFiles, asked : PartFiles, answers : PartFiles, deferred : Seq(Nat),
     askedHere : Seq(Nat), answersHere : Seq(Nat), force : BOOLEAN, listed : SUBSET Nat,
     said : Nat, attempts : Nat, replies : Nat, steady : BOOLEAN, late : BOOLEAN]
LogEntries ==
    [client : LogClients, error : BOOLEAN, there : BOOLEAN,
     response : Seq(Nat), asked : Seq(Nat), answers : Seq(Nat)]

LogsTyped ==
    /\ enabled \in BOOLEAN /\ capture \in BOOLEAN /\ toggles \in Nat
    /\ logs \in Seq(LogEntries) /\ logReq \in [LogClients -> LogRequests]

UpTo(n)      == [k \in 1..n |-> k]
Within(s, n) == \A k \in DOMAIN s : s[k] \in 1..n
Before(s, t) == \A j \in DOMAIN s, k \in DOMAIN t : s[j] < t[k]

Working(r) == r.phase \in {"handling", "draining", "closing", "logging"}
Ended(r)   == r.phase \in {"listing", "pruning", "over"}

\* A source is cleaned when the request has ended, and not before.
SourceHolds(s, r) ==
    /\ ~s.on => ~s.clean /\ s.parts = <<>>
    /\ s.clean => s.parts = <<>>
    /\ Ended(r) => s.clean = s.on
    /\ Working(r) => ~s.clean
SourcesHold(r) == SourceHolds(r.upload, r) /\ SourceHolds(r.asked, r) /\ SourceHolds(r.answers, r)

\* What was said passes through the channels to the file in its order.
InLine(f, w, q, n) ==
    /\ Within(f, n) /\ Within(w, n) /\ Within(q, n)
    /\ Log!Ordered(f) /\ Log!Ordered(w) /\ Log!Ordered(q)
    /\ Before(f, w) /\ Before(f, q) /\ Before(w, q)
InOrder(r) ==
    /\ Within(r.body, r.said) /\ Log!Ordered(r.body)
    /\ InLine(r.file, r.writes.queue, r.chunks.queue, r.said)

\* The writer and its temporary files are there together, and a log is forced
\* by a failure only.
Staged(r) ==
    /\ r.status = 0 => ~r.chunks.on /\ ~r.stream
    /\ r.temps = r.chunks.on /\ r.writes.on = r.chunks.on
    /\ r.phase \in {"draining", "closing"} => r.chunks.on
    /\ r.phase \in {"logging", "listing", "pruning"} => ~r.chunks.on
    /\ r.phase \in {"handling", "draining", "closing"} => ~r.force
    /\ r.phase \in {"listing", "pruning"} => r.force
    /\ r.force => r.onlyErrors /\ Log!HasError(r)

\* While nothing is switched, with the log (and the capture) as e says.
Steadily(r, e, k) ==
    r.steady /\ r.phase # "none" =>
        /\ r.onlyErrors = ~e /\ k = e
        /\ r.asked.on = e /\ r.answers.on = e
        /\ r.chunks.on => e /\ r.stream
        /\ Ended(r) => ~r.chunks.on
        /\ ~e /\ r.phase = "logging" => r.force
        /\ r.phase \in {"draining", "closing"} => e
        /\ e /\ ~r.stream => r.body = UpTo(r.said)
        /\ r.askedHere = <<>> /\ r.answersHere = <<>>
        /\ e /\ Working(r) => r.asked.parts = UpTo(r.attempts)
        /\ ~e => r.deferred = UpTo(r.attempts)
        /\ Within(r.answers.parts, r.attempts)

Carried(r, e, k) == SourcesHold(r) /\ InOrder(r) /\ Staged(r) /\ Steadily(r, e, k)

\* What a log says of the request r, with the log as e says.
Recounts(l, r, e) ==
    /\ Ended(r) /\ Log!Ordered(l.response)
    /\ r.steady =>
        /\ l.error = ~e
        /\ l.error => r.force
        /\ ~r.late => l.asked = UpTo(r.attempts)
        /\ ~r.late /\ e => Within(l.answers, r.attempts)
        /\ e /\ ~r.stream => l.response = UpTo(r.said)

Written ==
    /\ \A i \in DOMAIN logs : Recounts(logs[i], logReq[logs[i].client], enabled)
    /\ \A i, j \in DOMAIN logs : logs[i].client = logs[j].client => i = j
    /\ \A c \in LogClients : Ended(logReq[c]) /\ logReq[c].steady /\ enabled =>
        \E i \in DOMAIN logs : logs[i].client = c /\ logs[i].there /\ ~logs[i].error
    /\ \A c \in LogClients : Ended(logReq[c]) /\ logReq[c].steady /\ Log!HasError(logReq[c]) =>
        \E i \in DOMAIN logs : logs[i].client = c

\* What is listed are logs of failures, and there is one as new as any of them.
Failures ==
    /\ \A c \in LogClients : \A l \in logReq[c].listed :
        /\ l \in DOMAIN logs /\ logs[l].error
        /\ \E i \in Log!ErrorLogs : l <= i
    /\ \A c \in LogClients :
        Ended(logReq[c]) /\ logReq[c].force /\ logReq[c].steady => Log!ErrorLogs # {}

\* While nothing was switched at all, the error logs are few or about to be.
Few ==
    \/ Cardinality(Log!ErrorLogs) <= MaxFiles
    \/ \E c \in LogClients : logReq[c].phase = "listing"
    \/ \E c \in LogClients : logReq[c].phase = "pruning" /\ Log!ErrorLogs \subseteq logReq[c].listed
Untouched == toggles = 0 => Few /\ \A c \in LogClients : logReq[c].steady
AtFirst   == toggles = 0 => capture = enabled

LogInv ==
    /\ LogsTyped /\ AtFirst
    /\ \A c \in LogClients : Carried(logReq[c], enabled, capture)
    /\ Written /\ Failures /\ Untouched

-----------------------------------------------------------------------------
\* Sequences of what was said, in its order.
LEMMA OrderOfAppend ==
  ASSUME NEW s \in Seq(Nat), NEW n \in Nat, Within(s, n), Log!Ordered(s)
  PROVE  /\ Append(s, n + 1) \in Seq(Nat)
         /\ Within(Append(s, n + 1), n + 1) /\ Log!Ordered(Append(s, n + 1))
         /\ Within(s, n + 1)
<1> DEFINE t == Append(s, n + 1)
<1>1. /\ t \in Seq(Nat) /\ DOMAIN s = 1..Len(s) /\ DOMAIN t = 1..(Len(s) + 1) /\ Len(s) \in Nat
      /\ t[Len(s) + 1] = n + 1 /\ \A k \in 1..Len(s) : t[k] = s[k] /\ s[k] \in 1..n
  BY AppendProperties, LenProperties DEF Within
<1> HIDE DEF t
<1>2. Within(t, n + 1)
  <2> SUFFICES ASSUME NEW k \in 1..(Len(s) + 1) PROVE t[k] \in 1..(n + 1)
    BY <1>1 DEF Within
  <2>1. CASE k = Len(s) + 1
    BY <1>1, <2>1
  <2>2. CASE k # Len(s) + 1
    <3>1. k \in 1..Len(s)
      BY <1>1, <2>2
    <3>2. t[k] \in 1..n
      BY <1>1, <3>1
    <3> QED
      BY <3>2
  <2> QED
    BY <2>1, <2>2
<1>3. Log!Ordered(t)
  <2> SUFFICES ASSUME NEW j \in 1..(Len(s) + 1), NEW k \in 1..(Len(s) + 1), j < k PROVE t[j] < t[k]
    BY <1>1 DEF Log!Ordered
  <2>1. j \in 1..Len(s) /\ t[j] = s[j] /\ s[j] \in 1..n
    BY <1>1
  <2>2. CASE k = Len(s) + 1
    BY <1>1, <2>1, <2>2
  <2>3. CASE k # Len(s) + 1
    <3>0. k \in 1..Len(s)
      <4>1. Len(s) \in Nat
        BY <1>1
      <4> QED
        BY <4>1, <2>3
    <3>1. k \in 1..Len(s) /\ t[k] = s[k]
      BY <1>1, <3>0
    <3> QED
      BY <1>1, <2>1, <3>1 DEF Log!Ordered
  <2> QED
    BY <2>2, <2>3
<1>4. Within(s, n + 1)
  BY <1>1 DEF Within
<1> QED
  BY <1>1, <1>2, <1>3, <1>4 DEF t

LEMMA UpToNext ==
  ASSUME NEW n \in Nat
  PROVE  UpTo(n) \in Seq(Nat) /\ Append(UpTo(n), n + 1) = UpTo(n + 1)
<1>1. UpTo(n) \in Seq(Nat) /\ Len(UpTo(n)) = n /\ UpTo(n + 1) \in Seq(Nat) /\ Len(UpTo(n + 1)) = n + 1
  BY DEF UpTo
<1>2. /\ Append(UpTo(n), n + 1) \in Seq(Nat) /\ Len(Append(UpTo(n), n + 1)) = n + 1
      /\ \A k \in 1..n : Append(UpTo(n), n + 1)[k] = UpTo(n)[k]
      /\ Append(UpTo(n), n + 1)[n + 1] = n + 1
  BY <1>1, AppendProperties
<1>3. \A k \in 1..(n + 1) : Append(UpTo(n), n + 1)[k] = UpTo(n + 1)[k]
  <2> SUFFICES ASSUME NEW k \in 1..(n + 1) PROVE Append(UpTo(n), n + 1)[k] = UpTo(n + 1)[k]
    OBVIOUS
  <2>1. CASE k = n + 1
    BY <1>2, <2>1 DEF UpTo
  <2>2. CASE k # n + 1
    <3>1. k \in 1..n
      BY <2>2
    <3> QED
      BY <1>2, <3>1 DEF UpTo
  <2> QED
    BY <2>1, <2>2
<1> QED
  BY <1>1, <1>2, <1>3, SeqEqual

LEMMA NothingInLine ==
  ASSUME NEW n \in Nat
  PROVE  InLine(<<>>, <<>>, <<>>, n) /\ Within(<<>>, n) /\ Log!Ordered(<<>>) /\ UpTo(0) = <<>>
<1>1. DOMAIN <<>> = {}
  OBVIOUS
<1>2. UpTo(0) = <<>>
  BY DEF UpTo
<1> QED
  BY <1>1, <1>2 DEF InLine, Within, Before, Log!Ordered

\* What comes in goes behind the rest.
LEMMA LineOfSent ==
  ASSUME NEW f \in Seq(Nat), NEW w \in Seq(Nat), NEW q \in Seq(Nat), NEW n \in Nat,
         InLine(f, w, q, n)
  PROVE  InLine(f, w, Append(q, n + 1), n + 1) /\ InLine(f, w, q, n + 1)
<1> DEFINE t == Append(q, n + 1)
<1>1. /\ Within(t, n + 1) /\ Log!Ordered(t) /\ Within(f, n + 1) /\ Within(w, n + 1) /\ Within(q, n + 1)
  BY OrderOfAppend DEF InLine
<1>2. /\ t \in Seq(Nat) /\ DOMAIN q = 1..Len(q) /\ DOMAIN t = 1..(Len(q) + 1) /\ Len(q) \in Nat
      /\ t[Len(q) + 1] = n + 1 /\ \A k \in 1..Len(q) : t[k] = q[k]
  BY AppendProperties, LenProperties
<1> HIDE DEF t
<1>3. ASSUME NEW s \in Seq(Nat), Within(s, n), Before(s, q) PROVE Before(s, t)
  <2> SUFFICES ASSUME NEW j \in DOMAIN s, NEW k \in 1..(Len(q) + 1) PROVE s[j] < t[k]
    BY <1>2 DEF Before
  <2>1. s[j] \in 1..n
    BY <1>3 DEF Within
  <2>2. CASE k = Len(q) + 1
    BY <1>2, <2>1, <2>2
  <2>3. CASE k # Len(q) + 1
    <3>1. k \in DOMAIN q /\ t[k] = q[k]
      BY <1>2, <2>3
    <3> QED
      BY <1>3, <3>1 DEF Before
  <2> QED
    BY <2>2, <2>3
<1>4. Before(f, t) /\ Before(w, t)
  BY <1>3 DEF InLine
<1> QED
  BY <1>1, <1>4 DEF InLine, t

\* The first of what waits is passed on, or lost.
LEMMA FirstOf ==
  ASSUME NEW q \in Seq(Nat), q # <<>>
  PROVE  /\ Head(q) \in Nat /\ Tail(q) \in Seq(Nat) /\ 1 \in DOMAIN q /\ Head(q) = q[1]
         /\ \A k \in DOMAIN Tail(q) : k + 1 \in DOMAIN q /\ Tail(q)[k] = q[k + 1] /\ k \in Nat /\ 1 < k + 1
<1>1. /\ DOMAIN q = 1..Len(q) /\ Len(q) \in Nat /\ Len(q) # 0 /\ Tail(q) \in Seq(Nat)
      /\ Len(Tail(q)) = Len(q) - 1
      /\ \A k \in 1..Len(Tail(q)) : Tail(q)[k] = q[k + 1]
  BY HeadTailProperties, LenProperties, EmptySeq
<1>2. DOMAIN Tail(q) = 1..(Len(q) - 1)
  BY <1>1, LenProperties
<1>3. Head(q) = q[1] /\ Head(q) \in Nat
  BY <1>1, HeadTailProperties
<1> QED
  BY <1>1, <1>2, <1>3

LEMMA OrderOfTail ==
  ASSUME NEW q \in Seq(Nat), NEW n \in Nat, q # <<>>, Within(q, n), Log!Ordered(q)
  PROVE  /\ Within(Tail(q), n) /\ Log!Ordered(Tail(q)) /\ Head(q) \in 1..n
         /\ \A k \in DOMAIN Tail(q) : Head(q) < Tail(q)[k]
<1>1. Within(Tail(q), n) /\ Head(q) \in 1..n
  BY FirstOf DEF Within
<1>2. Log!Ordered(Tail(q))
  <2> SUFFICES ASSUME NEW j \in DOMAIN Tail(q), NEW k \in DOMAIN Tail(q), j < k
               PROVE  Tail(q)[j] < Tail(q)[k]
    BY DEF Log!Ordered
  <2>1. j + 1 \in DOMAIN q /\ k + 1 \in DOMAIN q /\ j + 1 < k + 1
    BY FirstOf
  <2>2. q[j + 1] < q[k + 1]
    BY <2>1 DEF Log!Ordered
  <2> QED
    BY <2>2, FirstOf
<1>3. ASSUME NEW k \in DOMAIN Tail(q) PROVE Head(q) < Tail(q)[k]
  <2>1. 1 \in DOMAIN q /\ k + 1 \in DOMAIN q /\ 1 < k + 1
    BY FirstOf
  <2>2. q[1] < q[k + 1]
    BY <2>1 DEF Log!Ordered
  <2> QED
    BY <2>2, FirstOf
<1> QED
  BY <1>1, <1>2, <1>3

\* Something later than all of a sequence, at its end.
LEMMA OrderOfLater ==
  ASSUME NEW w \in Seq(Nat), NEW x \in Nat, NEW n \in Nat, Within(w, n), Log!Ordered(w),
         x \in 1..n, \A k \in DOMAIN w : w[k] < x
  PROVE  Within(Append(w, x), n) /\ Log!Ordered(Append(w, x)) /\ Append(w, x) \in Seq(Nat)
<1> DEFINE t == Append(w, x)
<1>1. /\ t \in Seq(Nat) /\ DOMAIN w = 1..Len(w) /\ DOMAIN t = 1..(Len(w) + 1) /\ Len(w) \in Nat
      /\ t[Len(w) + 1] = x /\ \A k \in 1..Len(w) : t[k] = w[k] /\ w[k] \in 1..n
  BY AppendProperties, LenProperties DEF Within
<1> HIDE DEF t
<1>2. \A k \in 1..(Len(w) + 1) : k = Len(w) + 1 \/ k \in 1..Len(w)
  BY <1>1
<1>3. Within(t, n)
  BY <1>1, <1>2 DEF Within
<1>4. Log!Ordered(t)
  <2> SUFFICES ASSUME NEW j \in 1..(Len(w) + 1), NEW k \in 1..(Len(w) + 1), j < k PROVE t[j] < t[k]
    BY <1>1 DEF Log!Ordered
  <2>1. j \in 1..Len(w) /\ t[j] = w[j]
    BY <1>1
  <2>2. CASE k = Len(w) + 1
    BY <1>1, <2>1, <2>2
  <2>3. CASE k # Len(w) + 1
    <3>0. k \in 1..Len(w)
      <4>1. Len(w) \in Nat
        BY <1>1
      <4> QED
        BY <4>1, <2>3
    <3>1. k \in 1..Len(w) /\ t[k] = w[k]
      BY <1>1, <3>0
    <3> QED
      BY <1>1, <2>1, <3>1 DEF Log!Ordered
  <2> QED
    BY <2>2, <2>3
<1> QED
  BY <1>1, <1>3, <1>4 DEF t

\* A chunk goes from the one channel to the other, or is lost.
LEMMA LineOfPassed ==
  ASSUME NEW f \in Seq(Nat), NEW w \in Seq(Nat), NEW q \in Seq(Nat), NEW n \in Nat,
         InLine(f, w, q, n), q # <<>>
  PROVE  InLine(f, Append(w, Head(q)), Tail(q), n) /\ InLine(f, w, Tail(q), n)
<1>1. /\ Within(Tail(q), n) /\ Log!Ordered(Tail(q)) /\ Head(q) \in 1..n /\ Head(q) \in Nat
      /\ \A k \in DOMAIN Tail(q) : Head(q) < Tail(q)[k]
  BY OrderOfTail, FirstOf DEF InLine
<1>2. Before(f, Tail(q)) /\ Before(w, Tail(q))
  <2>1. ASSUME NEW s, Before(s, q), NEW j \in DOMAIN s, NEW k \in DOMAIN Tail(q) PROVE s[j] < Tail(q)[k]
    <3>1. k + 1 \in DOMAIN q /\ Tail(q)[k] = q[k + 1]
      BY FirstOf
    <3> QED
      BY <2>1, <3>1 DEF Before
  <2> QED
    BY <2>1 DEF Before, InLine
<1>3. /\ \A k \in DOMAIN w : w[k] < Head(q)
      /\ \A k \in DOMAIN f : f[k] < Head(q)
  BY FirstOf DEF Before, InLine
<1>4. Within(Append(w, Head(q)), n) /\ Log!Ordered(Append(w, Head(q)))
  BY <1>1, <1>3, OrderOfLater DEF InLine
<1> DEFINE t == Append(w, Head(q))
<1>5. /\ DOMAIN t = 1..(Len(w) + 1) /\ DOMAIN w = 1..Len(w) /\ Len(w) \in Nat
      /\ t[Len(w) + 1] = Head(q) /\ \A k \in DOMAIN w : t[k] = w[k]
  BY <1>1, AppendProperties, LenProperties
<1> HIDE DEF t
<1>6. \A k \in DOMAIN t : t[k] = Head(q) \/ (k \in DOMAIN w /\ t[k] = w[k])
  BY <1>5
<1>7. Before(f, t)
  BY <1>3, <1>6 DEF Before, InLine
<1>8. Before(t, Tail(q))
  BY <1>1, <1>2, <1>6 DEF Before
<1> QED
  BY <1>1, <1>2, <1>4, <1>7, <1>8 DEF InLine, t

\* A chunk goes from the channel of the writer to its file.
LEMMA LineOfStored ==
  ASSUME NEW f \in Seq(Nat), NEW w \in Seq(Nat), NEW q \in Seq(Nat), NEW n \in Nat,
         InLine(f, w, q, n), w # <<>>
  PROVE  InLine(Append(f, Head(w)), Tail(w), q, n)
<1>1. InLine(f, <<>>, w, n)
  BY NothingInLine DEF InLine, Before, Within, Log!Ordered
<1>2. /\ Within(Tail(w), n) /\ Log!Ordered(Tail(w)) /\ Head(w) \in 1..n /\ Head(w) \in Nat
      /\ \A k \in DOMAIN Tail(w) : Head(w) < Tail(w)[k]
  BY OrderOfTail, FirstOf DEF InLine
<1>3. \A k \in DOMAIN f : f[k] < Head(w)
  BY FirstOf DEF Before, InLine
<1>4. Within(Append(f, Head(w)), n) /\ Log!Ordered(Append(f, Head(w)))
  BY <1>2, <1>3, OrderOfLater DEF InLine
<1> DEFINE t == Append(f, Head(w))
<1>5. /\ DOMAIN t = 1..(Len(f) + 1) /\ DOMAIN f = 1..Len(f) /\ Len(f) \in Nat
      /\ t[Len(f) + 1] = Head(w) /\ \A k \in DOMAIN f : t[k] = f[k]
  BY <1>2, AppendProperties, LenProperties
<1> HIDE DEF t
<1>6. \A k \in DOMAIN t : t[k] = Head(w) \/ (k \in DOMAIN f /\ t[k] = f[k])
  BY <1>5
<1>7. \A k \in DOMAIN q : Head(w) < q[k]
  BY FirstOf DEF Before, InLine
<1>8. Before(t, q)
  BY <1>6, <1>7 DEF Before, InLine
<1>9. Before(t, Tail(w))
  <2> SUFFICES ASSUME NEW j \in DOMAIN t, NEW k \in DOMAIN Tail(w) PROVE t[j] < Tail(w)[k]
    BY DEF Before
  <2>1. k + 1 \in DOMAIN w /\ Tail(w)[k] = w[k + 1]
    BY FirstOf
  <2> QED
    BY <1>2, <1>6, <2>1 DEF Before, InLine
<1>10. Before(Tail(w), q)
  <2> SUFFICES ASSUME NEW j \in DOMAIN Tail(w), NEW k \in DOMAIN q PROVE Tail(w)[j] < q[k]
    BY DEF Before
  <2>1. j + 1 \in DOMAIN w /\ Tail(w)[j] = w[j + 1]
    BY FirstOf
  <2> QED
    BY <2>1 DEF Before, InLine
<1> QED
  BY <1>2, <1>4, <1>8, <1>9, <1>10 DEF InLine, t

-----------------------------------------------------------------------------
\* A step of a request that writes no log.
Carries(r, s) ==
    /\ s \in LogRequests /\ Carried(s, enabled, capture)
    /\ Ended(r) =>
        /\ Ended(s) /\ s.force = r.force /\ s.stream = r.stream /\ s.said = r.said
        /\ s.steady = r.steady /\ s.onlyErrors = r.onlyErrors
        /\ s.failed = r.failed /\ s.status = r.status
        /\ ~s.late => ~r.late /\ s.attempts = r.attempts
    /\ ~Ended(r) /\ Ended(s) => ~s.force /\ (s.steady => ~enabled /\ ~Log!HasError(s))
    /\ toggles = 0 /\ r.steady => s.steady
Continues(r, s) ==
    /\ Carries(r, s)
    /\ s.listed \subseteq r.listed
    /\ r.phase = "listing" => s.phase = "listing"
    /\ r.phase = "pruning" => s.phase = "pruning" /\ s.listed = r.listed
Quietly(c) ==
    /\ \E s : Continues(logReq[c], s) /\ logReq' = [logReq EXCEPT ![c] = s]
    /\ UNCHANGED <<enabled, capture, toggles, logs>>

LEMMA FailedGoesOn ==
  ASSUME LogInv, NEW c \in LogClients, Log!Failed(c)
  PROVE  Quietly(c)
<1> DEFINE r == logReq[c]
           s == [r EXCEPT !.failed = TRUE]
<1>1. r \in LogRequests /\ Carried(r, enabled, capture)
  BY DEF LogInv, LogsTyped
<1>2. r.phase = "handling" /\ logReq' = [logReq EXCEPT ![c] = s] /\ UNCHANGED <<enabled, capture, toggles, logs>>
  BY DEF Log!Failed, Log!Step, Log!Same
<1> HIDE DEF r
<1>3. /\ s \in LogRequests /\ s.phase = "handling"
      /\ s.onlyErrors = r.onlyErrors /\ s.status = r.status /\ s.stream = r.stream /\ s.body = r.body
      /\ s.chunks = r.chunks /\ s.writes = r.writes /\ s.file = r.file /\ s.temps = r.temps
      /\ s.upload = r.upload /\ s.asked = r.asked /\ s.answers = r.answers /\ s.deferred = r.deferred
      /\ s.askedHere = r.askedHere /\ s.answersHere = r.answersHere /\ s.force = r.force
      /\ s.listed = r.listed /\ s.said = r.said /\ s.attempts = r.attempts /\ s.steady = r.steady
      /\ s.late = r.late
  BY <1>1, <1>2 DEF LogRequests
<1> HIDE DEF s
<1>4. SourcesHold(s) /\ InOrder(s) /\ Staged(s) /\ Steadily(s, enabled, capture)
  BY <1>1, <1>2, <1>3 DEF Carried, SourcesHold, SourceHolds, InOrder, Staged, Steadily, Working, Ended, Log!HasError
<1>5. Continues(r, s)
  BY <1>1, <1>2, <1>3, <1>4 DEF Continues, Carries, Carried, Ended
<1> QED
  BY <1>2, <1>5 DEF Quietly, r

LEMMA AskGoesOn ==
  ASSUME LogInv, NEW c \in LogClients, Log!Ask(c)
  PROVE  Quietly(c)
<1> DEFINE r == logReq[c]
           n == r.attempts + 1
           a == CASE ~capture -> [r EXCEPT !.deferred = Append(@, n)]
                  [] capture /\ r.asked.on -> [r EXCEPT !.asked = Log!Noted(@, n)]
                  [] capture /\ ~r.asked.on -> [r EXCEPT !.askedHere = Append(@, n)]
           s == [a EXCEPT !.attempts = n, !.late = @ \/ r.phase # "handling"]
<1>1. r \in LogRequests /\ Carried(r, enabled, capture) /\ enabled \in BOOLEAN /\ capture \in BOOLEAN
  BY DEF LogInv, LogsTyped
<1>2. r.phase # "none" /\ logReq' = [logReq EXCEPT ![c] = s] /\ UNCHANGED <<enabled, capture, toggles, logs>>
  BY DEF Log!Ask, Log!Step, Log!Same
<1> HIDE DEF r
<1>3. /\ r.attempts \in Nat /\ n \in Nat /\ r.asked \in PartFiles /\ r.asked.on \in BOOLEAN
      /\ r.deferred \in Seq(Nat) /\ r.askedHere \in Seq(Nat) /\ r.asked.parts \in Seq(Nat)
      /\ r.late \in BOOLEAN /\ r.steady \in BOOLEAN
  BY <1>1 DEF LogRequests, PartFiles
<1>4. /\ Append(r.deferred, n) \in Seq(Nat) /\ Append(r.askedHere, n) \in Seq(Nat)
      /\ Append(r.asked.parts, n) \in Seq(Nat)
  BY <1>3, AppendProperties
<1>5. /\ Log!Noted(r.asked, n) \in PartFiles /\ Log!Noted(r.asked, n).on = r.asked.on
      /\ Log!Noted(r.asked, n).clean = r.asked.clean
      /\ Log!Noted(r.asked, n).parts = IF r.asked.clean THEN r.asked.parts ELSE Append(r.asked.parts, n)
  BY <1>3, <1>4 DEF Log!Noted, PartFiles
<1>6. /\ s \in LogRequests /\ s.phase = r.phase /\ s.attempts = n /\ s.late = (r.late \/ r.phase # "handling")
      /\ s.onlyErrors = r.onlyErrors /\ s.status = r.status /\ s.stream = r.stream /\ s.body = r.body
      /\ s.chunks = r.chunks /\ s.writes = r.writes /\ s.file = r.file /\ s.temps = r.temps
      /\ s.upload = r.upload /\ s.answers = r.answers /\ s.failed = r.failed
      /\ s.answersHere = r.answersHere /\ s.force = r.force
      /\ s.listed = r.listed /\ s.said = r.said /\ s.steady = r.steady
      /\ s.deferred = IF capture THEN r.deferred ELSE Append(r.deferred, n)
      /\ s.asked = IF capture /\ r.asked.on THEN Log!Noted(r.asked, n) ELSE r.asked
      /\ s.askedHere = IF capture /\ ~r.asked.on THEN Append(r.askedHere, n) ELSE r.askedHere
  <2>1. CASE ~capture
    <3>1. a = [r EXCEPT !.deferred = Append(@, n)]
      BY <2>1
    <3> HIDE DEF n, a
    <3> QED
      BY <1>1, <1>3, <1>4, <2>1, <3>1 DEF LogRequests
  <2>2. CASE capture /\ r.asked.on
    <3>1. a = [r EXCEPT !.asked = Log!Noted(@, n)]
      BY <2>2
    <3> HIDE DEF n, a
    <3> QED
      BY <1>1, <1>3, <1>5, <2>2, <3>1 DEF LogRequests
  <2>3. CASE capture /\ ~r.asked.on
    <3>1. a = [r EXCEPT !.askedHere = Append(@, n)]
      BY <2>3
    <3> HIDE DEF n, a
    <3> QED
      BY <1>1, <1>3, <1>4, <2>3, <3>1 DEF LogRequests
  <2> QED
    BY <1>1, <2>1, <2>2, <2>3
<1> HIDE DEF s, a
<1>7. SourcesHold(s)
  BY <1>1, <1>5, <1>6 DEF Carried, SourcesHold, SourceHolds, Working, Ended
<1>8. InOrder(s) /\ Staged(s)
  BY <1>1, <1>6 DEF Carried, InOrder, Staged, Log!HasError
<1>9. Steadily(s, enabled, capture)
  <2> SUFFICES ASSUME s.steady, s.phase # "none"
               PROVE  /\ enabled /\ Working(s) => s.asked.parts = UpTo(n)
                      /\ ~enabled => s.deferred = UpTo(n)
                      /\ Within(s.answers.parts, n) /\ s.askedHere = <<>>
    BY <1>1, <1>5, <1>6 DEF Carried, Steadily, Working, Ended
  <2>1. /\ capture = enabled /\ r.asked.on = enabled /\ r.askedHere = <<>>
        /\ enabled /\ Working(r) => r.asked.parts = UpTo(r.attempts)
        /\ ~enabled => r.deferred = UpTo(r.attempts)
        /\ Within(r.answers.parts, r.attempts)
    BY <1>1, <1>6 DEF Carried, Steadily
  <2>2. Append(UpTo(r.attempts), n) = UpTo(n)
    BY <1>3, UpToNext
  <2>3. ~enabled => s.deferred = UpTo(n)
    BY <2>1, <2>2, <1>6
  <2>4. enabled /\ Working(s) => s.asked.parts = UpTo(n)
    BY <1>1, <1>5, <1>6, <2>1, <2>2 DEF Carried, SourcesHold, SourceHolds, Working
  <2>5. Within(s.answers.parts, n) /\ s.askedHere = <<>>
    BY <1>3, <1>6, <2>1 DEF Within
  <2> QED
    BY <2>3, <2>4, <2>5
<1>10. Continues(r, s)
  BY <1>1, <1>2, <1>3, <1>6, <1>7, <1>8, <1>9 DEF Continues, Carries, Carried, Ended
<1> QED
  BY <1>2, <1>10 DEF Quietly, r

LEMMA ReplyGoesOn ==
  ASSUME LogInv, NEW c \in LogClients, Log!Reply(c)
  PROVE  Quietly(c)
<1> DEFINE r == logReq[c]
           n == r.attempts
           a == CASE ~capture -> r
                  [] capture /\ r.answers.on -> [r EXCEPT !.answers = Log!Noted(@, n)]
                  [] capture /\ ~r.answers.on -> [r EXCEPT !.answersHere = Append(@, n)]
           s == [a EXCEPT !.replies = n, !.late = @ \/ r.phase # "handling"]
<1>1. r \in LogRequests /\ Carried(r, enabled, capture) /\ enabled \in BOOLEAN /\ capture \in BOOLEAN
  BY DEF LogInv, LogsTyped
<1>2. /\ r.phase # "none" /\ r.replies < n
      /\ logReq' = [logReq EXCEPT ![c] = s] /\ UNCHANGED <<enabled, capture, toggles, logs>>
  BY DEF Log!Reply, Log!Step, Log!Same
<1> HIDE DEF r
<1>3. /\ n \in Nat /\ r.replies \in Nat /\ r.answers \in PartFiles /\ r.answers.on \in BOOLEAN
      /\ r.answersHere \in Seq(Nat) /\ r.answers.parts \in Seq(Nat)
      /\ r.late \in BOOLEAN /\ r.steady \in BOOLEAN
  BY <1>1 DEF LogRequests, PartFiles
<1>4. Append(r.answersHere, n) \in Seq(Nat) /\ Append(r.answers.parts, n) \in Seq(Nat)
  BY <1>3, AppendProperties
<1>5. /\ Log!Noted(r.answers, n) \in PartFiles /\ Log!Noted(r.answers, n).on = r.answers.on
      /\ Log!Noted(r.answers, n).clean = r.answers.clean
      /\ Log!Noted(r.answers, n).parts
           = IF r.answers.clean THEN r.answers.parts ELSE Append(r.answers.parts, n)
  BY <1>3, <1>4 DEF Log!Noted, PartFiles
<1>6. /\ s \in LogRequests /\ s.phase = r.phase /\ s.attempts = n /\ s.late = (r.late \/ r.phase # "handling")
      /\ s.onlyErrors = r.onlyErrors /\ s.status = r.status /\ s.stream = r.stream /\ s.body = r.body
      /\ s.chunks = r.chunks /\ s.writes = r.writes /\ s.file = r.file /\ s.temps = r.temps
      /\ s.upload = r.upload /\ s.asked = r.asked /\ s.failed = r.failed
      /\ s.askedHere = r.askedHere /\ s.force = r.force /\ s.deferred = r.deferred
      /\ s.listed = r.listed /\ s.said = r.said /\ s.steady = r.steady
      /\ s.answers = IF capture /\ r.answers.on THEN Log!Noted(r.answers, n) ELSE r.answers
      /\ s.answersHere = IF capture /\ ~r.answers.on THEN Append(r.answersHere, n) ELSE r.answersHere
  <2>1. CASE ~capture
    <3>1. a = r
      BY <2>1
    <3> HIDE DEF n, a
    <3> QED
      BY <1>1, <1>3, <1>4, <2>1, <3>1 DEF LogRequests, n
  <2>2. CASE capture /\ r.answers.on
    <3>1. a = [r EXCEPT !.answers = Log!Noted(@, n)]
      BY <2>2
    <3> HIDE DEF n, a
    <3> QED
      BY <1>1, <1>3, <1>5, <2>2, <3>1 DEF LogRequests, n
  <2>3. CASE capture /\ ~r.answers.on
    <3>1. a = [r EXCEPT !.answersHere = Append(@, n)]
      BY <2>3
    <3> HIDE DEF n, a
    <3> QED
      BY <1>1, <1>3, <1>4, <2>3, <3>1 DEF LogRequests, n
  <2> QED
    BY <1>1, <2>1, <2>2, <2>3
<1> HIDE DEF s, a
<1>7. SourcesHold(s)
  BY <1>1, <1>5, <1>6 DEF Carried, SourcesHold, SourceHolds, Working, Ended
<1>8. InOrder(s) /\ Staged(s)
  BY <1>1, <1>6 DEF Carried, InOrder, Staged, Log!HasError
<1>9. Steadily(s, enabled, capture)
  <2> SUFFICES ASSUME s.steady, s.phase # "none"
               PROVE  Within(s.answers.parts, n) /\ s.answersHere = <<>>
    BY <1>1, <1>5, <1>6 DEF Carried, Steadily, Working, Ended
  <2>1. /\ capture = enabled /\ r.answers.on = enabled /\ r.answersHere = <<>>
        /\ Within(r.answers.parts, n)
    BY <1>1, <1>6 DEF Carried, Steadily
  <2>2. n \in 1..n
    BY <1>2, <1>3
  <2>3. Within(Append(r.answers.parts, n), n)
    <3>1. /\ DOMAIN Append(r.answers.parts, n) = 1..(Len(r.answers.parts) + 1)
          /\ DOMAIN r.answers.parts = 1..Len(r.answers.parts) /\ Len(r.answers.parts) \in Nat
          /\ Append(r.answers.parts, n)[Len(r.answers.parts) + 1] = n
          /\ \A k \in DOMAIN r.answers.parts : Append(r.answers.parts, n)[k] = r.answers.parts[k]
      BY <1>3, AppendProperties, LenProperties
    <3> HIDE DEF n
    <3>2. \A k \in DOMAIN Append(r.answers.parts, n) :
            k = Len(r.answers.parts) + 1 \/ k \in DOMAIN r.answers.parts
      BY <3>1
    <3> QED
      BY <2>1, <2>2, <3>1, <3>2 DEF Within
  <2> QED
    BY <1>5, <1>6, <2>1, <2>3
<1>10. Continues(r, s)
  BY <1>1, <1>2, <1>3, <1>6, <1>7, <1>8, <1>9 DEF Continues, Carries, Carried, Ended
<1> QED
  BY <1>2, <1>10 DEF Quietly, r

LEMMA BeginGoesOn ==
  ASSUME LogInv, NEW c \in LogClients, NEW large \in BOOLEAN, Log!Begin(c, large)
  PROVE  Quietly(c)
<1> DEFINE r == logReq[c]
           f == IF large THEN Log!Noted(Log!NewSource, 0) ELSE Log!NoSource
           p == IF enabled THEN Log!NewSource ELSE Log!NoSource
           s == [Log!NoRequest EXCEPT !.phase = "handling", !.onlyErrors = ~enabled,
                    !.steady = enabled = capture, !.upload = f, !.asked = p, !.answers = p]
<1>1. enabled \in BOOLEAN /\ capture \in BOOLEAN /\ (toggles = 0 => capture = enabled)
  BY DEF LogInv, LogsTyped, AtFirst
<1>2. r.phase = "none" /\ logReq' = [logReq EXCEPT ![c] = s] /\ UNCHANGED <<enabled, capture, toggles, logs>>
  BY DEF Log!Begin, Log!Step, Log!Same
<1> HIDE DEF r
<1>3. <<>> \in Seq(Nat) /\ <<0>> \in Seq(Nat) /\ Append(<<>>, 0) = <<0>>
  OBVIOUS
<1>4. /\ f \in PartFiles /\ ~f.clean /\ (~f.on => f.parts = <<>>)
      /\ p \in PartFiles /\ ~p.clean /\ p.on = enabled /\ p.parts = <<>>
  BY <1>1, <1>3 DEF Log!Noted, Log!NewSource, Log!NoSource, PartFiles
<1> HIDE DEF f, p
<1>5. /\ s \in LogRequests /\ s.phase = "handling" /\ s.onlyErrors = ~enabled /\ s.status = 0
      /\ s.steady = (enabled = capture) /\ s.upload = f /\ s.asked = p /\ s.answers = p
      /\ s.stream = FALSE /\ s.body = <<>> /\ s.file = <<>> /\ s.temps = FALSE
      /\ s.force = FALSE /\ s.listed = {}
      /\ s.chunks = Log!NoPipe /\ s.writes = Log!NoPipe /\ s.deferred = <<>>
      /\ s.askedHere = <<>> /\ s.answersHere = <<>> /\ s.said = 0 /\ s.attempts = 0
  <2>1. Log!NoRequest.listed = {} /\ {} \subseteq Nat
    BY DEF Log!NoRequest
  <2>2. /\ Log!NoPipe \in Pipes /\ Log!NoSource \in PartFiles
    BY <1>3 DEF Log!NoPipe, Log!NoSource, Pipes, PartFiles
  <2>3. Log!NoRequest \in LogRequests
    BY <1>3, <2>2 DEF Log!NoRequest, LogRequests, LogPhases
  <2>4. s \in LogRequests
    BY <1>1, <1>4, <2>3 DEF LogRequests, LogPhases
  <2> QED
    BY <1>1, <1>3, <1>4, <2>4 DEF Log!NoRequest
<1> HIDE DEF s
<1>6. SourcesHold(s)
  BY <1>4, <1>5 DEF SourcesHold, SourceHolds, Working, Ended
<1>7. InOrder(s) /\ Within(<<>>, 0) /\ UpTo(0) = <<>>
  BY <1>5, NothingInLine DEF InOrder, Log!NoPipe
<1>8. Staged(s)
  <2>1. s.chunks.on = FALSE /\ s.writes.on = FALSE
    BY <1>5 DEF Log!NoPipe
  <2> QED
    BY <1>5, <2>1 DEF Staged
<1>9. Steadily(s, enabled, capture)
  <2> SUFFICES ASSUME s.steady
               PROVE  /\ s.onlyErrors = ~enabled /\ capture = enabled
                      /\ s.asked.on = enabled /\ s.answers.on = enabled
                      /\ ~s.chunks.on /\ s.body = UpTo(s.said)
                      /\ s.asked.parts = UpTo(s.attempts) /\ s.deferred = UpTo(s.attempts)
                      /\ Within(s.answers.parts, s.attempts)
    BY <1>5 DEF Steadily
  <2> QED
    BY <1>1, <1>4, <1>5, <1>7 DEF Log!NoPipe
<1>10. Continues(r, s)
  BY <1>1, <1>2, <1>5, <1>6, <1>7, <1>8, <1>9 DEF Continues, Carries, Carried, Ended
<1> QED
  BY <1>2, <1>10 DEF Quietly, r

Streamed(r, s) ==
    /\ s \in LogRequests /\ s.status = r.status /\ s.stream = r.stream
    /\ s.phase = r.phase /\ s.onlyErrors = r.onlyErrors /\ s.body = r.body
    /\ s.chunks.on = TRUE /\ s.chunks.queue = r.chunks.queue
    /\ s.writes.on = TRUE /\ s.writes.queue = r.writes.queue /\ s.temps = TRUE
    /\ s.file = r.file /\ s.upload = r.upload /\ s.asked = r.asked
    /\ s.answers = r.answers /\ s.deferred = r.deferred
    /\ s.askedHere = r.askedHere /\ s.answersHere = r.answersHere /\ s.force = r.force
    /\ s.listed = r.listed /\ s.said = r.said /\ s.attempts = r.attempts
    /\ s.steady = r.steady /\ s.late = r.late

LEMMA StreamingOf ==
  ASSUME NEW r \in LogRequests
  PROVE  Streamed(r, Log!Streaming(r))
<1> DEFINE p == [r.chunks EXCEPT !.on = TRUE]
           q == [r.writes EXCEPT !.on = TRUE]
           s == [r EXCEPT !.chunks = p, !.writes = q, !.temps = TRUE]
<1>1. /\ p \in Pipes /\ p.queue = r.chunks.queue /\ p.on = TRUE
      /\ q \in Pipes /\ q.queue = r.writes.queue /\ q.on = TRUE
  BY DEF LogRequests, Pipes
<1>2. Log!Streaming(r) = s
  BY DEF Log!Streaming
<1> HIDE DEF p, q
<1>3. /\ s \in LogRequests /\ s.status = r.status /\ s.stream = r.stream
      /\ s.phase = r.phase /\ s.onlyErrors = r.onlyErrors /\ s.body = r.body
      /\ s.chunks = p /\ s.writes = q /\ s.temps = TRUE
      /\ s.file = r.file /\ s.upload = r.upload /\ s.asked = r.asked
      /\ s.answers = r.answers /\ s.deferred = r.deferred
      /\ s.askedHere = r.askedHere /\ s.answersHere = r.answersHere /\ s.force = r.force
      /\ s.listed = r.listed /\ s.said = r.said /\ s.attempts = r.attempts
      /\ s.steady = r.steady /\ s.late = r.late
  BY <1>1 DEF LogRequests
<1> HIDE DEF s
<1> QED
  BY <1>1, <1>2, <1>3 DEF Streamed

LEMMA WriteHeaderGoesOn ==
  ASSUME LogInv, NEW c \in LogClients, NEW code \in Nat \ {0}, NEW sse \in BOOLEAN,
         Log!WriteHeader(c, code, sse)
  PROVE  Quietly(c)
<1> DEFINE r == logReq[c]
           noted == [r EXCEPT !.status = code, !.stream = sse]
           s == IF sse /\ enabled THEN Log!Streaming(noted) ELSE noted
<1>1. r \in LogRequests /\ Carried(r, enabled, capture) /\ enabled \in BOOLEAN
  BY DEF LogInv, LogsTyped
<1>2. /\ r.phase = "handling" /\ r.status = 0
      /\ logReq' = [logReq EXCEPT ![c] = s] /\ UNCHANGED <<enabled, capture, toggles, logs>>
  BY DEF Log!WriteHeader, Log!Step, Log!Same
<1> HIDE DEF r
<1>3. /\ r.chunks \in Pipes /\ r.writes \in Pipes
      /\ r.chunks.queue \in Seq(Nat) /\ r.writes.queue \in Seq(Nat)
      /\ code \in Nat \ {0}
  BY <1>1 DEF LogRequests, Pipes
<1> DEFINE h == noted
<1>0. h = [r EXCEPT !.status = code, !.stream = sse]
  OBVIOUS
<1>a. s = IF sse /\ enabled THEN Log!Streaming(h) ELSE h
  OBVIOUS
<1> HIDE DEF h, s
<1>4. /\ h \in LogRequests
      /\ h.chunks = r.chunks /\ h.writes = r.writes
      /\ h.temps = r.temps /\ h.phase = "handling" /\ h.status = code /\ h.stream = sse
      /\ h.onlyErrors = r.onlyErrors /\ h.body = r.body
      /\ h.file = r.file /\ h.upload = r.upload /\ h.asked = r.asked
      /\ h.answers = r.answers /\ h.deferred = r.deferred
      /\ h.askedHere = r.askedHere /\ h.answersHere = r.answersHere /\ h.force = r.force
      /\ h.listed = r.listed /\ h.said = r.said /\ h.attempts = r.attempts
      /\ h.steady = r.steady /\ h.late = r.late
  BY <1>0, <1>1, <1>2, <1>3 DEF LogRequests
<1>5. /\ s \in LogRequests /\ s.phase = "handling" /\ s.stream = sse /\ s.status = code
      /\ s.onlyErrors = r.onlyErrors /\ s.body = r.body
      /\ s.chunks.queue = r.chunks.queue /\ s.writes.queue = r.writes.queue
      /\ s.chunks.on = (r.chunks.on \/ (sse /\ enabled))
      /\ s.writes.on = (r.writes.on \/ (sse /\ enabled))
      /\ s.temps = (r.temps \/ (sse /\ enabled))
      /\ s.file = r.file /\ s.upload = r.upload /\ s.asked = r.asked
      /\ s.answers = r.answers /\ s.deferred = r.deferred
      /\ s.askedHere = r.askedHere /\ s.answersHere = r.answersHere /\ s.force = r.force
      /\ s.listed = r.listed /\ s.said = r.said /\ s.attempts = r.attempts
      /\ s.steady = r.steady /\ s.late = r.late
  <2>1. CASE sse /\ enabled
    <3>1. s = Log!Streaming(h)
      BY <1>a, <2>1
    <3>2. Streamed(h, s)
      BY <1>4, <3>1, StreamingOf
    <3> QED
      BY <1>4, <2>1, <3>2 DEF Streamed
  <2>2. CASE ~(sse /\ enabled)
    <3>1. s = h
      BY <1>a, <2>2
    <3>2. r.chunks.on \in BOOLEAN /\ r.writes.on \in BOOLEAN /\ r.temps \in BOOLEAN
      BY <1>1, <1>3 DEF LogRequests, Pipes
    <3> QED
      BY <1>4, <2>2, <3>1, <3>2
  <2> QED
    BY <2>1, <2>2
<1>6. SourcesHold(s) /\ InOrder(s)
  BY <1>1, <1>2, <1>5 DEF Carried, SourcesHold, SourceHolds, InOrder, Working, Ended
<1>7. ~r.force /\ (r.steady => r.onlyErrors = ~enabled)
  BY <1>1, <1>2 DEF Carried, Staged, Steadily
<1>8. Staged(s)
  BY <1>1, <1>2, <1>3, <1>5, <1>7 DEF Carried, Staged
<1>9. Steadily(s, enabled, capture)
  <2> SUFFICES ASSUME s.steady
               PROVE  /\ s.chunks.on => enabled /\ s.stream
                      /\ enabled /\ ~s.stream => s.body = UpTo(s.said)
    BY <1>1, <1>2, <1>5 DEF Carried, Steadily, Working, Ended
  <2>1. /\ ~r.chunks.on /\ ~r.stream
        /\ enabled => r.body = UpTo(r.said)
    BY <1>1, <1>2, <1>5 DEF Carried, Steadily, Staged
  <2> QED
    BY <1>5, <2>1
<1>10. Continues(r, s)
  BY <1>1, <1>2, <1>5, <1>6, <1>8, <1>9 DEF Continues, Carries, Carried, Ended
<1> QED
  BY <1>2, <1>10 DEF Quietly, r

LEMMA SentOf ==
  ASSUME NEW p \in Pipes, NEW n \in Nat
  PROVE  /\ Log!Sent(p, n) \in Pipes /\ Log!Sent(p, n).on = p.on
         /\ Log!Sent(p, n).queue \in {p.queue, Append(p.queue, n)}
<1>1. p.queue \in Seq(Nat) /\ Append(p.queue, n) \in Seq(Nat)
  BY AppendProperties DEF Pipes
<1>2. CASE Len(p.queue) >= Capacity
  BY <1>2 DEF Log!Sent, Pipes
<1>3. CASE ~(Len(p.queue) >= Capacity)
  <2>1. Log!Sent(p, n) = [p EXCEPT !.queue = Append(p.queue, n)]
    BY <1>3 DEF Log!Sent
  <2> QED
    BY <1>1, <2>1 DEF Pipes
<1> QED
  BY <1>2, <1>3

LEMMA WriteGoesOn ==
  ASSUME LogInv, NEW c \in LogClients, Log!Write(c)
  PROVE  Quietly(c)
<1> DEFINE r == logReq[c]
           n == r.said + 1
           a == IF r.chunks.on THEN [r EXCEPT !.chunks = Log!Sent(@, n)]
                ELSE IF Log!Buffered(r) THEN [r EXCEPT !.body = Append(@, n)] ELSE r
           s == [a EXCEPT !.said = n]
<1>1. r \in LogRequests /\ Carried(r, enabled, capture) /\ enabled \in BOOLEAN
  BY DEF LogInv, LogsTyped
<1>2. /\ r.phase = "handling"
      /\ logReq' = [logReq EXCEPT ![c] = s] /\ UNCHANGED <<enabled, capture, toggles, logs>>
  BY DEF Log!Write, Log!Step, Log!Same
<1> HIDE DEF r
<1>3. /\ r.said \in Nat /\ n \in Nat /\ r.chunks \in Pipes /\ r.body \in Seq(Nat)
      /\ r.file \in Seq(Nat) /\ r.writes.queue \in Seq(Nat) /\ r.chunks.queue \in Seq(Nat)
      /\ r.chunks.on \in BOOLEAN
  BY <1>1 DEF LogRequests, Pipes
<1>4. /\ Append(r.body, n) \in Seq(Nat) /\ Within(Append(r.body, n), n)
      /\ Log!Ordered(Append(r.body, n)) /\ Within(r.body, n)
      /\ InLine(r.file, r.writes.queue, Append(r.chunks.queue, n), n)
      /\ InLine(r.file, r.writes.queue, r.chunks.queue, n)
  BY <1>1, <1>3, OrderOfAppend, LineOfSent DEF Carried, InOrder
<1>5. /\ Log!Sent(r.chunks, n) \in Pipes /\ Log!Sent(r.chunks, n).on = r.chunks.on
      /\ Log!Sent(r.chunks, n).queue \in {r.chunks.queue, Append(r.chunks.queue, n)}
  BY <1>3, SentOf
<1> DEFINE x == Append(r.body, n)
           p == Log!Sent(r.chunks, n)
<1>6. a = IF r.chunks.on THEN [r EXCEPT !.chunks = p]
          ELSE IF Log!Buffered(r) THEN [r EXCEPT !.body = x] ELSE r
  OBVIOUS
<1>7. x \in Seq(Nat) /\ p \in Pipes
  BY <1>4, <1>5
<1> HIDE DEF a, n, x, p
<1>8. /\ a \in LogRequests /\ a.phase = r.phase
      /\ a.onlyErrors = r.onlyErrors /\ a.status = r.status /\ a.stream = r.stream
      /\ a.failed = r.failed /\ a.writes = r.writes /\ a.file = r.file /\ a.temps = r.temps
      /\ a.upload = r.upload /\ a.asked = r.asked /\ a.answers = r.answers /\ a.deferred = r.deferred
      /\ a.askedHere = r.askedHere /\ a.answersHere = r.answersHere /\ a.force = r.force
      /\ a.listed = r.listed /\ a.attempts = r.attempts /\ a.steady = r.steady
      /\ a.late = r.late
      /\ a.chunks = IF r.chunks.on THEN p ELSE r.chunks
      /\ a.body = IF ~r.chunks.on /\ Log!Buffered(r) THEN x ELSE r.body
  <2>1. CASE r.chunks.on
    <3>1. a = [r EXCEPT !.chunks = p]
      BY <1>6, <2>1
    <3> QED
      BY <1>1, <1>7, <2>1, <3>1 DEF LogRequests
  <2>2. CASE ~r.chunks.on /\ Log!Buffered(r)
    <3>1. a = [r EXCEPT !.body = x]
      BY <1>6, <2>2
    <3> QED
      BY <1>1, <1>7, <2>2, <3>1 DEF LogRequests
  <2>3. CASE ~r.chunks.on /\ ~Log!Buffered(r)
    BY <1>1, <1>6, <2>3
  <2> QED
    BY <2>1, <2>2, <2>3
<1> DEFINE t == s
<1>9. t = [a EXCEPT !.said = n]
  OBVIOUS
<1> HIDE DEF t
<1>10. /\ t \in LogRequests /\ t.phase = r.phase /\ t.said = n
       /\ t.onlyErrors = r.onlyErrors /\ t.status = r.status /\ t.stream = r.stream
       /\ t.failed = r.failed /\ t.writes = r.writes /\ t.file = r.file /\ t.temps = r.temps
       /\ t.upload = r.upload /\ t.asked = r.asked /\ t.answers = r.answers /\ t.deferred = r.deferred
       /\ t.askedHere = r.askedHere /\ t.answersHere = r.answersHere /\ t.force = r.force
       /\ t.listed = r.listed /\ t.attempts = r.attempts /\ t.steady = r.steady
       /\ t.late = r.late
       /\ t.chunks = a.chunks /\ t.body = a.body
  BY <1>3, <1>8, <1>9 DEF LogRequests
<1>11. SourcesHold(t)
  BY <1>1, <1>10 DEF Carried, SourcesHold, SourceHolds, Working, Ended
<1>12. t.chunks.on = r.chunks.on /\ t.chunks.queue \in {r.chunks.queue, Append(r.chunks.queue, n)}
  BY <1>5, <1>8, <1>10 DEF p
<1>13. InOrder(t)
  <2>1. InLine(t.file, t.writes.queue, t.chunks.queue, n)
    BY <1>4, <1>10, <1>12
  <2>2. Within(t.body, n) /\ Log!Ordered(t.body)
    BY <1>1, <1>4, <1>8, <1>10 DEF x, Carried, InOrder
  <2> QED
    BY <1>10, <2>1, <2>2 DEF InOrder
<1>14. Staged(t)
  BY <1>1, <1>10, <1>12 DEF Carried, Staged, Log!HasError
<1>15. Steadily(t, enabled, capture)
  <2> SUFFICES ASSUME t.steady, enabled, ~t.stream
               PROVE  t.body = UpTo(n)
    BY <1>1, <1>2, <1>10, <1>12 DEF Carried, Steadily, Working, Ended
  <2>1. ~r.chunks.on /\ r.body = UpTo(r.said)
    BY <1>1, <1>2, <1>10 DEF Carried, Steadily
  <2>2. Log!Buffered(r)
    BY DEF Log!Buffered
  <2> QED
    BY <1>3, <1>8, <1>10, <2>1, <2>2, UpToNext DEF n, x
<1>16. Continues(r, t)
  BY <1>1, <1>2, <1>10, <1>11, <1>13, <1>14, <1>15 DEF Continues, Carries, Carried, Ended
<1> QED
  BY <1>2, <1>16 DEF Quietly, r, t

LEMMA PassGoesOn ==
  ASSUME LogInv, NEW c \in LogClients, Log!Pass(c)
  PROVE  Quietly(c)
<1> DEFINE r == logReq[c]
           p == [r.chunks EXCEPT !.queue = Tail(@)]
           q == Log!Sent(r.writes, Head(r.chunks.queue))
           s == [r EXCEPT !.chunks = p, !.writes = q]
<1>1. r \in LogRequests /\ Carried(r, enabled, capture)
  BY DEF LogInv, LogsTyped
<1>2. /\ r.chunks.queue # <<>>
      /\ logReq' = [logReq EXCEPT ![c] = s] /\ UNCHANGED <<enabled, capture, toggles, logs>>
  BY DEF Log!Pass, Log!Step, Log!Same
<1> HIDE DEF r
<1>3. /\ r.said \in Nat /\ r.chunks \in Pipes /\ r.writes \in Pipes /\ r.file \in Seq(Nat)
      /\ r.writes.queue \in Seq(Nat) /\ r.chunks.queue \in Seq(Nat)
  BY <1>1 DEF LogRequests, Pipes
<1>4. Head(r.chunks.queue) \in Nat /\ Tail(r.chunks.queue) \in Seq(Nat)
  BY <1>2, <1>3, FirstOf
<1>5. /\ p \in Pipes /\ p.on = r.chunks.on /\ p.queue = Tail(r.chunks.queue)
  BY <1>3, <1>4 DEF Pipes
<1>6. /\ q \in Pipes /\ q.on = r.writes.on
      /\ q.queue \in {r.writes.queue, Append(r.writes.queue, Head(r.chunks.queue))}
  BY <1>3, <1>4, SentOf
<1>7. InLine(r.file, q.queue, p.queue, r.said)
  <2>1. InLine(r.file, r.writes.queue, r.chunks.queue, r.said)
    BY <1>1 DEF Carried, InOrder
  <2>2. /\ InLine(r.file, Append(r.writes.queue, Head(r.chunks.queue)), Tail(r.chunks.queue), r.said)
        /\ InLine(r.file, r.writes.queue, Tail(r.chunks.queue), r.said)
    BY <1>2, <1>3, <2>1, LineOfPassed
  <2> HIDE DEF p, q
  <2> QED
    BY <1>5, <1>6, <2>2
<1> HIDE DEF p, q
<1>8. /\ s \in LogRequests /\ s.phase = r.phase /\ s.chunks = p /\ s.writes = q
      /\ s.onlyErrors = r.onlyErrors /\ s.status = r.status /\ s.stream = r.stream /\ s.body = r.body
      /\ s.failed = r.failed /\ s.file = r.file /\ s.temps = r.temps
      /\ s.upload = r.upload /\ s.asked = r.asked /\ s.answers = r.answers /\ s.deferred = r.deferred
      /\ s.askedHere = r.askedHere /\ s.answersHere = r.answersHere /\ s.force = r.force
      /\ s.listed = r.listed /\ s.said = r.said /\ s.attempts = r.attempts /\ s.steady = r.steady
      /\ s.late = r.late
  BY <1>1, <1>5, <1>6 DEF LogRequests
<1> HIDE DEF s
<1>9. SourcesHold(s)
  BY <1>1, <1>8 DEF Carried, SourcesHold, SourceHolds, Working, Ended
<1>10. InOrder(s) /\ Staged(s)
  BY <1>1, <1>5, <1>6, <1>7, <1>8 DEF Carried, InOrder, Staged, Log!HasError
<1>11. Steadily(s, enabled, capture)
  BY <1>1, <1>5, <1>8 DEF Carried, Steadily, Working, Ended
<1>12. Continues(r, s)
  BY <1>1, <1>8, <1>9, <1>10, <1>11 DEF Continues, Carries, Carried, Ended
<1> QED
  BY <1>2, <1>12 DEF Quietly, r

LEMMA StoreGoesOn ==
  ASSUME LogInv, NEW c \in LogClients, Log!Store(c)
  PROVE  Quietly(c)
<1> DEFINE r == logReq[c]
           q == [r.writes EXCEPT !.queue = Tail(@)]
           f == Append(r.file, Head(r.writes.queue))
           s == [r EXCEPT !.writes = q, !.file = f]
<1>1. r \in LogRequests /\ Carried(r, enabled, capture)
  BY DEF LogInv, LogsTyped
<1>2. /\ r.writes.queue # <<>>
      /\ logReq' = [logReq EXCEPT ![c] = s] /\ UNCHANGED <<enabled, capture, toggles, logs>>
  BY DEF Log!Store, Log!Step, Log!Same
<1> HIDE DEF r
<1>3. /\ r.said \in Nat /\ r.chunks \in Pipes /\ r.writes \in Pipes /\ r.file \in Seq(Nat)
      /\ r.writes.queue \in Seq(Nat) /\ r.chunks.queue \in Seq(Nat)
  BY <1>1 DEF LogRequests, Pipes
<1>4. Head(r.writes.queue) \in Nat /\ Tail(r.writes.queue) \in Seq(Nat) /\ f \in Seq(Nat)
  <2>1. Head(r.writes.queue) \in Nat /\ Tail(r.writes.queue) \in Seq(Nat)
    BY <1>2, <1>3, FirstOf
  <2> QED
    BY <1>3, <2>1, AppendProperties
<1>5. /\ q \in Pipes /\ q.on = r.writes.on /\ q.queue = Tail(r.writes.queue)
  BY <1>3, <1>4 DEF Pipes
<1>6. InLine(f, q.queue, r.chunks.queue, r.said)
  <2>1. InLine(r.file, r.writes.queue, r.chunks.queue, r.said)
    BY <1>1 DEF Carried, InOrder
  <2>2. InLine(f, Tail(r.writes.queue), r.chunks.queue, r.said)
    BY <1>2, <1>3, <2>1, LineOfStored
  <2> HIDE DEF q, f
  <2> QED
    BY <1>5, <2>2
<1> HIDE DEF q, f
<1>8. /\ s \in LogRequests /\ s.phase = r.phase /\ s.chunks = r.chunks /\ s.writes = q
      /\ s.onlyErrors = r.onlyErrors /\ s.status = r.status /\ s.stream = r.stream /\ s.body = r.body
      /\ s.failed = r.failed /\ s.file = f /\ s.temps = r.temps
      /\ s.upload = r.upload /\ s.asked = r.asked /\ s.answers = r.answers /\ s.deferred = r.deferred
      /\ s.askedHere = r.askedHere /\ s.answersHere = r.answersHere /\ s.force = r.force
      /\ s.listed = r.listed /\ s.said = r.said /\ s.attempts = r.attempts /\ s.steady = r.steady
      /\ s.late = r.late
  BY <1>1, <1>4, <1>5 DEF LogRequests
<1> HIDE DEF s
<1>9. SourcesHold(s)
  BY <1>1, <1>8 DEF Carried, SourcesHold, SourceHolds, Working, Ended
<1>10. InOrder(s) /\ Staged(s)
  BY <1>1, <1>5, <1>6, <1>8 DEF Carried, InOrder, Staged, Log!HasError
<1>11. Steadily(s, enabled, capture)
  BY <1>1, <1>5, <1>8 DEF Carried, Steadily, Working, Ended
<1>12. Continues(r, s)
  BY <1>1, <1>8, <1>9, <1>10, <1>11 DEF Continues, Carries, Carried, Ended
<1> QED
  BY <1>2, <1>12 DEF Quietly, r

\* What is left of a request when its sources are cleaned.
CleanedAll(r, s) ==
    /\ s \in LogRequests
    /\ s.upload = Log!Cleaned(r.upload) /\ s.asked = Log!Cleaned(r.asked) /\ s.answers = Log!Cleaned(r.answers)
    /\ s.onlyErrors = r.onlyErrors /\ s.status = r.status /\ s.stream = r.stream /\ s.body = r.body
    /\ s.failed = r.failed /\ s.file = r.file /\ s.deferred = r.deferred
    /\ s.askedHere = r.askedHere /\ s.answersHere = r.answersHere /\ s.force = r.force
    /\ s.listed = r.listed /\ s.said = r.said /\ s.attempts = r.attempts /\ s.steady = r.steady
    /\ s.late = r.late

LEMMA CleanedOf ==
  ASSUME NEW x \in PartFiles
  PROVE  /\ Log!Cleaned(x) \in PartFiles /\ Log!Cleaned(x).on = x.on
         /\ Log!Cleaned(x).clean = (x.clean \/ x.on) /\ Log!Cleaned(x).parts = <<>>
<1> DEFINE b == x.clean \/ x.on
           t == <<>>
<1>1. b \in BOOLEAN /\ t \in Seq(Nat)
  OBVIOUS
<1>2. Log!Cleaned(x) = [x EXCEPT !.clean = b, !.parts = t]
  BY DEF Log!Cleaned
<1> HIDE DEF b, t
<1>3. /\ Log!Cleaned(x) \in PartFiles /\ Log!Cleaned(x).on = x.on
      /\ Log!Cleaned(x).clean = b /\ Log!Cleaned(x).parts = t
  BY <1>1, <1>2 DEF PartFiles
<1> QED
  BY <1>3 DEF b, t

LEMMA CleanAllOf ==
  ASSUME NEW r \in LogRequests
  PROVE  /\ CleanedAll(r, Log!CleanAll(r)) /\ Log!CleanAll(r).phase = r.phase
         /\ Log!CleanAll(r).chunks = r.chunks /\ Log!CleanAll(r).writes = r.writes
         /\ Log!CleanAll(r).temps = r.temps
<1> DEFINE u == Log!Cleaned(r.upload)
           p == Log!Cleaned(r.asked)
           q == Log!Cleaned(r.answers)
           a == [r EXCEPT !.upload = u]
           b == [a EXCEPT !.asked = p]
           s == [b EXCEPT !.answers = q]
           t == Log!CleanAll(r)
<1>1. u \in PartFiles /\ p \in PartFiles /\ q \in PartFiles
  BY CleanedOf DEF LogRequests
<1>2. t = s
  BY DEF Log!CleanAll, LogRequests
<1> HIDE DEF u, p, q, t
<1>3. s \in LogRequests
  BY <1>1 DEF LogRequests
<1>4. CleanedAll(r, s) /\ s.phase = r.phase /\ s.chunks = r.chunks /\ s.writes = r.writes /\ s.temps = r.temps
  BY <1>1, <1>3 DEF LogRequests, CleanedAll, u, p, q
<1> HIDE DEF s
<1>5. CleanedAll(r, t) /\ t.phase = r.phase /\ t.chunks = r.chunks /\ t.writes = r.writes /\ t.temps = r.temps
  BY <1>2, <1>4
<1> QED
  BY <1>5 DEF t

\* Its sources are as they should be from then on.
LEMMA CleanedHold ==
  ASSUME NEW r \in LogRequests, NEW s, CleanedAll(r, s), SourcesHold(r), Ended(s)
  PROVE  SourcesHold(s)
<1>1. \A x \in {r.upload, r.asked, r.answers} : x \in PartFiles /\ x.on \in BOOLEAN /\ x.clean \in BOOLEAN
  BY DEF LogRequests, PartFiles
<1>2. ASSUME NEW x \in PartFiles, SourceHolds(x, r) PROVE SourceHolds(Log!Cleaned(x), s)
  <2>1. /\ Log!Cleaned(x).on = x.on /\ Log!Cleaned(x).clean = (x.clean \/ x.on)
        /\ Log!Cleaned(x).parts = <<>> /\ x.on \in BOOLEAN /\ x.clean \in BOOLEAN
    BY CleanedOf DEF PartFiles
  <2>2. ~Working(s)
    BY DEF Working, Ended
  <2>3. ~x.on => ~x.clean
    BY <1>2 DEF SourceHolds
  <2> QED
    BY <2>1, <2>2, <2>3 DEF SourceHolds
<1> QED
  BY <1>1, <1>2 DEF SourcesHold, CleanedAll

\* What else is true of it.
LEMMA CleanedSteady ==
  ASSUME NEW r \in LogRequests, NEW s, CleanedAll(r, s), Steadily(r, enabled, capture),
         r.phase # "none", Ended(s), r.steady => ~s.chunks.on
  PROVE  Steadily(s, enabled, capture)
<1>1. /\ s.asked.on = r.asked.on /\ s.answers.on = r.answers.on /\ s.answers.parts = <<>>
      /\ ~Working(s) /\ s.phase \notin {"logging", "draining", "closing"}
  BY CleanedOf DEF CleanedAll, LogRequests, Working, Ended
<1>2. \A n \in Nat : Within(<<>>, n)
  BY NothingInLine
<1>3. r.attempts \in Nat
  BY DEF LogRequests
<1> QED
  BY <1>1, <1>2, <1>3 DEF CleanedAll, Steadily

LEMMA FinalizeGoesOn ==
  ASSUME LogInv, NEW c \in LogClients, Log!Finalize(c)
  PROVE  Quietly(c)
<1> DEFINE r == logReq[c]
           z == r.onlyErrors /\ Log!HasError(r) /\ ~enabled
           s == IF ~enabled /\ ~z THEN [Log!CleanAll(r) EXCEPT !.phase = "over"]
                ELSE IF r.chunks.on THEN [r EXCEPT !.phase = "draining", !.chunks.closed = TRUE]
                ELSE [r EXCEPT !.phase = "logging", !.force = z]
<1>1. r \in LogRequests /\ Carried(r, enabled, capture) /\ enabled \in BOOLEAN
  BY DEF LogInv, LogsTyped
<1>2. /\ r.phase = "handling"
      /\ logReq' = [logReq EXCEPT ![c] = s] /\ UNCHANGED <<enabled, capture, toggles, logs>>
  BY DEF Log!Finalize, Log!Step, Log!Same
<1> HIDE DEF r
<1>3. r.onlyErrors \in BOOLEAN /\ r.chunks.on \in BOOLEAN /\ z \in BOOLEAN
  BY <1>1 DEF LogRequests, Pipes
<1>4. ~r.force
  BY <1>1, <1>2 DEF Carried, Staged
<1>5. CASE ~enabled /\ ~z
  <2> DEFINE t == [Log!CleanAll(r) EXCEPT !.phase = "over"]
             k == Log!CleanAll(r)
  <2>1. s = t
    BY <1>5
  <2> HIDE DEF s, z
  <2>2. /\ CleanedAll(r, k) /\ k.chunks = r.chunks /\ k.writes = r.writes /\ k.temps = r.temps
        /\ k \in LogRequests
    BY <1>1, CleanAllOf DEF CleanedAll
  <2>3. t = [k EXCEPT !.phase = "over"]
    OBVIOUS
  <2> HIDE DEF k, t
  <2>4. /\ CleanedAll(r, t) /\ t.phase = "over"
        /\ t.chunks = r.chunks /\ t.writes = r.writes /\ t.temps = r.temps
    BY <2>2, <2>3 DEF CleanedAll, LogRequests, LogPhases
  <2>5. r.steady => ~t.chunks.on
    BY <1>1, <1>2, <1>5, <2>4 DEF Carried, Steadily
  <2>6. SourcesHold(t) /\ Steadily(t, enabled, capture)
    BY <1>1, <1>2, <2>4, <2>5, CleanedHold, CleanedSteady DEF Carried, Ended
  <2>7. InOrder(t) /\ Staged(t)
    BY <1>1, <2>4 DEF CleanedAll, Carried, InOrder, Staged, Log!HasError
  <2>8. Continues(r, t)
    <3>1. t.steady => ~Log!HasError(t)
      <4> SUFFICES ASSUME t.steady PROVE ~Log!HasError(t)
        OBVIOUS
      <4>1. r.steady /\ t.failed = r.failed /\ t.status = r.status
        BY <2>4 DEF CleanedAll
      <4>2. r.onlyErrors = ~enabled
        BY <1>1, <1>2, <4>1 DEF Carried, Steadily
      <4>3. ~Log!HasError(r)
        BY <1>5, <4>2 DEF z
      <4> QED
        BY <4>1, <4>3 DEF Log!HasError
    <3> QED
      BY <1>1, <1>2, <1>4, <1>5, <2>4, <2>6, <2>7, <3>1 DEF CleanedAll, Continues, Carries, Carried, Ended
  <2> QED
    BY <1>2, <2>1, <2>8 DEF Quietly, r
<1>6. CASE (enabled \/ z) /\ r.chunks.on
  <2> DEFINE t == [r EXCEPT !.phase = "draining", !.chunks.closed = TRUE]
             p == [r.chunks EXCEPT !.closed = TRUE]
  <2>1. s = t
    BY <1>6
  <2>2. t = [r EXCEPT !.phase = "draining", !.chunks = p]
    OBVIOUS
  <2>3. p \in Pipes /\ p.on = r.chunks.on /\ p.queue = r.chunks.queue
    BY <1>1 DEF LogRequests, Pipes
  <2> HIDE DEF s, p, t
  <2>4. /\ t \in LogRequests /\ t.phase = "draining" /\ t.chunks = p /\ t.writes = r.writes
        /\ t.onlyErrors = r.onlyErrors /\ t.status = r.status /\ t.stream = r.stream /\ t.body = r.body
        /\ t.failed = r.failed /\ t.file = r.file /\ t.temps = r.temps
        /\ t.upload = r.upload /\ t.asked = r.asked /\ t.answers = r.answers /\ t.deferred = r.deferred
        /\ t.askedHere = r.askedHere /\ t.answersHere = r.answersHere /\ t.force = r.force
        /\ t.listed = r.listed /\ t.said = r.said /\ t.attempts = r.attempts /\ t.steady = r.steady
        /\ t.late = r.late
    BY <1>1, <2>2, <2>3 DEF LogRequests, LogPhases
  <2>5. SourcesHold(t) /\ InOrder(t)
    BY <1>1, <1>2, <2>3, <2>4 DEF Carried, SourcesHold, SourceHolds, InOrder, Working, Ended
  <2>6. Staged(t)
    BY <1>1, <1>4, <1>6, <2>3, <2>4 DEF Carried, Staged
  <2>7. Steadily(t, enabled, capture)
    BY <1>1, <1>2, <1>6, <2>3, <2>4 DEF Carried, Steadily, Working, Ended
  <2>8. Continues(r, t)
    BY <1>1, <1>2, <2>4, <2>5, <2>6, <2>7 DEF Continues, Carries, Carried, Ended
  <2> QED
    BY <1>2, <2>1, <2>8 DEF Quietly, r
<1>7. CASE (enabled \/ z) /\ ~r.chunks.on
  <2> DEFINE t == [r EXCEPT !.phase = "logging", !.force = z]
  <2>1. s = t
    BY <1>3, <1>7
  <2>2. t = [r EXCEPT !.phase = "logging", !.force = z]
    OBVIOUS
  <2> HIDE DEF s, t
  <2>3. z => r.onlyErrors /\ Log!HasError(r) /\ ~enabled
    OBVIOUS
  <2> HIDE DEF z
  <2>4. /\ t \in LogRequests /\ t.phase = "logging" /\ t.chunks = r.chunks /\ t.writes = r.writes
        /\ t.onlyErrors = r.onlyErrors /\ t.status = r.status /\ t.stream = r.stream /\ t.body = r.body
        /\ t.failed = r.failed /\ t.file = r.file /\ t.temps = r.temps
        /\ t.upload = r.upload /\ t.asked = r.asked /\ t.answers = r.answers /\ t.deferred = r.deferred
        /\ t.askedHere = r.askedHere /\ t.answersHere = r.answersHere /\ t.force = z
        /\ t.listed = r.listed /\ t.said = r.said /\ t.attempts = r.attempts /\ t.steady = r.steady
        /\ t.late = r.late
    BY <1>1, <1>3, <2>2 DEF LogRequests, LogPhases
  <2>5. SourcesHold(t) /\ InOrder(t)
    BY <1>1, <1>2, <2>4 DEF Carried, SourcesHold, SourceHolds, InOrder, Working, Ended
  <2>6. Staged(t)
    BY <1>1, <1>7, <2>3, <2>4 DEF Carried, Staged, Log!HasError
  <2>7. Steadily(t, enabled, capture)
    BY <1>1, <1>2, <1>7, <2>4 DEF Carried, Steadily, Working, Ended
  <2>8. Continues(r, t)
    BY <1>1, <1>2, <2>4, <2>5, <2>6, <2>7 DEF Continues, Carries, Carried, Ended
  <2> QED
    BY <1>2, <2>1, <2>8 DEF Quietly, r
<1> HIDE DEF z, s
<1> QED
  BY <1>1, <1>3, <1>5, <1>6, <1>7

LEMMA DrainedGoesOn ==
  ASSUME LogInv, NEW c \in LogClients, Log!Drained(c)
  PROVE  Quietly(c)
<1> DEFINE r == logReq[c]
           p == [r.writes EXCEPT !.closed = TRUE]
           s == [r EXCEPT !.phase = "closing", !.writes = p]
<1>1. r \in LogRequests /\ Carried(r, enabled, capture)
  BY DEF LogInv, LogsTyped
<1>2. /\ r.phase = "draining"
      /\ logReq' = [logReq EXCEPT ![c] = s] /\ UNCHANGED <<enabled, capture, toggles, logs>>
  BY DEF Log!Drained, Log!Step, Log!Same
<1> HIDE DEF r
<1>3. p \in Pipes /\ p.on = r.writes.on /\ p.queue = r.writes.queue
  BY <1>1 DEF LogRequests, Pipes
<1> HIDE DEF p
<1>4. /\ s \in LogRequests /\ s.phase = "closing" /\ s.chunks = r.chunks /\ s.writes = p
      /\ s.onlyErrors = r.onlyErrors /\ s.status = r.status /\ s.stream = r.stream /\ s.body = r.body
      /\ s.failed = r.failed /\ s.file = r.file /\ s.temps = r.temps
      /\ s.upload = r.upload /\ s.asked = r.asked /\ s.answers = r.answers /\ s.deferred = r.deferred
      /\ s.askedHere = r.askedHere /\ s.answersHere = r.answersHere /\ s.force = r.force
      /\ s.listed = r.listed /\ s.said = r.said /\ s.attempts = r.attempts /\ s.steady = r.steady
      /\ s.late = r.late
  BY <1>1, <1>3 DEF LogRequests, LogPhases
<1> HIDE DEF s
<1>5. SourcesHold(s) /\ InOrder(s)
  BY <1>1, <1>2, <1>3, <1>4 DEF Carried, SourcesHold, SourceHolds, InOrder, Working, Ended
<1>6. Staged(s)
  BY <1>1, <1>2, <1>3, <1>4 DEF Carried, Staged, Log!HasError
<1>7. Steadily(s, enabled, capture)
  BY <1>1, <1>2, <1>4 DEF Carried, Steadily, Working, Ended
<1>8. Continues(r, s)
  BY <1>1, <1>2, <1>4, <1>5, <1>6, <1>7 DEF Continues, Carries, Carried, Ended
<1> QED
  BY <1>2, <1>8 DEF Quietly, r

-----------------------------------------------------------------------------
\* What a step of one request leaves of the rest.
LEMMA OthersOf ==
  ASSUME LogsTyped, NEW c \in LogClients, NEW s \in LogRequests, logReq' = [logReq EXCEPT ![c] = s]
  PROVE  /\ logReq' \in [LogClients -> LogRequests] /\ logReq'[c] = s
         /\ \A d \in LogClients : d # c => logReq'[d] = logReq[d]
BY DEF LogsTyped

LEMMA ErrorsAre ==
  ASSUME LogsTyped
  PROVE  /\ DOMAIN logs = 1..Len(logs) /\ Len(logs) \in Nat /\ \A i \in DOMAIN logs : logs[i] \in LogEntries
         /\ Log!ErrorLogs \in SUBSET Nat /\ IsFiniteSet(Log!ErrorLogs)
<1>1. /\ DOMAIN logs = 1..Len(logs) /\ Len(logs) \in Nat /\ \A i \in DOMAIN logs : logs[i] \in LogEntries
  BY LenProperties, ElementOfSeq DEF LogsTyped
<1>2. Log!ErrorLogs \in SUBSET (1..Len(logs))
  BY <1>1 DEF Log!ErrorLogs
<1>3. IsFiniteSet(Log!ErrorLogs)
  BY <1>1, <1>2, CountUpTo, FS_Subset
<1> QED
  BY <1>1, <1>2, <1>3

LEMMA CarryKeeps ==
  ASSUME LogInv, NEW c \in LogClients, NEW s, Carries(logReq[c], s),
         logReq' = [logReq EXCEPT ![c] = s], UNCHANGED <<enabled, capture, toggles, logs>>
  PROVE  /\ LogsTyped' /\ AtFirst' /\ Written'
         /\ \A d \in LogClients : Carried(logReq'[d], enabled', capture')
         /\ \A d \in LogClients :
              Ended(logReq'[d]) /\ logReq'[d].force /\ logReq'[d].steady => Log!ErrorLogs' # {}
         /\ toggles' = 0 => \A d \in LogClients : logReq'[d].steady
         /\ Log!ErrorLogs' = Log!ErrorLogs
<1>1. /\ LogsTyped /\ AtFirst /\ Written /\ s \in LogRequests /\ Carried(s, enabled, capture)
      /\ \A d \in LogClients : Carried(logReq[d], enabled, capture)
  BY DEF LogInv, Carries
<1>2. /\ logReq' \in [LogClients -> LogRequests] /\ logReq'[c] = s
      /\ \A d \in LogClients : d # c => logReq'[d] = logReq[d]
  BY <1>1, OthersOf
<1>3. LogsTyped' /\ AtFirst' /\ Log!ErrorLogs' = Log!ErrorLogs
  BY <1>1, <1>2 DEF LogsTyped, AtFirst, Log!ErrorLogs
<1>4. \A d \in LogClients : Carried(logReq'[d], enabled', capture')
  <2> SUFFICES ASSUME NEW d \in LogClients PROVE Carried(logReq'[d], enabled, capture)
    OBVIOUS
  <2> QED
    BY <1>1, <1>2
<1>5. ASSUME NEW d \in LogClients, Ended(logReq'[d]), logReq'[d].steady
      PROVE  \/ /\ Ended(logReq[d]) /\ logReq[d].steady /\ logReq'[d].force = logReq[d].force
                /\ Log!HasError(logReq'[d]) => Log!HasError(logReq[d])
             \/ ~enabled /\ ~logReq'[d].force /\ ~Log!HasError(logReq'[d])
  BY <1>2, <1>5 DEF Carries, Log!HasError
<1>6. \A i \in DOMAIN logs : Recounts(logs[i], logReq'[logs[i].client], enabled)
  <2> SUFFICES ASSUME NEW i \in DOMAIN logs PROVE Recounts(logs[i], logReq'[logs[i].client], enabled)
    OBVIOUS
  <2>1. Recounts(logs[i], logReq[logs[i].client], enabled) /\ logs[i].client \in LogClients
    BY <1>1, ErrorsAre DEF Written, LogEntries
  <2>2. CASE logs[i].client # c
    BY <1>2, <2>1, <2>2
  <2>3. CASE logs[i].client = c
    <3>1. Recounts(logs[i], logReq[c], enabled)
      BY <2>1, <2>3
    <3>2. Recounts(logs[i], s, enabled)
      BY <3>1 DEF Recounts, Carries
    <3> QED
      BY <1>2, <2>3, <3>2
  <2> QED
    BY <2>2, <2>3
<1>7. Written'
  <2>1. ASSUME NEW d \in LogClients, Ended(logReq'[d]), logReq'[d].steady, enabled
        PROVE  \E i \in DOMAIN logs : logs[i].client = d /\ logs[i].there /\ ~logs[i].error
    <3>1. Ended(logReq[d]) /\ logReq[d].steady
      BY <1>5, <2>1
    <3> QED
      BY <1>1, <2>1, <3>1 DEF Written
  <2>2. ASSUME NEW d \in LogClients, Ended(logReq'[d]), logReq'[d].steady, Log!HasError(logReq'[d])
        PROVE  \E i \in DOMAIN logs : logs[i].client = d
    <3>1. Ended(logReq[d]) /\ logReq[d].steady /\ Log!HasError(logReq[d])
      BY <1>5, <2>2
    <3> QED
      BY <1>1, <3>1 DEF Written
  <2> QED
    BY <1>1, <1>6, <2>1, <2>2 DEF Written
<1>8. ASSUME NEW d \in LogClients, Ended(logReq'[d]), logReq'[d].force, logReq'[d].steady
      PROVE  Log!ErrorLogs' # {}
  <2>1. Ended(logReq[d]) /\ logReq[d].steady /\ logReq[d].force
    BY <1>5, <1>8
  <2> QED
    BY <1>3, <2>1 DEF LogInv, Failures
<1>9. toggles' = 0 => \A d \in LogClients : logReq'[d].steady
  BY <1>2 DEF LogInv, Untouched, Carries
<1> QED
  BY <1>3, <1>4, <1>7, <1>8, <1>9

LEMMA QuietKeeps ==
  ASSUME LogInv, NEW c \in LogClients, Quietly(c)
  PROVE  LogInv'
<1>1. PICK s : Continues(logReq[c], s) /\ logReq' = [logReq EXCEPT ![c] = s]
  BY DEF Quietly
<1>2. UNCHANGED <<enabled, capture, toggles, logs>> /\ Carries(logReq[c], s)
  BY <1>1 DEF Quietly, Continues
<1>3. /\ LogsTyped' /\ AtFirst' /\ Written'
      /\ \A d \in LogClients : Carried(logReq'[d], enabled', capture')
      /\ \A d \in LogClients :
           Ended(logReq'[d]) /\ logReq'[d].force /\ logReq'[d].steady => Log!ErrorLogs' # {}
      /\ toggles' = 0 => \A d \in LogClients : logReq'[d].steady
      /\ Log!ErrorLogs' = Log!ErrorLogs
  BY <1>1, <1>2, CarryKeeps
<1>4. logReq'[c] = s /\ \A d \in LogClients : d # c => logReq'[d] = logReq[d]
  BY <1>1, <1>2, OthersOf DEF LogInv, Carries
<1>5. Failures'
  <2>1. \A d \in LogClients : logReq'[d].listed \subseteq logReq[d].listed
    BY <1>1, <1>4 DEF Continues
  <2>2. ASSUME NEW d \in LogClients, NEW l \in logReq'[d].listed
        PROVE  l \in DOMAIN logs /\ logs[l].error /\ \E i \in Log!ErrorLogs : l <= i
    BY <2>1 DEF LogInv, Failures
  <2> QED
    BY <1>2, <1>3, <2>2 DEF Failures
<1>6. ASSUME toggles = 0 PROVE Few'
  <2>1. Few
    BY <1>6 DEF LogInv, Untouched
  <2>2. CASE Cardinality(Log!ErrorLogs) <= MaxFiles
    BY <1>3, <2>2 DEF Few
  <2>3. CASE \E d \in LogClients : logReq[d].phase = "listing"
    BY <1>1, <1>4, <2>3 DEF Few, Continues
  <2>4. CASE \E d \in LogClients : logReq[d].phase = "pruning" /\ Log!ErrorLogs \subseteq logReq[d].listed
    BY <1>1, <1>3, <1>4, <2>4 DEF Few, Continues
  <2> QED
    BY <2>1, <2>2, <2>3, <2>4 DEF Few
<1> QED
  BY <1>2, <1>3, <1>5, <1>6 DEF LogInv, Untouched

\* The error logs are listed, or the log is on by now.
LEMMA ListKeeps ==
  ASSUME LogInv, NEW c \in LogClients, Log!List(c)
  PROVE  LogInv'
<1> DEFINE r == logReq[c]
           s == IF enabled THEN [r EXCEPT !.phase = "over"]
                ELSE [r EXCEPT !.phase = "pruning", !.listed = Log!ErrorLogs]
<1>1. r \in LogRequests /\ Carried(r, enabled, capture) /\ enabled \in BOOLEAN /\ LogsTyped
  BY DEF LogInv, LogsTyped
<1>2. /\ r.phase = "listing"
      /\ logReq' = [logReq EXCEPT ![c] = s] /\ UNCHANGED <<enabled, capture, toggles, logs>>
  BY DEF Log!List, Log!Step, Log!Same
<1> DEFINE e == Log!ErrorLogs
<1>3. e \in SUBSET Nat
  BY <1>1, ErrorsAre
<1> HIDE DEF r, e
<1>4. /\ s \in LogRequests /\ s.phase = (IF enabled THEN "over" ELSE "pruning")
      /\ s.listed = (IF enabled THEN r.listed ELSE Log!ErrorLogs)
      /\ s.chunks = r.chunks /\ s.writes = r.writes
      /\ s.onlyErrors = r.onlyErrors /\ s.status = r.status /\ s.stream = r.stream /\ s.body = r.body
      /\ s.failed = r.failed /\ s.file = r.file /\ s.temps = r.temps
      /\ s.upload = r.upload /\ s.asked = r.asked /\ s.answers = r.answers /\ s.deferred = r.deferred
      /\ s.askedHere = r.askedHere /\ s.answersHere = r.answersHere /\ s.force = r.force
      /\ s.said = r.said /\ s.attempts = r.attempts /\ s.steady = r.steady
      /\ s.late = r.late
  <2>1. CASE enabled
    <3>1. s = [r EXCEPT !.phase = "over"]
      BY <2>1
    <3> HIDE DEF s
    <3> QED
      BY <1>1, <2>1, <3>1 DEF LogRequests, LogPhases
  <2>2. CASE ~enabled
    <3>1. s = [r EXCEPT !.phase = "pruning", !.listed = e]
      BY <2>2 DEF e
    <3> HIDE DEF s
    <3>2. s \in LogRequests /\ s.listed = e
      BY <1>1, <1>3, <3>1 DEF LogRequests, LogPhases
    <3> QED
      BY <1>1, <2>2, <3>1, <3>2 DEF LogRequests, e
  <2> QED
    BY <2>1, <2>2
<1> HIDE DEF s
<1>5. SourcesHold(s) /\ InOrder(s)
  BY <1>1, <1>2, <1>4 DEF Carried, SourcesHold, SourceHolds, InOrder, Working, Ended
<1>6. Staged(s)
  BY <1>1, <1>2, <1>4 DEF Carried, Staged, Log!HasError
<1>7. Steadily(s, enabled, capture)
  BY <1>1, <1>2, <1>4 DEF Carried, Steadily, Working, Ended
<1>8. Carries(r, s)
  BY <1>1, <1>2, <1>4, <1>5, <1>6, <1>7 DEF Carries, Carried, Ended
<1>9. /\ LogsTyped' /\ AtFirst' /\ Written'
      /\ \A d \in LogClients : Carried(logReq'[d], enabled', capture')
      /\ \A d \in LogClients :
           Ended(logReq'[d]) /\ logReq'[d].force /\ logReq'[d].steady => Log!ErrorLogs' # {}
      /\ toggles' = 0 => \A d \in LogClients : logReq'[d].steady
      /\ Log!ErrorLogs' = Log!ErrorLogs
  BY <1>2, <1>8, CarryKeeps DEF r
<1>10. logReq'[c] = s /\ \A d \in LogClients : d # c => logReq'[d] = logReq[d]
  BY <1>1, <1>2, <1>4, OthersOf
<1>11. Failures'
  <2>1. ASSUME NEW d \in LogClients, NEW l \in logReq'[d].listed
        PROVE  l \in DOMAIN logs /\ logs[l].error /\ \E i \in Log!ErrorLogs : l <= i
    <3>1. CASE l \in logReq[d].listed
      BY <3>1 DEF LogInv, Failures
    <3>2. CASE l \notin logReq[d].listed
      <4>1. l \in Log!ErrorLogs
        BY <1>4, <1>10, <2>1, <3>2 DEF r
      <4>2. l \in Nat
        BY <1>1, <4>1, ErrorsAre
      <4> QED
        BY <4>1, <4>2 DEF Log!ErrorLogs
    <3> QED
      BY <3>1, <3>2
  <2> QED
    BY <1>2, <1>9, <2>1 DEF Failures
<1>12. ASSUME toggles = 0 PROVE Few'
  <2>1. Few /\ r.steady
    BY <1>12 DEF LogInv, Untouched, r
  <2>2. ~enabled
    BY <1>1, <1>2, <2>1 DEF Carried, Staged, Steadily
  <2>3. s.phase = "pruning" /\ Log!ErrorLogs' \subseteq s.listed
    BY <1>4, <1>9, <2>2
  <2> QED
    BY <1>10, <2>3 DEF Few
<1> QED
  BY <1>2, <1>9, <1>11, <1>12 DEF LogInv, Untouched

-----------------------------------------------------------------------------
\* A request leaves a log, and has ended.
Logged(c, l, s) ==
    /\ s \in LogRequests /\ Carried(s, enabled, capture)
    /\ l \in LogEntries /\ l.client = c /\ l.there /\ Recounts(l, s, enabled)
    /\ ~Ended(logReq[c]) /\ Ended(s)
    /\ s.steady = logReq[c].steady /\ s.listed = logReq[c].listed
    /\ l.error => s.phase = "listing"
    /\ s.force /\ s.steady => l.error

LEMMA LoggedKeeps ==
  ASSUME LogInv, NEW c \in LogClients, NEW s, NEW l, Logged(c, l, s),
         logReq' = [logReq EXCEPT ![c] = s], logs' = Append(logs, l),
         UNCHANGED <<enabled, capture, toggles>>
  PROVE  LogInv'
<1> DEFINE n == Len(logs) + 1
<1>1. /\ LogsTyped /\ AtFirst /\ Written /\ s \in LogRequests /\ Carried(s, enabled, capture)
      /\ \A d \in LogClients : Carried(logReq[d], enabled, capture)
      /\ l \in LogEntries /\ logs \in Seq(LogEntries)
  BY DEF LogInv, Logged, LogsTyped
<1>2. /\ logReq' \in [LogClients -> LogRequests] /\ logReq'[c] = s
      /\ \A d \in LogClients : d # c => logReq'[d] = logReq[d]
  BY <1>1, OthersOf
<1>3. /\ DOMAIN logs = 1..Len(logs) /\ Len(logs) \in Nat /\ n \in Nat
      /\ \A i \in DOMAIN logs : logs[i] \in LogEntries
      /\ Log!ErrorLogs \in SUBSET Nat /\ IsFiniteSet(Log!ErrorLogs)
  BY <1>1, ErrorsAre
<1>4. /\ logs' \in Seq(LogEntries) /\ DOMAIN logs' = 1..n /\ logs'[n] = l
      /\ \A i \in DOMAIN logs : logs'[i] = logs[i]
  <2>1. /\ Append(logs, l) \in Seq(LogEntries) /\ Len(Append(logs, l)) = n
        /\ \A i \in 1..Len(logs) : Append(logs, l)[i] = logs[i] /\ Append(logs, l)[n] = l
    BY <1>1, AppendProperties
  <2>2. Append(logs, l)[n] = l
    BY <1>1, AppendProperties
  <2> QED
    BY <1>3, <2>1, <2>2, LenProperties
<1>5. \A i \in DOMAIN logs' : i = n \/ i \in DOMAIN logs
  BY <1>3, <1>4
<1>6. n \in DOMAIN logs' /\ n \notin DOMAIN logs /\ DOMAIN logs \subseteq DOMAIN logs'
  BY <1>3, <1>4
<1> HIDE DEF n
<1>7. LogsTyped' /\ AtFirst'
  BY <1>1, <1>2, <1>4 DEF LogsTyped, AtFirst
<1>8. \A d \in LogClients : Carried(logReq'[d], enabled', capture')
  <2> SUFFICES ASSUME NEW d \in LogClients PROVE Carried(logReq'[d], enabled, capture)
    OBVIOUS
  <2> QED
    BY <1>1, <1>2
<1>9. \A i \in DOMAIN logs : logs[i].client # c /\ logs[i].client \in LogClients
  BY <1>1, <1>3 DEF Written, Recounts, Logged, LogEntries
<1>10. l.client = c /\ l.there = TRUE /\ Recounts(l, s, enabled)
  BY DEF Logged, LogEntries
<1>11. \A i \in DOMAIN logs' : Recounts(logs'[i], logReq'[logs'[i].client], enabled)
  <2> SUFFICES ASSUME NEW i \in DOMAIN logs'
               PROVE  Recounts(logs'[i], logReq'[logs'[i].client], enabled)
    OBVIOUS
  <2>1. CASE i = n
    BY <1>2, <1>4, <1>10, <2>1
  <2>2. CASE i \in DOMAIN logs
    <3>1. Recounts(logs[i], logReq[logs[i].client], enabled)
      BY <1>1, <2>2 DEF Written
    <3>2. logs'[i] = logs[i] /\ logReq'[logs[i].client] = logReq[logs[i].client]
      BY <1>2, <1>4, <1>9, <2>2
    <3> QED
      BY <3>1, <3>2
  <2> QED
    BY <1>5, <2>1, <2>2
<1>12. \A i, j \in DOMAIN logs' : logs'[i].client = logs'[j].client => i = j
  <2> SUFFICES ASSUME NEW i \in DOMAIN logs', NEW j \in DOMAIN logs', logs'[i].client = logs'[j].client
               PROVE  i = j
    OBVIOUS
  <2>1. CASE i \in DOMAIN logs /\ j \in DOMAIN logs
    BY <1>1, <1>4, <2>1 DEF Written
  <2>2. CASE i = n /\ j \in DOMAIN logs
    BY <1>4, <1>9, <1>10, <2>2
  <2>3. CASE j = n /\ i \in DOMAIN logs
    BY <1>4, <1>9, <1>10, <2>3
  <2> QED
    BY <1>5, <2>1, <2>2, <2>3
<1>13. ASSUME NEW d \in LogClients, Ended(logReq'[d]), logReq'[d].steady, enabled
       PROVE  \E i \in DOMAIN logs' : logs'[i].client = d /\ logs'[i].there /\ ~logs'[i].error
  <2>1. CASE d = c
    <3>1. ~l.error
      BY <1>2, <1>10, <1>13, <2>1 DEF Recounts
    <3> QED
      BY <1>4, <1>6, <1>10, <2>1, <3>1
  <2>2. CASE d # c
    <3>1. PICK i \in DOMAIN logs : logs[i].client = d /\ logs[i].there /\ ~logs[i].error
      BY <1>1, <1>2, <1>13, <2>2 DEF Written
    <3> QED
      BY <1>4, <1>6, <3>1
  <2> QED
    BY <2>1, <2>2
<1>14. Written'
  <2>1. ASSUME NEW d \in LogClients, Ended(logReq'[d]), logReq'[d].steady, Log!HasError(logReq'[d])
        PROVE  \E i \in DOMAIN logs' : logs'[i].client = d
    <3>1. CASE d = c
      BY <1>4, <1>6, <1>10, <3>1
    <3>2. CASE d # c
      <4>1. PICK i \in DOMAIN logs : logs[i].client = d
        BY <1>1, <1>2, <2>1, <3>2 DEF Written
      <4> QED
        BY <1>4, <1>6, <4>1
    <3> QED
      BY <3>1, <3>2
  <2> QED
    BY <1>11, <1>12, <1>13, <2>1 DEF Written
<1>15. Log!ErrorLogs' = IF l.error THEN Log!ErrorLogs \cup {n} ELSE Log!ErrorLogs
  <2>1. \A i \in DOMAIN logs : i \in Log!ErrorLogs' <=> i \in Log!ErrorLogs
    BY <1>4, <1>6 DEF Log!ErrorLogs
  <2>2. n \in Log!ErrorLogs' <=> l.error
    BY <1>4, <1>6, <1>10 DEF Log!ErrorLogs
  <2>3. \A i \in Log!ErrorLogs' : i = n \/ i \in DOMAIN logs
    BY <1>5 DEF Log!ErrorLogs
  <2>4. Log!ErrorLogs \subseteq DOMAIN logs /\ n \notin Log!ErrorLogs
    BY <1>6 DEF Log!ErrorLogs
  <2> QED
    BY <2>1, <2>2, <2>3, <2>4
<1>16. Failures'
  <2>1. \A d \in LogClients : logReq'[d].listed = logReq[d].listed
    BY <1>2 DEF Logged
  <2>2. ASSUME NEW d \in LogClients, NEW k \in logReq'[d].listed
        PROVE  k \in DOMAIN logs' /\ logs'[k].error /\ \E i \in Log!ErrorLogs' : k <= i
    <3>1. k \in DOMAIN logs /\ logs[k].error /\ \E i \in Log!ErrorLogs : k <= i
      BY <2>1, <2>2 DEF LogInv, Failures
    <3> QED
      BY <1>4, <1>6, <1>15, <3>1
  <2>3. ASSUME NEW d \in LogClients, Ended(logReq'[d]), logReq'[d].force, logReq'[d].steady
        PROVE  Log!ErrorLogs' # {}
    <3>1. CASE d = c
      BY <1>2, <1>15, <2>3, <3>1 DEF Logged
    <3>2. CASE d # c
      <4>1. Log!ErrorLogs # {}
        BY <1>2, <2>3, <3>2 DEF LogInv, Failures
      <4> QED
        BY <1>15, <4>1
    <3> QED
      BY <3>1, <3>2
  <2> QED
    BY <2>2, <2>3 DEF Failures
<1>17. ASSUME toggles = 0 PROVE Few'
  <2>1. CASE l.error
    BY <1>2, <2>1 DEF Logged, Few
  <2>2. CASE ~l.error
    <3>1. Log!ErrorLogs' = Log!ErrorLogs /\ Few
      BY <1>15, <1>17, <2>2 DEF LogInv, Untouched
    <3>2. \A d \in LogClients : logReq[d].phase \in {"listing", "pruning"} => logReq'[d] = logReq[d]
      BY <1>2 DEF Logged, Ended
    <3>3. CASE Cardinality(Log!ErrorLogs) <= MaxFiles
      BY <3>1, <3>3 DEF Few
    <3>4. CASE \E d \in LogClients : logReq[d].phase = "listing"
      BY <3>2, <3>4 DEF Few
    <3>5. CASE \E d \in LogClients : logReq[d].phase = "pruning" /\ Log!ErrorLogs \subseteq logReq[d].listed
      BY <3>1, <3>2, <3>5 DEF Few
    <3> QED
      BY <3>1, <3>3, <3>4, <3>5 DEF Few
  <2> QED
    BY <2>1, <2>2
<1>18. toggles' = 0 => \A d \in LogClients : logReq'[d].steady
  BY <1>2 DEF LogInv, Untouched, Logged
<1> QED
  BY <1>7, <1>8, <1>14, <1>16, <1>17, <1>18 DEF LogInv, Untouched

LEMMA AnswersOf ==
  ASSUME NEW r \in LogRequests
  PROVE  /\ Log!Asked(r) \in Seq(Nat) /\ Log!Answers(r) \in Seq(Nat)
         /\ r.askedHere = <<>> => Log!Asked(r) = r.asked.parts
         /\ r.answersHere = <<>> => Log!Answers(r) = r.answers.parts
<1>1. /\ r.askedHere \in Seq(Nat) /\ r.asked.parts \in Seq(Nat)
      /\ r.answersHere \in Seq(Nat) /\ r.answers.parts \in Seq(Nat)
  BY DEF LogRequests, PartFiles
<1>2. r.askedHere \o r.asked.parts \in Seq(Nat) /\ r.answersHere \o r.answers.parts \in Seq(Nat)
  BY <1>1, ConcatProperties
<1>3. <<>> \o r.asked.parts = r.asked.parts /\ <<>> \o r.answers.parts = r.answers.parts
  BY <1>1, ConcatEmptySeq
<1> QED
  BY <1>2, <1>3 DEF Log!Asked, Log!Answers

\* The writer is done: the log of a stream.
LEMMA CloseKeeps ==
  ASSUME LogInv, NEW c \in LogClients, Log!Close(c)
  PROVE  LogInv'
<1> DEFINE r == logReq[c]
           k == Log!CleanAll(r)
           s == [k EXCEPT !.phase = "over", !.temps = FALSE, !.chunks = Log!NoPipe, !.writes = Log!NoPipe]
           l == Log!StreamLog(c, r)
<1>1. r \in LogRequests /\ Carried(r, enabled, capture) /\ enabled \in BOOLEAN
  BY DEF LogInv, LogsTyped
<1>2. /\ r.phase = "closing"
      /\ logReq' = [logReq EXCEPT ![c] = s] /\ logs' = Append(logs, l)
      /\ UNCHANGED <<enabled, capture, toggles>>
  BY DEF Log!Close, Log!Step
<1> HIDE DEF r
<1>3. CleanedAll(r, k) /\ k \in LogRequests
  BY <1>1, CleanAllOf DEF CleanedAll
<1>4. Log!NoPipe \in Pipes /\ Log!NoPipe.on = FALSE /\ Log!NoPipe.queue = <<>>
  <2>1. <<>> \in Seq(Nat)
    OBVIOUS
  <2> QED
    BY <2>1 DEF Log!NoPipe, Pipes
<1> DEFINE p == Log!NoPipe
           a == [k EXCEPT !.phase = "over"]
           b == [a EXCEPT !.temps = FALSE]
           d == [b EXCEPT !.chunks = p]
           t == [d EXCEPT !.writes = p]
<1>5. s = t
  BY <1>3 DEF LogRequests
<1> HIDE DEF k, p, s
<1>6. t \in LogRequests
  BY <1>3, <1>4 DEF LogRequests, LogPhases, p
<1>7. /\ CleanedAll(r, t) /\ t.phase = "over" /\ t.temps = FALSE /\ t.chunks = p /\ t.writes = p
  BY <1>3, <1>6 DEF CleanedAll, LogRequests
<1> HIDE DEF a, b, d, t
<1>8. SourcesHold(t) /\ Steadily(t, enabled, capture)
  <2>1. ~t.chunks.on
    BY <1>4, <1>7 DEF p
  <2> QED
    BY <1>1, <1>2, <1>7, <2>1, CleanedHold, CleanedSteady DEF Carried, Ended
<1>9. ~r.force
  BY <1>1, <1>2 DEF Carried, Staged
<1>10. Staged(t)
  <2>1. t.chunks.on = FALSE /\ t.writes.on = FALSE
    BY <1>4, <1>7 DEF p
  <2>2. t.status = r.status /\ t.stream = r.stream /\ t.force = r.force /\ r.status \in Nat
    BY <1>1, <1>7 DEF CleanedAll, LogRequests
  <2> QED
    BY <1>1, <1>7, <1>9, <2>1, <2>2 DEF Carried, Staged
<1>11. InOrder(t)
  <2>1. /\ t.body = r.body /\ t.file = r.file /\ t.said = r.said /\ r.said \in Nat
        /\ t.chunks.queue = <<>> /\ t.writes.queue = <<>>
    BY <1>1, <1>4, <1>7 DEF CleanedAll, LogRequests, p
  <2>2. InLine(<<>>, <<>>, <<>>, r.said) /\ InLine(r.file, r.writes.queue, r.chunks.queue, r.said)
    BY <1>1, <2>1, NothingInLine DEF Carried, InOrder
  <2>3. InLine(r.file, <<>>, <<>>, r.said)
    BY <2>2 DEF InLine, Before
  <2> QED
    BY <1>1, <2>1, <2>3 DEF Carried, InOrder
<1>12. /\ l.client = c /\ l.error = FALSE /\ l.there = TRUE /\ l.response = r.file
       /\ l.asked = Log!Asked(r) /\ l.answers = Log!Answers(r) /\ l \in LogEntries
  <2>1. Log!Asked(r) \in Seq(Nat) /\ Log!Answers(r) \in Seq(Nat) /\ r.file \in Seq(Nat)
    BY <1>1, AnswersOf DEF LogRequests
  <2> QED
    BY <2>1 DEF Log!StreamLog, Log!Log, LogEntries
<1> HIDE DEF l
<1>13. Recounts(l, t, enabled)
  <2>1. Log!Ordered(l.response) /\ Ended(t)
    BY <1>1, <1>7, <1>12 DEF Carried, InOrder, InLine, Ended
  <2>2. ASSUME t.steady
        PROVE  /\ enabled /\ t.stream
               /\ l.asked = UpTo(t.attempts) /\ Within(l.answers, t.attempts)
    <3>1. r.steady /\ t.attempts = r.attempts /\ t.stream = r.stream
      BY <1>7, <2>2 DEF CleanedAll
    <3>2. /\ enabled /\ r.chunks.on /\ r.stream /\ r.askedHere = <<>> /\ r.answersHere = <<>>
          /\ r.asked.parts = UpTo(r.attempts) /\ Within(r.answers.parts, r.attempts)
      BY <1>1, <1>2, <3>1 DEF Carried, Staged, Steadily, Working, Ended
    <3> QED
      BY <1>1, <1>12, <3>1, <3>2, AnswersOf
  <2> QED
    BY <1>12, <2>1, <2>2 DEF Recounts
<1>14. Logged(c, l, t)
  <2>1. t.steady = r.steady /\ t.listed = r.listed /\ t.force = r.force
    BY <1>7 DEF CleanedAll
  <2> QED
    BY <1>2, <1>6, <1>7, <1>8, <1>9, <1>10, <1>11, <1>12, <1>13, <2>1 DEF Logged, Carried, Ended, r
<1> QED
  BY <1>2, <1>5, <1>14, LoggedKeeps

\* A log in one piece, of a failure perhaps.
LEMMA LogPlainKeeps ==
  ASSUME LogInv, NEW c \in LogClients, Log!LogPlain(c)
  PROVE  LogInv'
<1> DEFINE r == logReq[c]
           k == Log!CleanAll(r)
           e == r.force /\ ~enabled
           p == IF e THEN "listing" ELSE "over"
           s == [k EXCEPT !.phase = p]
           l == Log!PlainLog(c, r, e)
<1>1. r \in LogRequests /\ Carried(r, enabled, capture) /\ enabled \in BOOLEAN
  BY DEF LogInv, LogsTyped
<1>2. /\ r.phase = "logging"
      /\ logReq' = [logReq EXCEPT ![c] = s]
      /\ UNCHANGED <<enabled, capture, toggles>>
      /\ IF ~enabled /\ ~r.force THEN UNCHANGED logs ELSE logs' = Append(logs, l)
  BY DEF Log!LogPlain, Log!Step, Log!Same
<1> HIDE DEF r
<1>3. /\ CleanedAll(r, k) /\ k.chunks = r.chunks /\ k.writes = r.writes /\ k.temps = r.temps
      /\ k \in LogRequests
  BY <1>1, CleanAllOf DEF CleanedAll
<1>4. r.force \in BOOLEAN /\ e \in BOOLEAN /\ p \in LogPhases /\ p \in {"listing", "over"}
  BY <1>1 DEF LogRequests, LogPhases
<1> DEFINE t == s
<1>5. t = [k EXCEPT !.phase = p]
  OBVIOUS
<1>6. (e <=> r.force /\ ~enabled) /\ (p = "listing" <=> e)
  BY <1>4
<1> HIDE DEF k, p, t, e
<1>7. /\ CleanedAll(r, t) /\ t.phase = p
      /\ t.chunks = r.chunks /\ t.writes = r.writes /\ t.temps = r.temps
  BY <1>3, <1>4, <1>5 DEF CleanedAll, LogRequests
<1>8. t \in LogRequests /\ Ended(t)
  BY <1>4, <1>7 DEF CleanedAll, Ended
<1>9. SourcesHold(t) /\ Steadily(t, enabled, capture)
  <2>1. ~t.chunks.on
    BY <1>1, <1>2, <1>7 DEF Carried, Staged
  <2> QED
    BY <1>1, <1>2, <1>7, <1>8, <2>1, CleanedHold, CleanedSteady DEF Carried
<1>10. InOrder(t)
  BY <1>1, <1>7 DEF CleanedAll, Carried, InOrder
<1>11. Staged(t)
  <2>1. ~r.chunks.on
    BY <1>1, <1>2 DEF Carried, Staged
  <2> QED
    BY <1>1, <1>4, <1>6, <1>7, <2>1 DEF CleanedAll, Carried, Staged, Log!HasError
<1>12. Carried(t, enabled, capture) /\ ~Ended(r)
  BY <1>2, <1>9, <1>10, <1>11 DEF Carried, Ended
<1>13. t.steady = r.steady /\ t.listed = r.listed /\ t.force = r.force
  BY <1>7 DEF CleanedAll
<1>14. CASE ~enabled /\ ~r.force
  <2>1. Continues(r, t)
    <3>1. ~t.steady
      BY <1>1, <1>2, <1>13, <1>14 DEF Carried, Steadily
    <3> QED
      BY <1>2, <1>8, <1>12, <1>13, <1>14, <3>1 DEF Continues, Carries
  <2>2. Quietly(c)
    BY <1>2, <1>14, <2>1 DEF Quietly, r, t
  <2> QED
    BY <2>2, QuietKeeps
<1>15. CASE enabled \/ r.force
  <2> DEFINE a == IF r.force /\ Log!Asked(r) = <<>> THEN r.deferred ELSE Log!Asked(r)
  <2>1. a \in Seq(Nat) /\ Log!Answers(r) \in Seq(Nat) /\ r.body \in Seq(Nat)
    BY <1>1, AnswersOf DEF LogRequests
  <2>2. l = Log!Log(c, e, r.body, a, Log!Answers(r))
    BY DEF Log!PlainLog
  <2> HIDE DEF a, l
  <2>3. /\ l.client = c /\ l.error = e /\ l.there = TRUE /\ l.response = r.body
        /\ l.asked = a /\ l.answers = Log!Answers(r) /\ l \in LogEntries
    BY <1>4, <2>1, <2>2 DEF Log!Log, LogEntries
  <2>4. Recounts(l, t, enabled)
    <3>1. Log!Ordered(l.response)
      BY <1>1, <2>3 DEF Carried, InOrder
    <3>2. t.attempts = r.attempts /\ t.stream = r.stream /\ t.said = r.said
      BY <1>7 DEF CleanedAll
    <3>3. ASSUME t.steady
          PROVE  /\ e = ~enabled
                 /\ a = UpTo(r.attempts) /\ Within(Log!Answers(r), r.attempts)
                 /\ enabled /\ ~r.stream => r.body = UpTo(r.said)
      <4>1. /\ r.onlyErrors = ~enabled /\ r.asked.on = enabled
            /\ enabled /\ ~r.stream => r.body = UpTo(r.said)
            /\ r.askedHere = <<>> /\ r.answersHere = <<>>
            /\ enabled => r.asked.parts = UpTo(r.attempts)
            /\ ~enabled => r.deferred = UpTo(r.attempts)
            /\ Within(r.answers.parts, r.attempts)
        BY <1>1, <1>2, <1>13, <3>3 DEF Carried, Steadily, Working, Ended
      <4>2. Log!Asked(r) = r.asked.parts /\ Log!Answers(r) = r.answers.parts
        BY <1>1, <4>1, AnswersOf
      <4>3. r.force => ~enabled
        BY <1>1, <4>1 DEF Carried, Staged
      <4>4. e = ~enabled
        BY <1>1, <1>4, <1>6, <1>15, <4>3
      <4>5. a = UpTo(r.attempts)
        <5>1. CASE enabled
          BY <4>1, <4>2, <4>3, <5>1 DEF a
        <5>2. CASE ~enabled
          <6>1. r.asked.parts = <<>>
            BY <1>1, <4>1, <5>2 DEF Carried, SourcesHold, SourceHolds
          <6> QED
            BY <1>15, <4>1, <4>2, <5>2, <6>1 DEF a
        <5> QED
          BY <5>1, <5>2
      <4> QED
        BY <4>1, <4>2, <4>4, <4>5
    <3> QED
      BY <1>6, <1>8, <1>13, <2>3, <3>1, <3>2, <3>3 DEF Recounts
  <2>5. t.force /\ t.steady => e
    BY <1>1, <1>2, <1>6, <1>13 DEF Carried, Staged, Steadily
  <2>6. e => t.phase = "listing"
    BY <1>6, <1>7
  <2>7. Logged(c, l, t)
    BY <1>8, <1>12, <1>13, <2>3, <2>4, <2>5, <2>6 DEF Logged, r
  <2> QED
    BY <1>2, <1>15, <2>7, LoggedKeeps DEF t
<1> QED
  BY <1>1, <1>4, <1>14, <1>15

-----------------------------------------------------------------------------
LEMMA LogsCounted == \A S : Log!Cardinality(S) = Cardinality(S)
BY DEF Log!Cardinality, Cardinality

\* All but the newest go: what is left of the listed logs is few,
LEMMA FewAreLeft ==
  ASSUME NEW S \in SUBSET Nat, IsFiniteSet(S)
  PROVE  Cardinality(S \ Log!Old(S)) <= MaxFiles
<1> DEFINE K == S \ Log!Old(S)
           G(i) == Log!Newer(S, i)
<1>1. MaxFiles \in Nat \ {0}
  BY LogSound
<1>2. \A i \in S : IsFiniteSet(G(i)) /\ Cardinality(G(i)) \in Nat
  <2> SUFFICES ASSUME NEW i \in S PROVE IsFiniteSet(G(i)) /\ Cardinality(G(i)) \in Nat
    OBVIOUS
  <2>1. G(i) \subseteq S
    BY DEF Log!Newer
  <2> HIDE DEF G
  <2> QED
    BY <2>1, FS_Subset, FS_CardinalityType
<1>3. \A i \in K : i \in S /\ ~(Cardinality(G(i)) >= MaxFiles)
  <2>1. Log!Old(S) = {i \in S : Cardinality(G(i)) >= MaxFiles}
    BY LogsCounted DEF Log!Old
  <2> HIDE DEF G
  <2> QED
    BY <2>1
<1> HIDE DEF K
<1>4. CASE K = {}
  BY <1>1, <1>4, FS_EmptySet DEF K
<1>5. CASE K # {}
  <2>1. K \in SUBSET Nat
    BY DEF K
  <2>2. PICK m \in K : \A i \in K : m <= i
    BY <1>5, <2>1, LeastOf
  <2>3. /\ IsFiniteSet(G(m)) /\ Cardinality(G(m)) \in Nat /\ Cardinality(G(m)) < MaxFiles
    <3> HIDE DEF G
    <3>1. m \in S /\ ~(Cardinality(G(m)) >= MaxFiles)
      BY <1>3, <2>2
    <3>2. IsFiniteSet(G(m)) /\ Cardinality(G(m)) \in Nat
      BY <1>2, <3>1
    <3> QED
      BY <1>1, <3>1, <3>2
  <2>4. m \notin G(m)
    BY <2>1, <2>2 DEF Log!Newer
  <2>5. K \subseteq G(m) \cup {m}
    <3> SUFFICES ASSUME NEW i \in K, i # m PROVE i > m /\ i \in S
      BY DEF Log!Newer
    <3>1. i \in Nat /\ m \in Nat /\ m <= i
      BY <2>1, <2>2
    <3>2. i \in S
      BY DEF K
    <3> QED
      BY <3>1, <3>2
  <2> HIDE DEF G
  <2>6. IsFiniteSet(G(m) \cup {m}) /\ Cardinality(G(m) \cup {m}) = Cardinality(G(m)) + 1
    BY <2>3, <2>4, FS_AddElement
  <2>7. Cardinality(K) <= Cardinality(G(m) \cup {m}) /\ Cardinality(K) \in Nat
    BY <2>5, <2>6, FS_Subset, FS_CardinalityType
  <2> QED
    BY <1>1, <2>3, <2>6, <2>7 DEF K
<1> QED
  BY <1>4, <1>5

\* and the newest of the error logs is not among those that go.
LEMMA NewestStays ==
  ASSUME NEW E \in SUBSET Nat, IsFiniteSet(E), NEW S \in SUBSET Nat,
         \A k \in S : \E i \in E : k <= i, NEW n \in E
  PROVE  \E i \in E \ Log!Old(S) : n <= i
<1>1. PICK m \in E : \A i \in E : i <= m
  BY GreatestOf
<1>2. Log!Newer(S, m) = {}
  <2> SUFFICES ASSUME NEW j \in S, j > m PROVE FALSE
    BY DEF Log!Newer
  <2>1. PICK i \in E : j <= i
    OBVIOUS
  <2>2. i \in Nat /\ j \in Nat /\ m \in Nat /\ i <= m
    BY <1>1
  <2> QED
    BY <2>1, <2>2
<1>3. Cardinality(Log!Newer(S, m)) = 0 /\ ~(0 >= MaxFiles)
  BY <1>2, LogSound, FS_EmptySet
<1>4. m \notin Log!Old(S)
  BY <1>3, LogsCounted DEF Log!Old
<1> QED
  BY <1>1, <1>4

\* So pruning keeps what holds.
LEMMA PruneKeeps ==
  ASSUME LogInv, NEW c \in LogClients, Log!Prune(c)
  PROVE  LogInv'
<1> DEFINE r == logReq[c]
           s == [r EXCEPT !.phase = "over", !.listed = {}]
           S == r.listed
           old == Log!Old(S)
<1>1. /\ LogsTyped /\ AtFirst /\ Written /\ Failures
      /\ r \in LogRequests /\ Carried(r, enabled, capture)
      /\ \A d \in LogClients : Carried(logReq[d], enabled, capture)
  BY DEF LogInv, LogsTyped
<1>2. /\ r.phase = "pruning"
      /\ logReq' = [logReq EXCEPT ![c] = s] /\ UNCHANGED <<enabled, capture, toggles>>
      /\ logs' = [i \in DOMAIN logs |-> [logs[i] EXCEPT !.there = @ /\ i \notin old]]
  BY DEF Log!Prune, Log!Step
<1>3. \A k \in S : k \in DOMAIN logs /\ logs[k].error /\ \E i \in Log!ErrorLogs : k <= i
  BY <1>1 DEF Failures
<1> HIDE DEF r
<1>4. /\ s \in LogRequests /\ s.phase = "over" /\ s.listed = {}
      /\ s.chunks = r.chunks /\ s.writes = r.writes
      /\ s.onlyErrors = r.onlyErrors /\ s.status = r.status /\ s.stream = r.stream /\ s.body = r.body
      /\ s.failed = r.failed /\ s.file = r.file /\ s.temps = r.temps
      /\ s.upload = r.upload /\ s.asked = r.asked /\ s.answers = r.answers /\ s.deferred = r.deferred
      /\ s.askedHere = r.askedHere /\ s.answersHere = r.answersHere /\ s.force = r.force
      /\ s.said = r.said /\ s.attempts = r.attempts /\ s.steady = r.steady
      /\ s.late = r.late
  BY <1>1 DEF LogRequests, LogPhases
<1> HIDE DEF s
<1>5. SourcesHold(s) /\ InOrder(s)
  BY <1>1, <1>2, <1>4 DEF Carried, SourcesHold, SourceHolds, InOrder, Working, Ended
<1>6. Staged(s)
  BY <1>1, <1>2, <1>4 DEF Carried, Staged, Log!HasError
<1>7. Steadily(s, enabled, capture)
  BY <1>1, <1>2, <1>4 DEF Carried, Steadily, Working, Ended
<1>8. /\ logReq' \in [LogClients -> LogRequests] /\ logReq'[c] = s
      /\ \A d \in LogClients : d # c => logReq'[d] = logReq[d]
  BY <1>1, <1>2, <1>4, OthersOf
<1>9. /\ DOMAIN logs = 1..Len(logs) /\ Len(logs) \in Nat
      /\ \A i \in DOMAIN logs : logs[i] \in LogEntries
      /\ Log!ErrorLogs \in SUBSET Nat /\ IsFiniteSet(Log!ErrorLogs)
  BY <1>1, ErrorsAre
<1>10. S \in SUBSET Nat /\ IsFiniteSet(S)
  <2>1. S \subseteq 1..Len(logs) /\ IsFiniteSet(1..Len(logs))
    BY <1>3, <1>9, CountUpTo
  <2> QED
    BY <2>1, FS_Subset
<1> HIDE DEF old
<1>11. /\ DOMAIN logs' = DOMAIN logs
       /\ \A i \in DOMAIN logs :
            /\ logs'[i] \in LogEntries
            /\ logs'[i].client = logs[i].client /\ logs'[i].error = logs[i].error
            /\ logs'[i].response = logs[i].response /\ logs'[i].asked = logs[i].asked
            /\ logs'[i].answers = logs[i].answers
            /\ logs'[i].there = (logs[i].there /\ i \notin old)
  <2>1. DOMAIN logs' = DOMAIN logs
    BY <1>2
  <2>2. ASSUME NEW i \in DOMAIN logs
        PROVE  /\ logs'[i] \in LogEntries
               /\ logs'[i].client = logs[i].client /\ logs'[i].error = logs[i].error
               /\ logs'[i].response = logs[i].response /\ logs'[i].asked = logs[i].asked
               /\ logs'[i].answers = logs[i].answers
               /\ logs'[i].there = (logs[i].there /\ i \notin old)
    <3> DEFINE b == logs[i].there /\ i \notin old
    <3>1. logs'[i] = [logs[i] EXCEPT !.there = b]
      BY <1>2
    <3>2. logs[i] \in LogEntries /\ b \in BOOLEAN
      BY <1>9
    <3> HIDE DEF b
    <3>3. /\ logs'[i] \in LogEntries
          /\ logs'[i].client = logs[i].client /\ logs'[i].error = logs[i].error
          /\ logs'[i].response = logs[i].response /\ logs'[i].asked = logs[i].asked
          /\ logs'[i].answers = logs[i].answers
          /\ logs'[i].there = b
      BY <3>1, <3>2 DEF LogEntries
    <3> QED
      BY <3>3 DEF b
  <2> QED
    BY <2>1, <2>2
<1>12. logs' \in Seq(LogEntries)
  <2>1. logs' = [i \in 1..Len(logs) |-> logs'[i]]
    BY <1>2, <1>9
  <2> DEFINE g == logs'
  <2>2. g = [i \in 1..Len(logs) |-> g[i]] /\ \A i \in 1..Len(logs) : g[i] \in LogEntries
    BY <1>9, <1>11, <2>1
  <2> HIDE DEF g
  <2>3. g \in Seq(LogEntries)
    BY <1>9, <2>2, SeqDef
  <2> QED
    BY <2>3 DEF g
<1>13. LogsTyped' /\ AtFirst'
  BY <1>1, <1>2, <1>8, <1>12 DEF LogsTyped, AtFirst
<1>14. \A d \in LogClients : Carried(logReq'[d], enabled', capture')
  <2> SUFFICES ASSUME NEW d \in LogClients PROVE Carried(logReq'[d], enabled, capture)
    BY <1>2
  <2>1. Carried(s, enabled, capture)
    BY <1>5, <1>6, <1>7 DEF Carried
  <2> QED
    BY <1>1, <1>8, <2>1
<1>15. \A i \in DOMAIN logs : Recounts(logs'[i], logReq'[logs'[i].client], enabled)
  <2> SUFFICES ASSUME NEW i \in DOMAIN logs PROVE Recounts(logs'[i], logReq'[logs[i].client], enabled)
    BY <1>11
  <2>1. Recounts(logs[i], logReq[logs[i].client], enabled) /\ logs[i].client \in LogClients
    BY <1>1, <1>9 DEF Written, LogEntries
  <2>2. Recounts(logs[i], logReq'[logs[i].client], enabled)
    <3>1. CASE logs[i].client # c
      BY <1>8, <2>1, <3>1
    <3>2. CASE logs[i].client = c
      <4>1. Recounts(logs[i], r, enabled)
        BY <2>1, <3>2 DEF r
      <4>2. Recounts(logs[i], s, enabled)
        BY <1>4, <4>1 DEF Recounts, Ended
      <4> QED
        BY <1>8, <3>2, <4>2
    <3> QED
      BY <3>1, <3>2
  <2> QED
    BY <1>11, <2>2 DEF Recounts
<1>16. \A d \in LogClients : Ended(logReq'[d]) <=> Ended(logReq[d])
  BY <1>2, <1>4, <1>8 DEF Ended, r
<1>17. \A d \in LogClients : logReq'[d].steady = logReq[d].steady /\ logReq'[d].force = logReq[d].force
  BY <1>4, <1>8 DEF r
<1>18. old \subseteq S
  BY DEF old, Log!Old
<1>19. ASSUME NEW d \in LogClients, Ended(logReq'[d]), logReq'[d].steady, enabled
       PROVE  \E i \in DOMAIN logs : logs'[i].client = d /\ logs'[i].there /\ ~logs'[i].error
  <2>1. PICK i \in DOMAIN logs : logs[i].client = d /\ logs[i].there /\ ~logs[i].error
    BY <1>1, <1>16, <1>17, <1>19 DEF Written
  <2>2. i \notin old
    BY <1>3, <1>18, <2>1
  <2> QED
    BY <1>11, <2>1, <2>2
<1>20. Written'
  <2>1. ASSUME NEW d \in LogClients, Ended(logReq'[d]), logReq'[d].steady, Log!HasError(logReq'[d])
        PROVE  \E i \in DOMAIN logs : logs'[i].client = d
    <3>1. Log!HasError(logReq[d])
      BY <1>4, <1>8, <2>1 DEF r, Log!HasError
    <3>2. PICK i \in DOMAIN logs : logs[i].client = d
      BY <1>1, <1>16, <1>17, <2>1, <3>1 DEF Written
    <3> QED
      BY <1>11, <3>2
  <2>2. \A i, j \in DOMAIN logs : logs'[i].client = logs'[j].client => i = j
    BY <1>1, <1>11 DEF Written
  <2>3. DOMAIN logs' = DOMAIN logs /\ enabled' = enabled
    BY <1>2, <1>11
  <2> HIDE DEF s, r, S
  <2> QED
    BY <1>15, <1>19, <2>1, <2>2, <2>3 DEF Written
<1>21. Log!ErrorLogs' = Log!ErrorLogs \ old
  BY <1>11 DEF Log!ErrorLogs
<1>22. ASSUME NEW n \in Log!ErrorLogs PROVE \E i \in Log!ErrorLogs' : n <= i
  <2> DEFINE E == Log!ErrorLogs
  <2>1. E \in SUBSET Nat /\ IsFiniteSet(E) /\ (\A k \in S : \E i \in E : k <= i) /\ n \in E
    BY <1>3, <1>9
  <2> HIDE DEF E, S
  <2>2. \E i \in E \ Log!Old(S) : n <= i
    BY <1>10, <2>1, NewestStays
  <2> QED
    BY <1>21, <2>2 DEF E, old
<1>23. Failures'
  <2>1. ASSUME NEW d \in LogClients, NEW k \in logReq'[d].listed
        PROVE  k \in DOMAIN logs' /\ logs'[k].error /\ \E i \in Log!ErrorLogs' : k <= i
    <3>1. d # c /\ k \in logReq[d].listed
      BY <1>4, <1>8, <2>1
    <3>2. k \in DOMAIN logs /\ logs[k].error /\ \E i \in Log!ErrorLogs : k <= i
      BY <1>1, <3>1 DEF Failures
    <3>3. PICK i \in Log!ErrorLogs : k <= i
      BY <3>2
    <3>4. PICK j \in Log!ErrorLogs' : i <= j
      BY <1>22
    <3>5. i \in Nat /\ j \in Nat /\ k \in Nat
      BY <1>9, <1>21, <3>2, <3>3, <3>4
    <3>6. k <= j
      BY <3>3, <3>4, <3>5
    <3> QED
      BY <1>11, <3>2, <3>4, <3>6
  <2>2. ASSUME NEW d \in LogClients, Ended(logReq'[d]), logReq'[d].force, logReq'[d].steady
        PROVE  Log!ErrorLogs' # {}
    <3>1. Log!ErrorLogs # {}
      BY <1>1, <1>16, <1>17, <2>2 DEF Failures
    <3> QED
      BY <1>22, <3>1
  <2> QED
    BY <2>1, <2>2 DEF Failures
<1>24. ASSUME toggles = 0 PROVE Few'
  <2>1. Few
    BY <1>24 DEF LogInv, Untouched
  <2>2. Log!ErrorLogs' \subseteq Log!ErrorLogs
    BY <1>21
  <2>3. CASE Cardinality(Log!ErrorLogs) <= MaxFiles
    <3> DEFINE E == Log!ErrorLogs
               F == Log!ErrorLogs'
    <3>1. IsFiniteSet(E) /\ F \subseteq E /\ Cardinality(E) <= MaxFiles
      BY <1>9, <2>2, <2>3
    <3> HIDE DEF E, F
    <3>2. Cardinality(F) <= Cardinality(E) /\ Cardinality(F) \in Nat /\ Cardinality(E) \in Nat
      BY <3>1, FS_Subset, FS_CardinalityType
    <3>3. Cardinality(F) <= MaxFiles
      BY <3>1, <3>2, LogSound
    <3> QED
      BY <3>3 DEF F, Few
  <2>4. CASE \E d \in LogClients : logReq[d].phase = "listing"
    <3>1. PICK d \in LogClients : logReq[d].phase = "listing"
      BY <2>4
    <3>2. logReq'[d].phase = "listing"
      BY <1>2, <1>8, <3>1 DEF r
    <3> QED
      BY <3>2 DEF Few
  <2>5. CASE \E d \in LogClients : logReq[d].phase = "pruning" /\ Log!ErrorLogs \subseteq logReq[d].listed
    <3>1. PICK d \in LogClients : logReq[d].phase = "pruning" /\ Log!ErrorLogs \subseteq logReq[d].listed
      BY <2>5
    <3>2. CASE d # c
      <4>1. logReq'[d].phase = "pruning" /\ Log!ErrorLogs' \subseteq logReq'[d].listed
        BY <1>8, <2>2, <3>1, <3>2
      <4> QED
        BY <4>1 DEF Few
    <3>3. CASE d = c
      <4> DEFINE F == Log!ErrorLogs'
      <4>1. F \subseteq S \ Log!Old(S)
        BY <1>21, <3>1, <3>3 DEF r, old
      <4> HIDE DEF F, S
      <4>2. Cardinality(S \ Log!Old(S)) <= MaxFiles
        BY <1>10, FewAreLeft
      <4>3. IsFiniteSet(S \ Log!Old(S))
        BY <1>10, FS_Subset
      <4>4. Cardinality(F) <= Cardinality(S \ Log!Old(S)) /\ Cardinality(F) \in Nat
            /\ Cardinality(S \ Log!Old(S)) \in Nat
        BY <4>1, <4>3, FS_Subset, FS_CardinalityType
      <4>5. Cardinality(F) <= MaxFiles
        BY <4>2, <4>4, LogSound
      <4> QED
        BY <4>5 DEF F, Few
    <3> QED
      BY <3>2, <3>3
  <2> QED
    BY <2>1, <2>3, <2>4, <2>5 DEF Few
<1>25. toggles' = 0 => \A d \in LogClients : logReq'[d].steady
  BY <1>2, <1>17 DEF LogInv, Untouched
<1> QED
  BY <1>2, <1>13, <1>14, <1>20, <1>23, <1>24, <1>25 DEF LogInv, Untouched

-----------------------------------------------------------------------------
\* Nothing is steady once something was switched.
LEMMA ToggleKeeps ==
  ASSUME LogInv, NEW which, Log!Toggle(which)
  PROVE  LogInv'
<1> DEFINE s(c) == [logReq[c] EXCEPT !.steady = FALSE]
<1>1. /\ LogsTyped /\ Written /\ Failures /\ toggles \in Nat
      /\ enabled \in BOOLEAN /\ capture \in BOOLEAN
      /\ \A c \in LogClients : Carried(logReq[c], enabled, capture)
  BY DEF LogInv, LogsTyped
<1>2. /\ toggles' = toggles + 1 /\ UNCHANGED logs
      /\ enabled' \in BOOLEAN /\ capture' \in BOOLEAN
      /\ logReq' = [c \in LogClients |-> IF logReq[c].phase = "none" THEN logReq[c] ELSE s(c)]
  BY <1>1 DEF Log!Toggle, Log!Same
<1> DEFINE t(c) == logReq'[c]
<1>3. \A c \in LogClients : logReq[c] \in LogRequests
  BY <1>1 DEF LogsTyped
<1>4. ASSUME NEW c \in LogClients, logReq[c].phase = "none"
      PROVE  t(c) = logReq[c]
  BY <1>2, <1>4
<1>5. ASSUME NEW c \in LogClients, logReq[c].phase # "none"
      PROVE  /\ t(c) \in LogRequests /\ t(c).phase = logReq[c].phase /\ t(c).steady = FALSE
             /\ t(c).listed = logReq[c].listed
             /\ SourcesHold(t(c)) /\ InOrder(t(c)) /\ Staged(t(c))
  <2> DEFINE r == logReq[c]
             u == s(c)
  <2>1. t(c) = u /\ r \in LogRequests /\ Carried(r, enabled, capture)
    BY <1>1, <1>2, <1>3, <1>5
  <2> HIDE DEF r, t
  <2>2. u = [r EXCEPT !.steady = FALSE]
    BY DEF r
  <2> HIDE DEF u, s
  <2>3. /\ u \in LogRequests /\ u.phase = r.phase /\ u.chunks = r.chunks /\ u.writes = r.writes
        /\ u.onlyErrors = r.onlyErrors /\ u.status = r.status /\ u.stream = r.stream /\ u.body = r.body
        /\ u.failed = r.failed /\ u.file = r.file /\ u.temps = r.temps
        /\ u.upload = r.upload /\ u.asked = r.asked /\ u.answers = r.answers
        /\ u.force = r.force /\ u.listed = r.listed /\ u.said = r.said /\ u.steady = FALSE
    BY <2>1, <2>2 DEF LogRequests
  <2>4. SourcesHold(u) /\ InOrder(u) /\ Staged(u)
    BY <2>1, <2>3 DEF Carried, SourcesHold, SourceHolds, InOrder, Staged, Working, Ended, Log!HasError
  <2> QED
    BY <2>1, <2>3, <2>4 DEF r
<1> HIDE DEF t
<1>6. \A c \in LogClients : t(c) \in LogRequests /\ t(c).phase = logReq[c].phase /\ t(c).listed = logReq[c].listed
  BY <1>3, <1>4, <1>5
<1>7. \A c \in LogClients : Carried(t(c), enabled', capture')
  <2> SUFFICES ASSUME NEW c \in LogClients PROVE Carried(t(c), enabled', capture')
    OBVIOUS
  <2>1. CASE logReq[c].phase = "none"
    BY <1>1, <1>4, <2>1 DEF Carried, Steadily
  <2>2. CASE logReq[c].phase # "none"
    BY <1>5, <2>2 DEF Carried, Steadily
  <2> QED
    BY <2>1, <2>2
<1>8. \A c \in LogClients : Ended(t(c)) <=> Ended(logReq[c])
  BY <1>6 DEF Ended
<1>9. \A c \in LogClients : Ended(t(c)) => ~t(c).steady
  BY <1>4, <1>5, <1>6 DEF Ended
<1>10. LogsTyped'
  <2>1. logReq' \in [LogClients -> LogRequests]
    <3>1. \A c \in LogClients : logReq'[c] \in LogRequests
      BY <1>6 DEF t
    <3>2. logReq' = [c \in LogClients |-> logReq'[c]]
      BY <1>2
    <3> QED
      BY <3>1, <3>2
  <2> QED
    BY <1>1, <1>2, <2>1 DEF LogsTyped
<1>11. \A c \in LogClients : logReq'[c] = t(c)
  BY DEF t
<1>12. Written'
  <2>1. ASSUME NEW i \in DOMAIN logs
        PROVE  Recounts(logs[i], logReq'[logs[i].client], enabled')
    <3>1. Recounts(logs[i], logReq[logs[i].client], enabled) /\ logs[i].client \in LogClients
      BY <1>1, ErrorsAre DEF Written, LogEntries
    <3>2. Ended(t(logs[i].client)) /\ ~t(logs[i].client).steady
      BY <1>8, <1>9, <3>1 DEF Recounts
    <3> QED
      BY <1>11, <3>1, <3>2 DEF Recounts
  <2>2. ASSUME NEW c \in LogClients, Ended(logReq'[c]), logReq'[c].steady
        PROVE  FALSE
    BY <1>9, <1>11, <2>2
  <2> QED
    BY <1>1, <1>2, <2>1, <2>2 DEF Written
<1>13. Failures'
  <2>1. Log!ErrorLogs' = Log!ErrorLogs
    BY <1>2 DEF Log!ErrorLogs
  <2>2. \A c \in LogClients : logReq'[c].listed = logReq[c].listed
    BY <1>6, <1>11
  <2>3. ASSUME NEW c \in LogClients, Ended(logReq'[c]), logReq'[c].steady
        PROVE  FALSE
    BY <1>9, <1>11, <2>3
  <2>4. ASSUME NEW c \in LogClients, NEW l \in logReq'[c].listed
        PROVE  l \in DOMAIN logs /\ logs[l].error /\ \E i \in Log!ErrorLogs : l <= i
    BY <1>1, <2>2, <2>4 DEF Failures
  <2> QED
    BY <1>2, <2>1, <2>3, <2>4 DEF Failures
<1>14. Untouched' /\ AtFirst'
  <2>1. toggles' # 0
    BY <1>1, <1>2
  <2> QED
    BY <2>1 DEF Untouched, AtFirst
<1>15. \A c \in LogClients : Carried(logReq'[c], enabled', capture')
  BY <1>7, <1>11
<1> QED
  BY <1>10, <1>12, <1>13, <1>14, <1>15 DEF LogInv

LEMMA LogsStart == Log!Init => LogInv
<1> SUFFICES ASSUME Log!Init PROVE LogInv
  OBVIOUS
<1>1. /\ enabled \in BOOLEAN /\ capture = enabled /\ toggles = 0 /\ logs = <<>>
      /\ logReq = [c \in LogClients |-> Log!NoRequest]
  BY DEF Log!Init
<1>2. <<>> \in Seq(Nat) /\ <<>> \in Seq(LogEntries) /\ DOMAIN logs = {}
  BY <1>1
<1> DEFINE n == Log!NoRequest
<1>3. /\ n \in LogRequests /\ n.phase = "none" /\ n.steady = TRUE /\ n.force = FALSE /\ n.listed = {}
      /\ n.upload = Log!NoSource /\ n.asked = Log!NoSource /\ n.answers = Log!NoSource
      /\ n.chunks = Log!NoPipe /\ n.writes = Log!NoPipe /\ n.temps = FALSE /\ n.stream = FALSE
      /\ n.body = <<>> /\ n.file = <<>> /\ n.said = 0
  <2>1. Log!NoPipe \in Pipes /\ Log!NoSource \in PartFiles
    BY <1>2 DEF Log!NoPipe, Log!NoSource, Pipes, PartFiles
  <2> QED
    BY <1>2, <2>1 DEF Log!NoRequest, LogRequests, LogPhases
<1> HIDE DEF n
<1>4. /\ Log!NoPipe.on = FALSE /\ Log!NoPipe.queue = <<>>
      /\ Log!NoSource.on = FALSE /\ Log!NoSource.clean = FALSE /\ Log!NoSource.parts = <<>>
  BY DEF Log!NoPipe, Log!NoSource
<1>5. SourcesHold(n) /\ Staged(n) /\ Steadily(n, enabled, capture) /\ ~Ended(n)
  BY <1>3, <1>4 DEF SourcesHold, SourceHolds, Staged, Steadily, Working, Ended
<1>6. InOrder(n)
  BY <1>3, <1>4, NothingInLine DEF InOrder
<1>7. \A c \in LogClients : logReq[c] = n
  BY <1>1 DEF n
<1>8. LogsTyped /\ AtFirst
  BY <1>1, <1>2, <1>3 DEF LogsTyped, AtFirst, n
<1>9. Log!ErrorLogs = {}
  BY <1>2 DEF Log!ErrorLogs
<1>10. Written /\ Failures
  BY <1>2, <1>3, <1>5, <1>7 DEF Written, Failures
<1>11. Few
  <2>1. Cardinality(Log!ErrorLogs) <= MaxFiles
    BY <1>9, FS_EmptySet, LogSound
  <2> QED
    BY <2>1 DEF Few
<1>12. Untouched
  BY <1>3, <1>7, <1>11 DEF Untouched
<1> QED
  BY <1>5, <1>6, <1>7, <1>8, <1>10, <1>12 DEF LogInv, Carried

LEMMA LogStep == LogInv /\ [Log!Next]_logVars => LogInv'
<1> SUFFICES ASSUME LogInv, [Log!Next]_logVars PROVE LogInv'
  OBVIOUS
<1>1. CASE UNCHANGED logVars
  BY <1>1 DEF logVars, LogInv, LogsTyped, AtFirst, Written, Failures, Untouched, Few, Log!ErrorLogs
<1>2. ASSUME NEW c \in LogClients, NEW large \in BOOLEAN, Log!Begin(c, large) PROVE LogInv'
  BY <1>2, BeginGoesOn, QuietKeeps
<1>3. ASSUME NEW c \in LogClients, NEW code \in {200, 500}, NEW sse \in BOOLEAN, Log!WriteHeader(c, code, sse)
      PROVE  LogInv'
  <2>1. code \in Nat \ {0}
    OBVIOUS
  <2> QED
    BY <1>3, <2>1, WriteHeaderGoesOn, QuietKeeps
<1>4. ASSUME NEW c \in LogClients, Log!Ask(c) PROVE LogInv'
  BY <1>4, AskGoesOn, QuietKeeps
<1>5. ASSUME NEW c \in LogClients, Log!Reply(c) PROVE LogInv'
  BY <1>5, ReplyGoesOn, QuietKeeps
<1>6. ASSUME NEW c \in LogClients, Log!Failed(c) PROVE LogInv'
  BY <1>6, FailedGoesOn, QuietKeeps
<1>7. ASSUME NEW c \in LogClients, Log!Write(c) PROVE LogInv'
  BY <1>7, WriteGoesOn, QuietKeeps
<1>8. ASSUME NEW c \in LogClients, Log!Pass(c) PROVE LogInv'
  BY <1>8, PassGoesOn, QuietKeeps
<1>9. ASSUME NEW c \in LogClients, Log!Store(c) PROVE LogInv'
  BY <1>9, StoreGoesOn, QuietKeeps
<1>10. ASSUME NEW c \in LogClients, Log!Finalize(c) PROVE LogInv'
  BY <1>10, FinalizeGoesOn, QuietKeeps
<1>11. ASSUME NEW c \in LogClients, Log!Drained(c) PROVE LogInv'
  BY <1>11, DrainedGoesOn, QuietKeeps
<1>12. ASSUME NEW c \in LogClients, Log!Close(c) PROVE LogInv'
  BY <1>12, CloseKeeps
<1>13. ASSUME NEW c \in LogClients, Log!LogPlain(c) PROVE LogInv'
  BY <1>13, LogPlainKeeps
<1>14. ASSUME NEW c \in LogClients, Log!List(c) PROVE LogInv'
  BY <1>14, ListKeeps
<1>15. ASSUME NEW c \in LogClients, Log!Prune(c) PROVE LogInv'
  BY <1>15, PruneKeeps
<1>16. ASSUME NEW which \in {"logger", "executors"}, Log!Toggle(which) PROVE LogInv'
  BY <1>16, ToggleKeeps
<1> QED
  BY <1>1, <1>2, <1>3, <1>4, <1>5, <1>6, <1>7, <1>8, <1>9, <1>10, <1>11, <1>12, <1>13, <1>14, <1>15, <1>16
     DEF Log!Next

\* What is asked of the logs follows.
LEMMA LogsFollow ==
  ASSUME LogInv
  PROVE  Log!LogsAreKept
<1>1. /\ LogsTyped /\ Written /\ Failures /\ Untouched
      /\ \A c \in LogClients : logReq[c] \in LogRequests /\ Carried(logReq[c], enabled, capture)
  BY DEF LogInv, LogsTyped
<1>2. \A c \in LogClients : Log!Over(c) <=> Ended(logReq[c])
  BY DEF Log!Over, Ended
<1>3. ASSUME NEW c \in LogClients PROVE Log!Tidy(c)
  <2> DEFINE r == logReq[c]
  <2>1. r \in LogRequests /\ Carried(r, enabled, capture)
    BY <1>1
  <2> HIDE DEF r
  <2>2. ASSUME Ended(r)
        PROVE  /\ r.upload.parts = <<>> /\ r.upload.on = r.upload.clean
               /\ r.asked.parts = <<>> /\ r.asked.on = r.asked.clean
               /\ r.answers.parts = <<>> /\ r.answers.on = r.answers.clean
    <3>1. \A x \in {r.upload, r.asked, r.answers} :
            SourceHolds(x, r) /\ x.on \in BOOLEAN /\ x.clean \in BOOLEAN
      BY <2>1 DEF LogRequests, PartFiles, Carried, SourcesHold
    <3> QED
      BY <2>2, <3>1 DEF SourceHolds
  <2>3. ASSUME Ended(r), r.steady PROVE ~r.temps /\ ~r.chunks.on /\ ~r.writes.on
    BY <2>1, <2>3 DEF Carried, Staged, Steadily, Ended
  <2> QED
    BY <1>2, <2>2, <2>3 DEF Log!Tidy, r
<1>4. ASSUME NEW c \in LogClients PROVE Log!Kept(c)
  <2> DEFINE r == logReq[c]
             found == Log!LogsOf(c)
  <2>1. r \in LogRequests /\ Carried(r, enabled, capture) /\ enabled \in BOOLEAN
    BY <1>1 DEF LogsTyped
  <2>2. \A i \in found : /\ i \in DOMAIN logs /\ logs[i].client = c /\ logs[i] \in LogEntries
                         /\ Recounts(logs[i], r, enabled)
    BY <1>1, ErrorsAre DEF Log!LogsOf, Written
  <2>3. \A i, j \in found : i = j
    BY <1>1, <2>2 DEF Written
  <2>4. /\ Ended(r) /\ r.steady /\ enabled => found # {}
        /\ Ended(r) /\ r.steady /\ Log!HasError(r) => \E i \in DOMAIN logs : logs[i].client = c
    BY <1>1 DEF Written, Log!LogsOf
  <2> HIDE DEF found, r
  <2>5. ASSUME NEW i \in found PROVE Log!Ordered(logs[i].response)
    BY <2>2 DEF Recounts
  <2>6. ASSUME NEW i \in found, r.steady, ~enabled, ~Log!HasError(r) PROVE FALSE
    BY <2>1, <2>2, <2>6 DEF Recounts, Carried, Staged
  <2>7. ASSUME NEW i \in found, r.steady
        PROVE  /\ logs[i].error = ~enabled
               /\ ~r.late => logs[i].asked = [n \in 1..r.attempts |-> n]
               /\ ~r.late /\ enabled => Log!ToSet(logs[i].answers) \subseteq Log!ToSet(logs[i].asked)
               /\ enabled /\ ~r.stream => logs[i].response = [n \in 1..r.said |-> n]
    <3>1. /\ logs[i].error = ~enabled
          /\ ~r.late => logs[i].asked = UpTo(r.attempts)
          /\ ~r.late /\ enabled => Within(logs[i].answers, r.attempts)
          /\ enabled /\ ~r.stream => logs[i].response = UpTo(r.said)
      BY <2>2, <2>7 DEF Recounts
    <3>2. ASSUME ~r.late, enabled PROVE Log!ToSet(logs[i].answers) \subseteq Log!ToSet(logs[i].asked)
      <4>1. logs[i].asked = UpTo(r.attempts) /\ Within(logs[i].answers, r.attempts)
        BY <3>1, <3>2
      <4>2. \A k \in 1..r.attempts : k \in DOMAIN UpTo(r.attempts) /\ UpTo(r.attempts)[k] = k
        BY DEF UpTo
      <4> QED
        BY <4>1, <4>2 DEF Log!ToSet, Within
    <3> QED
      BY <3>1, <3>2 DEF UpTo
  <2> QED
    BY <1>2, <2>3, <2>4, <2>5, <2>6, <2>7 DEF Log!Kept, Log!Promised, found, r
<1>5. Log!ErrorsBounded
  <2>1. ASSUME toggles = 0, Log!Rest PROVE Cardinality(Log!ErrorLogs) <= MaxFiles
    BY <1>1, <2>1 DEF Untouched, Few, Log!Rest
  <2>2. ASSUME NEW c \in LogClients, Log!Over(c), logReq[c].force, logReq[c].steady
        PROVE  Log!ErrorLogs # {}
    BY <1>1, <1>2, <2>2 DEF Failures
  <2>3. toggles = 0 /\ Log!Rest => Cardinality(Log!ErrorLogs) <= MaxFiles
    BY <2>1
  <2>4. (\E c \in LogClients : Log!Over(c) /\ logReq[c].force /\ logReq[c].steady) => Log!ErrorLogs # {}
    BY <2>2
  <2> QED
    BY <2>3, <2>4, LogsCounted DEF Log!ErrorsBounded
<1> QED
  BY <1>3, <1>4, <1>5 DEF Log!LogsAreKept

\* A request that has ended leaves no file and no goroutine behind; while
\* nothing is switched, every request is logged once when the log is on and
\* every failed one when it is off, with what was tried and answered in its
\* order; and of the logs of failures no more than errorLogsMaxFiles are kept,
\* the newest among them: for any number of requests, attempts and chunks
\* (request_logger.go).
THEOREM LogsAreComplete == Log!Spec => []LogsAreKept
<1>1. Log!Init => LogInv
  BY LogsStart
<1>2. LogInv /\ [Log!Next]_(Log!vars) => LogInv'
  BY LogStep DEF logVars, Log!vars
<1>3. LogInv => LogsAreKept
  BY LogsFollow DEF LogsAreKept
<1> QED
  BY <1>1, <1>2, <1>3, PTL DEF Log!Spec
=============================================================================
