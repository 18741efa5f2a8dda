--------------------------- MODULE PlatformProofs ---------------------------
(***************************************************************************)
(* Three arguments about the platform that rest on the first element of an *)
(* ordered finite set: which runs a poll claims (QueueDrain), which        *)
(* cluster a run is placed on (Placement), and what the pages and receipts *)
(* of the API promise clients (ClientApi), for any number of tenants,      *)
(* runs, clusters, clients, keys, artifacts and faults.                    *)
(***************************************************************************)
EXTENDS ClientApi, Placement, QueueDrain, FiniteSetTheorems, TLAPS

\* In a finite set that a relation orders, every part that is not empty has an
\* element with no other of the part before it.
LEMMA FirstOf ==
  ASSUME NEW S, IsFiniteSet(S), NEW B \in [S -> SUBSET S],
         \A x \in S : x \notin B[x],
         \A x, y \in S : y \in B[x] => B[y] \subseteq B[x],
         NEW T \in SUBSET S, T # {}
  PROVE  \E x \in T : \A y \in T : y \notin B[x]
<1> DEFINE sets == {B[x] : x \in T}
           R == StrictSubsetOrdering(S)
<1>1. sets \subseteq FiniteSubsetsOf(S) /\ sets # {}
  BY FS_Subset DEF FiniteSubsetsOf
<1>2. IsWellFoundedOn(R, FiniteSubsetsOf(S))
  BY FS_StrictSubsetOrderingWellFounded
<1> HIDE DEF sets, R
<1>3. PICK m \in sets : \A k \in sets : <<k, m>> \notin R
  BY <1>1, <1>2, WFMin
<1>4. PICK x \in T : B[x] = m
  BY DEF sets
<1>5. ASSUME NEW y \in T, y \in B[x] PROVE FALSE
  <2>1. B[y] \subseteq B[x] /\ B[y] # B[x]
    BY <1>5
  <2>2. B[y] \in sets /\ B[y] \in SUBSET S /\ B[x] \in SUBSET S
    BY DEF sets
  <2>3. <<B[y], B[x]>> \in R
    BY <2>1, <2>2 DEF R, StrictSubsetOrdering
  <2> QED BY <1>3, <1>4, <2>2, <2>3
<1> QED BY <1>5
-----------------------------------------------------------------------------
(* The runs a poll claims. *)

\* The ages and the claims of a reachable state.
DrainInv == age \in [Runs -> Nat] /\ jobs \in SUBSET Runs

\* The lesser of two numbers is one of them.
LEMMA MinOfTwo ==
  ASSUME NEW a \in Int, NEW b \in Int
  PROVE  Min({a, b}) \in {a, b}
<1>1. \E x \in {a, b} : \A y \in {a, b} : x <= y
  OBVIOUS
<1> QED BY <1>1, Zenon DEF Min

\* Ages and claims stay what they are.
LEMMA DrainTypes == DrainSpec => []DrainInv
<1>1. DrainInit => DrainInv
  BY DEF DrainInit, DrainInv
<1>2. ASSUME DrainInv, [DrainNext]_drainVars PROVE DrainInv'
  <2>1. CASE Poll
    <3>1. AgeCap \in Nat
      BY QueueDrainAssumption DEF AgeCap
    <3>2. ASSUME NEW r \in Runs PROVE Min({AgeCap, age[r] + 1}) \in Nat
      <4>1. age[r] + 1 \in Nat
        BY <1>2 DEF DrainInv
      <4>2. Min({AgeCap, age[r] + 1}) \in {AgeCap, age[r] + 1}
        BY <3>1, <4>1, MinOfTwo
      <4> QED BY <3>1, <4>1, <4>2
    <3>3. age' = [r \in Runs |-> Min({AgeCap, age[r] + 1})] /\ jobs' = jobs \cup Selected
      BY <2>1 DEF Poll
    <3>4. Selected \subseteq Runs
      BY DEF Selected
    <3> QED BY <1>2, <3>2, <3>3, <3>4 DEF DrainInv
  <2>2. ASSUME NEW r \in Runs, Process(r) \/ Lose(r) \/ Cancel(r) \/ Finish(r)
        PROVE  DrainInv'
    BY <1>2, <2>2 DEF DrainInv, Process, Lose, Cancel, Finish
  <2>3. CASE UNCHANGED drainVars
    BY <1>2, <2>3 DEF DrainInv, drainVars
  <2> QED BY <1>2, <2>1, <2>2, <2>3 DEF DrainNext
<1> QED BY <1>1, <1>2, PTL DEF DrainSpec

\* The order of runs within a tenant is linear: the statement ends its ORDER BY
\* with the id of the run, so no two runs are equal.
LEMMA BeforeIsLinear ==
  ASSUME DrainInv
  PROVE  /\ \A r \in Runs : ~Before(r, r)
         /\ \A r, s, q \in Runs : Before(r, s) /\ Before(s, q) => Before(r, q)
         /\ \A r, s \in Runs : r # s => Before(r, s) \/ Before(s, r)
<1>1. ASSUME NEW r \in Runs PROVE EffectivePriority(r) \in Int
  <2>1. MaximumAgingBoost \in Int /\ AgingInterval \in Nat \ {0} /\ Priority[r] \in Int
    BY QueueDrainAssumption
  <2>2. age[r] \div AgingInterval \in Int
    BY <2>1 DEF DrainInv
  <2>3. Min({MaximumAgingBoost, age[r] \div AgingInterval}) \in Int
    BY <2>1, <2>2, MinOfTwo
  <2> QED BY <2>1, <2>3 DEF EffectivePriority
<1>2. /\ \A r \in Runs : Older[r] \subseteq Runs
      /\ \A r, s \in Runs :
           /\ r \in Older[s] => Older[r] \subseteq Older[s]
           /\ r \in Older[s] <=> r # s /\ s \notin Older[r]
  BY QueueDrainAssumption
<1>3. \A r \in Runs : ~Before(r, r)
  BY <1>1, <1>2 DEF Before
<1>4. ASSUME NEW r \in Runs, NEW s \in Runs, NEW q \in Runs, Before(r, s), Before(s, q)
      PROVE  Before(r, q)
  <2>1. r \in Older[s] /\ s \in Older[q] => r \in Older[q]
    BY <1>2
  <2> QED BY <1>1, <1>4, <2>1 DEF Before
<1>5. \A r, s \in Runs : r # s => Before(r, s) \/ Before(s, r)
  BY <1>1, <1>2 DEF Before
<1> QED BY <1>3, <1>4, <1>5

\* Ranks are numbers, and a run has rank 0 when no due run of its tenant
\* comes before it.
LEMMA RankIsNat ==
  ASSUME NEW r \in Runs
  PROVE  /\ TenantRank(r) \in Nat
         /\ TenantRank(r) = 0 <=>
              ~\E s \in Runs : Due(s) /\ TenantOf[s] = TenantOf[r] /\ Before(s, r)
<1> DEFINE ahead == {s \in Runs : Due(s) /\ TenantOf[s] = TenantOf[r] /\ Before(s, r)}
<1>1. IsFiniteSet(ahead)
  BY QueueDrainAssumption, FS_Subset
<1>2. Cardinality(ahead) \in Nat /\ (Cardinality(ahead) = 0 <=> ahead = {})
  <2> HIDE DEF ahead
  <2> QED BY <1>1, FS_CardinalityType, FS_EmptySet
<1>3. TenantRank(r) = Cardinality(ahead)
  BY DEF TenantRank
<1>4. ahead = {} <=> ~\E s \in Runs : Due(s) /\ TenantOf[s] = TenantOf[r] /\ Before(s, r)
  OBVIOUS
<1> HIDE DEF ahead
<1> QED BY <1>2, <1>3, <1>4

\* A tenant with a due run has one of rank 0.
LEMMA SomeRunLeads ==
  ASSUME DrainInv, NEW r \in Runs, Due(r)
  PROVE  \E l \in Runs : Due(l) /\ TenantOf[l] = TenantOf[r] /\ TenantRank(l) = 0
<1> DEFINE B == [s \in Runs |-> {q \in Runs : Before(q, s)}]
           T == {s \in Runs : Due(s) /\ TenantOf[s] = TenantOf[r]}
<1>1. IsFiniteSet(Runs) /\ B \in [Runs -> SUBSET Runs] /\ T \in SUBSET Runs /\ T # {}
  BY QueueDrainAssumption
<1>2. \A s \in Runs : s \notin B[s]
  BY BeforeIsLinear
<1>3. \A s, q \in Runs : q \in B[s] => B[q] \subseteq B[s]
  BY BeforeIsLinear
<1>4. PICK l \in T : \A q \in T : q \notin B[l]
  <2> HIDE DEF B, T
  <2> QED BY <1>1, <1>2, <1>3, FirstOf
<1>5. ~\E s \in Runs : Due(s) /\ TenantOf[s] = TenantOf[l] /\ Before(s, l)
  BY <1>4
<1>6. l \in Runs /\ Due(l) /\ TenantOf[l] = TenantOf[r]
  BY <1>4
<1>7. TenantRank(l) = 0
  BY <1>5, <1>6, RankIsNat
<1> QED BY <1>6, <1>7

\* Who leads its tenant is claimed before every run that does not.
LEMMA LeadersComeFirst ==
  ASSUME DrainInv, NEW l \in Runs, Due(l), TenantRank(l) = 0,
         NEW x \in Selected, TenantRank(x) # 0
  PROVE  l \in Selected
<1> DEFINE ahead(r) == {s \in Runs : Due(s) /\ Precedes(s, r)}
<1>1. x \in Runs /\ Cardinality(ahead(x)) < Limit
  BY DEF Selected
<1>2. ahead(l) \subseteq ahead(x)
  <2> SUFFICES ASSUME NEW s \in Runs, Precedes(s, l) PROVE Precedes(s, x)
    OBVIOUS
  <2>1. TenantRank(s) \in Nat /\ TenantRank(x) \in Nat
    BY <1>1, RankIsNat
  <2>2. TenantRank(s) = 0
    BY <2>1 DEF Precedes
  <2> QED BY <2>1, <2>2 DEF Precedes
<1>3. IsFiniteSet(ahead(x))
  BY QueueDrainAssumption, FS_Subset
<1>4. /\ Cardinality(ahead(l)) \in Nat /\ Cardinality(ahead(x)) \in Nat
      /\ Cardinality(ahead(l)) <= Cardinality(ahead(x))
  <2> HIDE DEF ahead
  <2> QED BY <1>2, <1>3, FS_Subset, FS_CardinalityType
<1>5. Limit \in Int
  <2>1. IsFiniteSet(jobs)
    BY QueueDrainAssumption, FS_Subset DEF DrainInv
  <2>2. Cardinality(jobs) \in Nat
    BY <2>1, FS_CardinalityType
  <2>3. BatchSize \in Int /\ WorkQueueSize - Cardinality(jobs) \in Int
    BY <2>2, QueueDrainAssumption
  <2> QED BY <2>3, MinOfTwo DEF Limit
<1>6. Cardinality(ahead(l)) < Limit
  <2> HIDE DEF ahead
  <2> QED BY <1>1, <1>4, <1>5
<1> QED BY <1>6 DEF Selected

\* Of two runs of one tenant, one has the other before it.
LEMMA TwoDoNotLead ==
  ASSUME DrainInv, NEW x \in Runs, NEW y \in Runs, x # y,
         Due(x), Due(y), TenantOf[x] = TenantOf[y]
  PROVE  TenantRank(x) # 0 \/ TenantRank(y) # 0
BY BeforeIsLinear, RankIsNat

\* Interleaving of tenants, for every number of runs, tenants and workers and
\* every batch: the claim statement ranks the runs of each tenant first, so the
\* best run of a tenant is claimed before the second best of another.
THEOREM TenantsAreInterleaved == DrainSpec => TenantsInterleave
<1> DEFINE claimed(t) == {r \in jobs' \ jobs : TenantOf[r] = t}
           Fair == \A t, u \in Tenants : Cardinality(claimed(t)) > 1 /\ claimed(u) = {} =>
                     ~\E r \in Runs : TenantOf[r] = u /\ Due(r)
<1>1. ASSUME DrainInv, [DrainNext]_drainVars PROVE [Fair]_drainVars
  <2>1. CASE Poll
    <3> SUFFICES ASSUME NEW t \in Tenants, NEW u \in Tenants,
                        Cardinality(claimed(t)) > 1, claimed(u) = {},
                        NEW r \in Runs, TenantOf[r] = u, Due(r)
                 PROVE  FALSE
      OBVIOUS
    <3>1. jobs' \ jobs = Selected
      BY <2>1 DEF Poll, Selected, Due
    <3>2. \A x \in Selected : x \in Runs /\ Due(x)
      BY DEF Selected
    <3>3. PICK x, y \in claimed(t) : x # y
      <4> SUFFICES ASSUME \A x, y \in claimed(t) : x = y PROVE FALSE
        OBVIOUS
      <4>1. CASE claimed(t) = {}
        <5>1. Cardinality(claimed(t)) = 0
          BY <4>1, FS_EmptySet
        <5> HIDE DEF claimed
        <5> QED BY <5>1
      <4>2. ASSUME NEW x \in claimed(t) PROVE FALSE
        <5>1. claimed(t) = {x}
          BY <4>2
        <5> HIDE DEF claimed
        <5>2. Cardinality(claimed(t)) = 1
          BY <5>1, FS_Singleton
        <5> QED BY <5>2
      <4> QED BY <4>1, <4>2
    <3>4. /\ x \in Selected /\ TenantOf[x] = t
          /\ y \in Selected /\ TenantOf[y] = t
      BY <3>1, <3>3
    <3>5. PICK l \in Runs : Due(l) /\ TenantOf[l] = u /\ TenantRank(l) = 0
      BY <1>1, SomeRunLeads
    <3>6. TenantRank(x) # 0 \/ TenantRank(y) # 0
      BY <1>1, <3>2, <3>3, <3>4, TwoDoNotLead
    <3>7. l \in Selected
      BY <1>1, <3>4, <3>5, <3>6, LeadersComeFirst
    <3> QED BY <3>1, <3>5, <3>7
  <2>2. ASSUME NEW r \in Runs, Process(r) \/ Lose(r) \/ Cancel(r) \/ Finish(r)
        PROVE  Fair
    <3>1. \A t : claimed(t) = {}
      BY <2>2 DEF Process, Lose, Cancel, Finish
    <3>2. \A t : Cardinality(claimed(t)) = 0
      BY <3>1, FS_EmptySet
    <3> HIDE DEF claimed
    <3> QED BY <3>2
  <2> QED BY <1>1, <2>1, <2>2 DEF DrainNext
<1>2. DrainSpec => []DrainInv
  BY DrainTypes
<1>3. DrainSpec => [][DrainNext]_drainVars
  BY DEF DrainSpec
<1>4. TenantsInterleave <=> [][Fair]_drainVars
  BY DEF TenantsInterleave
<1> HIDE DEF Fair
<1> QED BY <1>1, <1>2, <1>3, <1>4, PTL
-----------------------------------------------------------------------------
(* The cluster a run is placed on. *)

\* Quotient and remainder.
LEMMA Division ==
  ASSUME NEW a \in Nat, NEW d \in Nat \ {0}
  PROVE  /\ a \div d \in Nat /\ a % d \in 0..(d - 1)
         /\ a = (a \div d) * d + (a % d)
OBVIOUS

\* Distribution, where the provers do not see it.
LEMMA Distribute ==
  ASSUME NEW x \in Nat, NEW t \in Nat, NEW d \in Nat, NEW v \in Nat, v = x + (t + 1)
  PROVE  v * d = x * d + t * d + d /\ (v - 1) * d = x * d + t * d
<1>1. v * d = (x + (t + 1)) * d /\ (v - 1) * d = (x + t) * d
  <2>1. v - 1 = x + t
    OBVIOUS
  <2> QED BY <2>1, Zenon
<1>2. (x + (t + 1)) * d = x * d + t * d + d /\ (x + t) * d = x * d + t * d
  OBVIOUS
<1> QED BY <1>1, <1>2, Zenon

\* ceilingRatio rounds up: it is the least number of units, of which scale
\* make a whole, that covers the share of the numerator in the denominator.
THEOREM CeilingRatioRoundsUp ==
  ASSUME NEW num \in Nat, NEW den \in Nat \ {0}, NEW scale \in Nat \ {0}
  PROVE  /\ ceilingRatio(num, den, scale) \in Nat
         /\ ceilingRatio(num, den, scale) * den >= num * scale
         /\ (ceilingRatio(num, den, scale) - 1) * den < num * scale
<1> DEFINE q == num \div den
           r == num % den
<1>1. q \in Nat /\ r \in Nat /\ r < den /\ num = q * den + r
  BY Division
<1>2. num * scale = q * scale * den + r * scale
  <2> HIDE DEF q, r
  <2> QED BY <1>1
<1>3. CASE r = 0
  <2>1. ceilingRatio(num, den, scale) = q * scale
    BY <1>1, <1>3 DEF ceilingRatio
  <2> HIDE DEF q, r
  <2>2. q * scale \in Nat /\ r * scale = 0 /\ (q * scale - 1) * den = q * scale * den - den
    BY <1>1, <1>3
  <2> QED BY <1>1, <1>2, <2>1, <2>2
<1>4. CASE r # 0
  <2> DEFINE t == (r * scale - 1) \div den
             m == (r * scale - 1) % den
  <2>1. ceilingRatio(num, den, scale) = q * scale + (t + 1)
    BY <1>4 DEF ceilingRatio
  <2>2. r * scale - 1 \in Nat
    <3> HIDE DEF q, r
    <3>1. r >= 1 /\ scale >= 1 /\ r * scale \in Nat
      BY <1>1, <1>4
    <3>2. r * scale >= 1
      BY <1>1, <3>1
    <3> QED BY <3>1, <3>2
  <2>3. t \in Nat /\ m \in 0..(den - 1) /\ r * scale - 1 = t * den + m
    <3> HIDE DEF q, r
    <3> QED BY <2>2, Division
  <2> HIDE DEF q, r, t, m
  <2>4. q * scale \in Nat /\ t * den \in Nat
    BY <1>1, <2>3
  <2> DEFINE whole == q * scale * den
             part == r * scale
             least == t * den
             all == num * scale
             v == ceilingRatio(num, den, scale)
  <2>7. whole \in Nat /\ part \in Int /\ all \in Int /\ least \in Nat
    BY <1>1, <2>4
  <2>8. all = whole + part /\ part - 1 = least + m
    BY <1>2, <2>3
  <2>9. v \in Nat /\ v * den = whole + least + den /\ (v - 1) * den = whole + least
    <3>1. q * scale + (t + 1) \in Nat /\ den \in Nat
      BY <2>3, <2>4
    <3>2. v = q * scale + (t + 1)
      BY <2>1
    <3> DEFINE x == q * scale
    <3> HIDE DEF x, v
    <3>3. v \in Nat /\ x \in Nat /\ v = x + (t + 1)
      BY <2>4, <3>1, <3>2 DEF x
    <3>4. v * den = x * den + t * den + den /\ (v - 1) * den = x * den + t * den
      BY <2>3, <3>1, <3>3, Distribute
    <3> QED BY <3>3, <3>4 DEF x
  <2>10. v * den >= all /\ (v - 1) * den < all
    <3> HIDE DEF whole, part, least, all, v
    <3> QED BY <2>3, <2>7, <2>8, <2>9
  <2> QED BY <2>9, <2>10
<1> QED BY <1>3, <1>4

-----------------------------------------------------------------------------
\* Two candidates are compared on bounded numbers: a candidate that is not
\* skipped is projected at more than nothing and at no more than all of its
\* capacity, so that the score stays far from the limits of an int64.
THEOREM UtilizationInRange ==
  ASSUME NEW regions, NEW c \in ClusterCandidate(regions), NEW request \in SelectionRequest,
         Sufficient(c, request)
  PROVE  /\ Projected(c, request) \in 1..BasisPoints
         /\ Score(c, request) \in 0..(BasisPoints * ScoreScale + c.queued * 100 + c.cost)
<1>0. BasisPoints \in Nat \ {0} /\ ScoreScale \in Nat \ {0}
  BY DEF BasisPoints, ScoreScale
<1>1. ASSUME NEW num \in Nat \ {0}, NEW den \in Nat, den >= num
      PROVE  ceilingRatio(num, den, BasisPoints) \in 1..BasisPoints
  <2> DEFINE v == ceilingRatio(num, den, BasisPoints)
  <2>1. v \in Nat /\ v * den >= num * BasisPoints /\ (v - 1) * den < num * BasisPoints
    <3>1. den \in Nat \ {0} /\ num \in Nat
      BY <1>1
    <3> QED BY <1>0, <3>1, CeilingRatioRoundsUp
  <2> HIDE DEF v
  <2>2. ASSUME v = 0 PROVE FALSE
    BY <1>0, <1>1, <2>1, <2>2
  <2>3. ASSUME v > BasisPoints PROVE FALSE
    <3>1. PICK k \in Nat : v - 1 = BasisPoints + k
      <4>1. v - (BasisPoints + 1) \in Nat /\ v - 1 = BasisPoints + (v - (BasisPoints + 1))
        BY <1>0, <2>1, <2>3
      <4> QED BY <4>1
    <3>2. (v - 1) * den = BasisPoints * den + k * den /\ k * den \in Nat
      BY <1>0, <1>1, <3>1
    <3> QED BY <1>0, <1>1, <2>1, <3>2
  <2> QED BY <1>0, <2>1, <2>2, <2>3 DEF v
<1>2. /\ request.cpu \in Nat \ {0} /\ request.memory \in Nat \ {0}
      /\ c.cpu \in Nat /\ c.memory \in Nat /\ c.cpu >= request.cpu /\ c.memory >= request.memory
      /\ c.weight \in 1..1000 /\ c.queued \in Nat /\ c.cost \in Nat
  BY DEF ClusterCandidate, SelectionRequest, Sufficient
<1> DEFINE p == Projected(c, request)
<1>3. p \in 1..BasisPoints
  <2>1. ceilingRatio(request.cpu, c.cpu, BasisPoints) \in 1..BasisPoints
    BY <1>0, <1>1, <1>2
  <2>2. ceilingRatio(request.memory, c.memory, BasisPoints) \in 1..BasisPoints
    BY <1>0, <1>1, <1>2
  <2> QED BY <1>0, <2>1, <2>2 DEF Projected, Larger
<1> HIDE DEF p
<1>4. (p * ScoreScale) \div c.weight \in 0..(BasisPoints * ScoreScale)
  <2> DEFINE w == c.weight
             a == p * ScoreScale
             q == a \div w
  <2>1. a \in Nat /\ a <= BasisPoints * ScoreScale /\ w \in Nat \ {0}
    BY <1>0, <1>2, <1>3
  <2>2. q \in Nat /\ a % w \in Nat /\ a = q * w + (a % w)
    <3> HIDE DEF a, w
    <3>1. a \div w \in Nat /\ a % w \in 0..(w - 1) /\ a = (a \div w) * w + (a % w)
      BY <2>1, Division
    <3> QED BY <3>1
  <2>3. q * w >= q
    <3> HIDE DEF a, w, q
    <3> QED BY <2>1, <2>2
  <2>4. q <= a
    <3>1. q * w \in Nat
      <4> HIDE DEF a, w, q
      <4> QED BY <2>1, <2>2
    <3> DEFINE b == q * w
               r == a % w
    <3>2. b \in Nat /\ r \in Nat /\ a = b + r /\ b >= q
      BY <2>2, <2>3, <3>1
    <3> HIDE DEF a, w, q, b, r
    <3> QED BY <2>1, <2>2, <3>2
  <2>5. q \in 0..(BasisPoints * ScoreScale)
    <3> DEFINE all == BasisPoints * ScoreScale
    <3>1. all \in Nat /\ a <= all
      BY <1>0, <2>1
    <3> HIDE DEF a, q, all
    <3>2. q \in 0..all
      BY <2>1, <2>2, <2>4, <3>1
    <3> QED BY <3>2 DEF all
  <2> QED BY <2>5
<1> DEFINE s == (p * ScoreScale) \div c.weight
<1>5. Score(c, request) = s + c.queued * 100 + c.cost
  BY DEF Score, p
<1>6. s \in 0..(BasisPoints * ScoreScale)
  BY <1>4
<1> HIDE DEF s
<1> QED BY <1>0, <1>2, <1>3, <1>5, <1>6 DEF p

-----------------------------------------------------------------------------
Integral == [score: Int, projected: Int, queued: Int, cost: Int, id: Int]

\* The comparison is a strict order, and only one id never compares less.
LEMMA LessIsLinear ==
  /\ \A a \in Integral : ~Less(a, a)
  /\ \A a, b, c \in Integral : Less(a, b) /\ Less(b, c) => Less(a, c)
  /\ \A a, b \in Integral : Less(a, b) \/ Less(b, a) \/ a.id = b.id
<1> USE DEF Integral, Less
<1>1. \A a \in Integral : ~Less(a, a)
  OBVIOUS
<1>2. \A a, b, c \in Integral : Less(a, b) /\ Less(b, c) => Less(a, c)
  OBVIOUS
<1>3. \A a, b \in Integral : Less(a, b) \/ Less(b, a) \/ a.id = b.id
  OBVIOUS
<1> QED BY <1>1, <1>2, <1>3

\* The figures that candidates are compared by are integers.
LEMMA ScoredIsIntegral ==
  ASSUME NEW regions, NEW c \in ClusterCandidate(regions), NEW request \in SelectionRequest,
         Sufficient(c, request)
  PROVE  Scored(c, request) \in Integral /\ Scored(c, request).id = c.id
<1>1. Projected(c, request) \in Int /\ Score(c, request) \in Int
  <2>1. BasisPoints \in Nat /\ ScoreScale \in Nat
    BY DEF BasisPoints, ScoreScale
  <2>2. c.queued \in Nat /\ c.cost \in Nat
    BY DEF ClusterCandidate
  <2> QED BY <2>1, <2>2, UtilizationInRange
<1>2. c.queued \in Int /\ c.cost \in Int /\ c.id \in Int
  BY DEF ClusterCandidate
<1> QED BY <1>1, <1>2 DEF Scored, Integral

\* rankCandidates has exactly one answer whenever some candidate is
\* sufficient, and reports missing capacity only when none is: however the
\* candidates are listed, and although sort.Slice is not stable.
THEOREM RankingIsDetermined ==
  ASSUME NEW regions, NEW candidates \in SUBSET ClusterCandidate(regions),
         IsFiniteSet(candidates), \A c, d \in candidates : c.id = d.id => c = d,
         NEW request \in SelectionRequest
  PROVE  /\ First(candidates, request) = {} <=> Rankable(candidates, request) = {}
         /\ \A c, d \in First(candidates, request) : c = d
<1> DEFINE S == Rankable(candidates, request)
           s(c) == Scored(c, request)
           B == [c \in S |-> {d \in S : Less(s(d), s(c))}]
<1>1. /\ S \subseteq candidates /\ IsFiniteSet(S)
      /\ \A c \in S : c \in ClusterCandidate(regions) /\ Sufficient(c, request)
  BY FS_Subset DEF Rankable
<1>2. \A c \in S : s(c) \in Integral /\ s(c).id = c.id
  BY <1>1, ScoredIsIntegral
<1>3. First(candidates, request) = {c \in S : \A d \in S : ~Less(s(d), s(c))}
  BY DEF First
<1> HIDE DEF S, s
<1>4. ASSUME S # {} PROVE \E c \in S : \A d \in S : ~Less(s(d), s(c))
  <2>1. B \in [S -> SUBSET S] /\ \A c \in S : c \notin B[c]
    BY <1>2, LessIsLinear
  <2>2. ASSUME NEW c \in S, NEW d \in S, d \in B[c] PROVE B[d] \subseteq B[c]
    BY <1>2, <2>2, LessIsLinear
  <2> HIDE DEF B
  <2>3. S \in SUBSET S
    OBVIOUS
  <2>4. PICK c \in S : \A d \in S : d \notin B[c]
    BY <1>1, <1>4, <2>1, <2>2, <2>3, FirstOf
  <2> QED BY <2>4 DEF B
<1>5. ASSUME NEW c \in S, NEW d \in S, ~Less(s(c), s(d)), ~Less(s(d), s(c)) PROVE c = d
  <2>1. c.id = d.id
    BY <1>2, <1>5, LessIsLinear
  <2> QED BY <1>1, <2>1
<1>6. First(candidates, request) = {} <=> S = {}
  BY <1>3, <1>4
<1>7. \A c, d \in First(candidates, request) : c = d
  BY <1>3, <1>5
<1> QED BY <1>6, <1>7 DEF S

\* The region-affine strategy has one answer too.  It keeps to the preferred
\* region whenever a candidate there is sufficient, and a preference never
\* costs a run its placement.
THEOREM AffinityIsDetermined ==
  ASSUME NEW regions, NEW candidates \in SUBSET ClusterCandidate(regions),
         IsFiniteSet(candidates), \A c, d \in candidates : c.id = d.id => c = d,
         NEW request \in SelectionRequest, NEW none, NEW preferred
  PROVE  LET chosen == RegionAffinity(candidates, request, preferred, none)
             local == Rankable(Regional(candidates, preferred), request)
         IN  /\ chosen = {} <=> Rankable(candidates, request) = {}
             /\ \A c, d \in chosen : c = d
             /\ preferred # none /\ local # {} => chosen # {} /\ chosen \subseteq local
<1> DEFINE near == Regional(candidates, preferred)
<1>1. /\ near \in SUBSET ClusterCandidate(regions) /\ IsFiniteSet(near)
      /\ \A c, d \in near : c.id = d.id => c = d
  BY FS_Subset DEF Regional
<1>2. Rankable(near, request) \subseteq Rankable(candidates, request)
  BY DEF Rankable, Regional
<1> HIDE DEF near
<1>3. /\ First(near, request) = {} <=> Rankable(near, request) = {}
      /\ \A c, d \in First(near, request) : c = d
  BY <1>1, RankingIsDetermined
<1>4. /\ First(candidates, request) = {} <=> Rankable(candidates, request) = {}
      /\ \A c, d \in First(candidates, request) : c = d
  BY RankingIsDetermined
<1>5. First(near, request) \subseteq Rankable(near, request)
  BY DEF First
<1> QED BY <1>2, <1>3, <1>4, <1>5 DEF RegionAffinity, near
-----------------------------------------------------------------------------
(* What clients may rely on. *)

Failed == [status |-> "FAILED", attempts |-> 2]
Rows == [id: Nat, key: Keys \union {x.key : x \in History},
         hash: Bodies \union {x.hash : x \in History}, at: Nat,
         now: {Accepted, Failed} \union {x.now : x \in History}, response: {Accepted}]
Creates == [op: {"create"}, stage: {"insert", "lookup", "created"}, key: Keys, body: Bodies,
            id: Ids, at: Times]
Lists == [op: {"list"}, stage: {"page", "end"}, limit: 1..MaximumLimit,
          cursor: [at: Nat, id: Nat] \union {None}, seen: SUBSET Nat, count: Nat,
          before: SUBSET Nat]
Deletes == [op: {"delete"}, stage: {"payload", "tombstone"}, artifact: Artifacts \ Archived]

ReqTypes == req \in [Clients -> {Idle} \union Creates \union Lists \union Deletes]

\* Rows have ids and keys of their own, and keys are stored trimmed.
RowsAreDistinct ==
    /\ runs \subseteq Rows /\ IsFiniteSet(runs)
    /\ \A x, y \in runs : x.key = y.key \/ x.id = y.id => x = y
    /\ \A x \in runs : x.key \in Keys => TrimSpace[x.key] = x.key

\* What never changes about a row.
Kept == {[id |-> x.id, key |-> x.key, hash |-> x.hash, at |-> x.at] : x \in runs}

\* The id of a run that is about to be inserted is new, and a run that was
\* inserted is there.
CreatesAreSound ==
    \A c \in Clients : req[c].op = "create" =>
        /\ req[c].stage = "insert" =>
             /\ \A f \in Kept : f.id # req[c].id
             /\ \A d \in Clients \ {c} : req[d].op = "create" => req[d].id # req[c].id
        /\ req[c].stage = "created" =>
             \E f \in Kept : /\ f.id = req[c].id /\ f.key = TrimSpace[req[c].key]
                             /\ f.hash = req[c].body

\* What a reading of the history has come to: it has counted what it has seen,
\* everything it has to find was seen or is still ahead, and nothing seen is.
Covered(r, kept) ==
    /\ IsFiniteSet(r.seen) /\ Cardinality(r.seen) = r.count
    /\ r.seen \subseteq {f.id : f \in kept}
    /\ r.stage = "end" => r.before \subseteq r.seen
    /\ r.stage = "page" =>
         /\ \A i \in r.before : i \in r.seen \/ \E f \in kept : f.id = i /\ Below(f, r.cursor)
         /\ \A f \in kept : f.id \in r.seen => ~Below(f, r.cursor)

ListsAreSound == \A c \in Clients : req[c].op = "list" => Covered(req[c], Kept)

\* The tombstone is written after the payload is gone.
DeletesAreSound ==
    \A c \in Clients : req[c].op = "delete" /\ req[c].stage = "tombstone" =>
        req[c].artifact \notin payload

AnswerTypes ==
    answers \subseteq [op: {"create"}, key: Keys, body: Bodies, id: Nat, state: {Accepted}]
                      \union [op: {"delete"}, artifact: Artifacts \ Archived]

AnswersAreKept ==
    \A a \in answers : a.op = "create" =>
        \E f \in Kept : f.id = a.id /\ f.key = a.key /\ f.hash = a.body

ApiInv ==
    /\ ReqTypes /\ RowsAreDistinct
    /\ CreatesAreSound /\ ListsAreSound /\ DeletesAreSound
    /\ AnswerTypes /\ AnswersAreKept
    /\ TombstonesAreTrue

-----------------------------------------------------------------------------
(* Creation. *)

\* Nobody but Insert and Save touches the rows, and Save changes only how far a
\* run has come.
LEMMA SaveKeepsRows ==
  ASSUME RowsAreDistinct, NEW x \in runs, Save(x)
  PROVE  RowsAreDistinct' /\ Kept' = Kept
<1> DEFINE y == [x EXCEPT !.now = Failed]
<1>1. runs' = (runs \ {x}) \union {y}
  BY DEF Save, Failed
<1>2. x \in Rows
  BY DEF RowsAreDistinct
<1>3. /\ y \in Rows /\ y.id = x.id /\ y.key = x.key /\ y.hash = x.hash /\ y.at = x.at
  BY <1>2 DEF Rows
<1> HIDE DEF y
<1>4. IsFiniteSet(runs')
  <2>1. IsFiniteSet(runs \ {x})
    BY FS_RemoveElement DEF RowsAreDistinct
  <2> QED BY <1>1, <2>1, FS_AddElement
<1>5. RowsAreDistinct'
  BY <1>1, <1>3, <1>4 DEF RowsAreDistinct
<1>6. Kept' = Kept
  BY <1>1, <1>3 DEF Kept
<1> QED BY <1>5, <1>6

\* A row is inserted under a key that no row has.
LEMMA InsertKeepsRows ==
  ASSUME RowsAreDistinct, NEW r \in Creates, ~Conflicts(r), runs' = runs \union {Row(r)},
         \A f \in Kept : f.id # r.id
  PROVE  /\ RowsAreDistinct'
         /\ Kept' = Kept \union {[id |-> r.id, key |-> TrimSpace[r.key], hash |-> r.body, at |-> r.at]}
<1> DEFINE y == Row(r)
<1>1. /\ r.key \in Keys /\ r.body \in Bodies /\ r.id \in Nat /\ r.at \in Nat
      /\ TrimSpace[r.key] \in Keys /\ TrimSpace[TrimSpace[r.key]] = TrimSpace[r.key]
  BY ClientApiConstants DEF Creates
<1>2. /\ y \in Rows /\ y.id = r.id /\ y.key = TrimSpace[r.key] /\ y.hash = r.body /\ y.at = r.at
  BY <1>1 DEF Row, Rows
<1>4. runs' = runs \union {y}
  OBVIOUS
<1> HIDE DEF y
<1>3. ASSUME NEW x \in runs PROVE x.key # y.key /\ x.id # y.id
  <2>1. x.key # TrimSpace[r.key]
    BY DEF Conflicts
  <2>2. x.id # r.id
    <3>1. [id |-> x.id, key |-> x.key, hash |-> x.hash, at |-> x.at] \in Kept
      BY DEF Kept
    <3> QED BY <3>1
  <2> QED BY <1>2, <2>1, <2>2
<1>5. IsFiniteSet(runs')
  BY <1>4, FS_AddElement DEF RowsAreDistinct
<1>6. RowsAreDistinct'
  BY <1>1, <1>2, <1>3, <1>4, <1>5 DEF RowsAreDistinct
<1>7. Kept' = Kept \union {[id |-> y.id, key |-> y.key, hash |-> y.hash, at |-> y.at]}
  BY <1>4 DEF Kept
<1> QED BY <1>2, <1>6, <1>7

-----------------------------------------------------------------------------
(* Pages. *)

\* x comes further down than y.
Lower(x, y) == After(Position(x), Position(y))

\* Rows with ids of their own are in a linear order.
LEMMA LowerIsLinear ==
  /\ \A x \in Rows : ~Lower(x, x)
  /\ \A x, y, z \in Rows : Lower(x, y) /\ Lower(y, z) => Lower(x, z)
  /\ \A x, y \in Rows : x.id # y.id => Lower(x, y) \/ Lower(y, x)
<1>1. \A x \in Rows : x.id \in Nat /\ x.at \in Nat
  BY DEF Rows
<1> QED BY <1>1 DEF Lower, After, Position

\* The ids of distinct rows are as many as the rows.
LEMMA IdsCount ==
  ASSUME NEW S \in SUBSET Rows, IsFiniteSet(S), \A x, y \in S : x.id = y.id => x = y
  PROVE  /\ IsFiniteSet({x.id : x \in S})
         /\ Cardinality({x.id : x \in S}) = Cardinality(S)
<1> DEFINE T == {x.id : x \in S}
           f == [x \in S |-> x.id]
<1>1. f \in Bijection(S, T)
  BY DEF Bijection, Injection, Surjection, IsInjective
<1>2. ExistsBijection(S, T)
  BY <1>1 DEF ExistsBijection
<1> HIDE DEF f, T
<1>3. IsFiniteSet(T) /\ Cardinality(T) = Cardinality(S)
  BY <1>2, FS_Bijection
<1> QED BY <1>3 DEF T

Rest(cursor) == {x \in runs : Below(x, cursor)}

\* A page holds the rows that come first, has a last one, and is all there is
\* when it is not full.
LEMMA PageIsTop ==
  ASSUME RowsAreDistinct, NEW cursor, NEW n \in Nat
  PROVE  /\ Page(cursor, n) \subseteq Rest(cursor)
         /\ IsFiniteSet(Page(cursor, n))
         /\ \A x \in Page(cursor, n) : \A y \in Rest(cursor) \ Page(cursor, n) : Lower(y, x)
         /\ Page(cursor, n) # {} =>
              \E x \in Page(cursor, n) : \A y \in Page(cursor, n) : ~Lower(y, x)
         /\ Cardinality(Page(cursor, n)) # n => Page(cursor, n) = Rest(cursor)
<1> DEFINE rest == Rest(cursor)
           page == Page(cursor, n)
           above == [x \in rest |-> {y \in rest : Lower(x, y)}]
           under == [x \in rest |-> {y \in rest : Lower(y, x)}]
<1>1. page = {x \in rest : Cardinality(above[x]) < n}
  BY DEF Page, Rest, Lower
<1>2. rest \subseteq Rows /\ IsFiniteSet(rest) /\ \A x, y \in rest : x # y => x.id # y.id
  BY FS_Subset DEF RowsAreDistinct, Rest
<1>3. \A x, y \in rest : /\ ~Lower(x, x)
                         /\ x # y => Lower(x, y) \/ Lower(y, x)
  BY <1>2, LowerIsLinear
<1>4. \A x, y, z \in rest : Lower(x, y) /\ Lower(y, z) => Lower(x, z)
  BY <1>2, LowerIsLinear
<1>5. /\ above \in [rest -> SUBSET rest] /\ under \in [rest -> SUBSET rest]
      /\ \A x, y \in rest : (y \in above[x] <=> Lower(x, y)) /\ (y \in under[x] <=> Lower(y, x))
  OBVIOUS
<1> HIDE DEF rest, page, above, under
<1>6. page \subseteq rest /\ IsFiniteSet(page) /\ Cardinality(page) \in Nat
  BY <1>1, <1>2, FS_Subset, FS_CardinalityType
<1>7. /\ \A x \in rest : x \notin above[x] /\ x \notin under[x]
      /\ \A x, y \in rest : y \in above[x] => above[y] \subseteq above[x]
      /\ \A x, y \in rest : y \in under[x] => under[y] \subseteq under[x]
  BY <1>3, <1>4, <1>5
<1>8. \A x \in rest : IsFiniteSet(above[x]) /\ Cardinality(above[x]) \in Nat
  BY <1>2, <1>5, FS_Subset, FS_CardinalityType
<1>9. ASSUME NEW x \in page, NEW y \in rest \ page PROVE Lower(y, x)
  <2>1. ASSUME ~Lower(y, x) PROVE FALSE
    <3>1. Lower(x, y) /\ x \in rest
      BY <1>3, <1>6, <2>1
    <3>2. above[y] \in SUBSET above[x]
      BY <1>5, <1>7, <3>1
    <3>3. Cardinality(above[y]) <= Cardinality(above[x])
      BY <1>8, <3>1, <3>2, FS_Subset
    <3> QED BY <1>1, <1>8, <3>1, <3>3
  <2> QED BY <2>1
<1>10. ASSUME page # {} PROVE \E x \in page : \A y \in page : ~Lower(y, x)
  <2>1. \E x \in page : \A y \in page : y \notin under[x]
    BY <1>2, <1>5, <1>6, <1>7, <1>10, FirstOf
  <2> QED BY <1>5, <1>6, <2>1
<1>11. Cardinality(page) <= n
  <2>1. CASE page = {}
    BY <2>1, FS_EmptySet
  <2>2. CASE page # {}
    <3>1. PICK x \in page : \A y \in page : ~Lower(y, x)
      BY <1>10, <2>2
    <3>2. page \ {x} \in SUBSET above[x] /\ x \in rest
      BY <1>3, <1>5, <1>6, <3>1
    <3>3. Cardinality(page \ {x}) <= Cardinality(above[x])
      BY <1>8, <3>2, FS_Subset
    <3>4. Cardinality(page \ {x}) = Cardinality(page) - 1
      BY <1>6, FS_RemoveElement
    <3>5. Cardinality(above[x]) < n /\ Cardinality(above[x]) \in Nat
      BY <1>1, <1>8, <3>2
    <3> QED BY <1>6, <3>3, <3>4, <3>5
  <2> QED BY <2>1, <2>2
<1>12. ASSUME Cardinality(page) # n, page # rest PROVE FALSE
  <2> DEFINE left == rest \ page
  <2>1. left # {} /\ left \in SUBSET rest
    BY <1>6, <1>12
  <2> HIDE DEF left
  <2>2. PICK x \in left : \A y \in left : y \notin above[x]
    BY <1>2, <1>5, <1>7, <2>1, FirstOf
  <2>3. above[x] \in SUBSET page /\ x \in rest /\ x \notin page
    BY <1>5, <2>1, <2>2 DEF left
  <2>4. Cardinality(above[x]) <= Cardinality(page)
    BY <1>6, <2>3, FS_Subset
  <2>5. ~(Cardinality(above[x]) < n)
    BY <1>1, <2>3
  <2> QED BY <1>6, <1>8, <1>11, <1>12, <2>3, <2>4, <2>5
<1> QED BY <1>6, <1>9, <1>10, <1>12 DEF rest, page

\* Rows with new ids do not disturb a reading.
LEMMA CoveredStays ==
  ASSUME NEW r, NEW K, NEW L, Covered(r, K), K \subseteq L,
         \A f \in L \ K : \A g \in K : g.id # f.id
  PROVE  Covered(r, L)
<1>1. \A f \in L : f.id \in r.seen => f \in K
  BY DEF Covered
<1> QED BY <1>1 DEF Covered

\* Every row is known by what is kept of it.
LEMMA RowKept ==
  ASSUME NEW x \in runs
  PROVE  \E f \in Kept : f.id = x.id
<1>1. [id |-> x.id, key |-> x.key, hash |-> x.hash, at |-> x.at] \in Kept
  BY DEF Kept
<1> QED BY <1>1

\* The furthest row of a page, and the reading after it.
Last(page) == CHOOSE x \in page : \A y \in page : ~After(Position(y), Position(x))
Read(r, page) ==
    [r EXCEPT !.stage = IF Cardinality(page) = r.limit THEN "page" ELSE "end",
              !.cursor = IF Cardinality(page) = r.limit THEN Position(Last(page)) ELSE @,
              !.seen = @ \union {x.id : x \in page},
              !.count = @ + Cardinality(page)]

\* One page more.
LEMMA PageCovers ==
  ASSUME RowsAreDistinct, NEW r \in Lists, r.stage = "page", Covered(r, Kept)
  PROVE  /\ Read(r, Page(r.cursor, r.limit)) \in Lists
         /\ Covered(Read(r, Page(r.cursor, r.limit)), Kept)
<1> DEFINE page == Page(r.cursor, r.limit)
           full == Cardinality(page) = r.limit
           last == Last(page)
           s == Read(r, page)
<1>0. /\ page = Page(r.cursor, r.limit) /\ s = Read(r, page)
      /\ full <=> Cardinality(page) = r.limit
      /\ last = Last(page)
  OBVIOUS
<1> HIDE DEF page, full, last, s
<1> DEFINE rest == Rest(r.cursor)
           ids == {x.id : x \in page}
<1>1. /\ r.limit \in Nat /\ r.limit # 0 /\ r.count \in Nat /\ r.seen \subseteq Nat
      /\ r.before \subseteq Nat /\ r.cursor \in [at: Nat, id: Nat] \union {None}
  BY ClientApiConstants DEF Lists
<1>2. /\ page \subseteq rest /\ IsFiniteSet(page)
      /\ \A x \in page : \A y \in rest \ page : Lower(y, x)
      /\ page # {} => \E x \in page : \A y \in page : ~Lower(y, x)
      /\ Cardinality(page) # r.limit => page = rest
  BY <1>0, <1>1, PageIsTop
<1>3. rest \subseteq Rows /\ rest \subseteq runs /\ \A x, y \in runs : x.id = y.id => x = y
  BY DEF RowsAreDistinct, Rest
<1>4. IsFiniteSet(ids) /\ Cardinality(ids) = Cardinality(page) /\ Cardinality(page) \in Nat
  BY <1>2, <1>3, IdsCount, FS_CardinalityType
<1>5. ids \subseteq Nat /\ ids \subseteq {f.id : f \in Kept}
  <2>1. \A x \in page : x.id \in Nat
    BY <1>2, <1>3 DEF Rows
  <2>2. \A x \in page : \E f \in Kept : f.id = x.id
    BY <1>2, <1>3, RowKept
  <2> QED BY <2>1, <2>2
<1>6. full => /\ last \in page /\ \A y \in page : ~Lower(y, last)
              /\ last \in Rows /\ Position(last) \in [at: Nat, id: Nat]
  <2>1. full => page # {}
    BY <1>0, <1>1, FS_EmptySet
  <2>2. full => last \in page /\ \A y \in page : ~Lower(y, last)
    BY <1>0, <1>2, <2>1 DEF Lower, Last
  <2> QED BY <1>2, <1>3, <2>2 DEF Rows, Position
<1>7. \A x \in runs : \A f \in Kept : f.id = x.id => Position(f) = Position(x)
  BY <1>3 DEF Kept, Position
<1>8. r.seen \intersect ids = {}
  <2>1. ASSUME NEW x \in page, x.id \in r.seen PROVE FALSE
    <3>1. PICK f \in Kept : f.id = x.id
      BY <1>5
    <3>2. Below(f, r.cursor)
      BY <1>2, <1>3, <1>7, <3>1 DEF Rest, Below
    <3> QED BY <2>1, <3>1, <3>2 DEF Covered
  <2> QED BY <2>1
<1>9. /\ IsFiniteSet(r.seen \union ids)
      /\ Cardinality(r.seen \union ids) = r.count + Cardinality(page)
  <2>1. IsFiniteSet(r.seen) /\ Cardinality(r.seen) = r.count
    BY DEF Covered
  <2> HIDE DEF ids
  <2>2. /\ IsFiniteSet(r.seen \union ids)
        /\ Cardinality(r.seen \union ids)
             = Cardinality(r.seen) + Cardinality(ids) - Cardinality(r.seen \intersect ids)
    BY <1>4, <2>1, FS_Union
  <2>3. Cardinality(r.seen \intersect ids) = 0
    BY <1>8, FS_EmptySet
  <2> QED BY <1>1, <1>4, <2>1, <2>2, <2>3
<1>10. /\ s.stage = (IF full THEN "page" ELSE "end")
       /\ s.cursor = (IF full THEN Position(last) ELSE r.cursor)
       /\ s.seen = r.seen \union ids /\ s.count = r.count + Cardinality(page)
       /\ s.before = r.before
  BY <1>0 DEF Lists, Read
<1>11. s \in Lists
  <2>1. /\ (IF full THEN "page" ELSE "end") \in {"page", "end"}
        /\ (IF full THEN Position(last) ELSE r.cursor) \in [at: Nat, id: Nat] \union {None}
        /\ r.seen \union ids \in SUBSET Nat
        /\ r.count + Cardinality(page) \in Nat
    BY <1>1, <1>4, <1>5, <1>6
  <2> HIDE DEF ids
  <2>2. s = [r EXCEPT !.stage = IF full THEN "page" ELSE "end",
                      !.cursor = IF full THEN Position(last) ELSE r.cursor,
                      !.seen = r.seen \union ids, !.count = r.count + Cardinality(page)]
    BY <1>0 DEF Read, ids
  <2> QED BY <2>1, <2>2 DEF Lists
<1>12. s.seen \subseteq {f.id : f \in Kept}
  BY <1>5, <1>10 DEF Covered
<1>13. ASSUME NEW i \in r.before PROVE i \in s.seen \/ \E x \in rest \ page : x.id = i
  <2>1. CASE i \in r.seen
    BY <1>10, <2>1
  <2>2. CASE i \notin r.seen
    <3>1. PICK f \in Kept : f.id = i /\ Below(f, r.cursor)
      BY <2>2 DEF Covered
    <3>2. PICK x \in runs : x.id = i
      BY <3>1 DEF Kept
    <3>3. x \in rest
      BY <1>7, <3>1, <3>2 DEF Rest, Below
    <3> QED BY <1>10, <3>2, <3>3
  <2> QED BY <2>1, <2>2
<1>14. CASE ~full
  <2>1. page = rest
    BY <1>0, <1>2, <1>14
  <2>2. s.before \subseteq s.seen
    BY <1>10, <1>13, <2>1
  <2>3. s.stage = "end"
    BY <1>10, <1>14
  <2>4. IsFiniteSet(s.seen) /\ Cardinality(s.seen) = s.count
    BY <1>9, <1>10
  <2> QED BY <1>0, <1>11, <1>12, <2>2, <2>3, <2>4 DEF Covered
<1>15. CASE full
  <2>1. ASSUME NEW i \in r.before
        PROVE  i \in s.seen \/ \E f \in Kept : f.id = i /\ Below(f, s.cursor)
    <3>1. ASSUME NEW x \in rest \ page, x.id = i
          PROVE  \E f \in Kept : f.id = i /\ Below(f, s.cursor)
      <4>1. Lower(x, last)
        BY <1>2, <1>6, <1>15
      <4>2. PICK f \in Kept : f.id = x.id
        BY <1>3, RowKept
      <4>3. Position(f) = Position(x)
        BY <1>3, <1>7, <4>2
      <4> QED BY <1>10, <1>15, <3>1, <4>1, <4>2, <4>3 DEF Below, Lower
    <3> QED BY <1>13, <3>1
  <2>2. ASSUME NEW f \in Kept, f.id \in s.seen, Below(f, s.cursor) PROVE FALSE
    <3>1. PICK x \in runs : x.id = f.id
      BY DEF Kept
    <3>2. Position(f) = Position(x) /\ x \in Rows
      BY <1>7, <3>1 DEF RowsAreDistinct
    <3>3. s.cursor = Position(last) /\ s.cursor # None
      BY <1>6, <1>10, <1>15, ClientApiConstants
    <3>4. Lower(x, last)
      BY <2>2, <3>2, <3>3 DEF Below, Lower
    <3>5. CASE f.id \in ids
      <4>1. x \in page
        BY <1>2, <1>3, <3>1, <3>5
      <4> QED BY <1>6, <1>15, <3>4, <4>1
    <3>6. CASE f.id \in r.seen
      <4>1. r.cursor # None /\ ~After(Position(x), r.cursor)
        BY <3>2, <3>6 DEF Covered, Below
      <4>2. After(Position(last), r.cursor)
        BY <1>2, <1>6, <1>15, <4>1 DEF Rest, Below
      <4>3. /\ x.at \in Nat /\ x.id \in Nat /\ last.at \in Nat /\ last.id \in Nat
            /\ r.cursor.at \in Nat /\ r.cursor.id \in Nat
        BY <1>1, <1>6, <1>15, <3>2, <4>1 DEF Rows
      <4> QED BY <3>4, <4>1, <4>2, <4>3 DEF Lower, After, Position
    <3> QED BY <1>10, <2>2, <3>5, <3>6
  <2>3. s.stage = "page" /\ s.before = r.before
    BY <1>10, <1>15
  <2>4. IsFiniteSet(s.seen) /\ Cardinality(s.seen) = s.count
    BY <1>9, <1>10
  <2> QED BY <1>0, <1>11, <1>12, <2>1, <2>2, <2>3, <2>4 DEF Covered
<1> QED BY <1>0, <1>14, <1>15

-----------------------------------------------------------------------------
(* The steps. *)

\* A request of one client is replaced; the others' are as they were.
LEMMA Served ==
  ASSUME ReqTypes, NEW c \in Clients, NEW r, Serve(c, r)
  PROVE  /\ req'[c] = r
         /\ \A d \in Clients \ {c} : req'[d] = req[d]
         /\ r \in {Idle} \union Creates \union Lists \union Deletes => ReqTypes'
BY DEF Serve, ReqTypes

\* What is asserted of the requests holds after a step in which no row is
\* lost, no payload comes and the changed request is sound by itself.
LEMMA RequestsKept ==
  ASSUME ReqTypes, CreatesAreSound, ListsAreSound, DeletesAreSound,
         NEW c \in Clients, NEW r \in {Idle} \union Creates \union Lists \union Deletes,
         Serve(c, r), Kept \subseteq Kept', payload' \subseteq payload,
         \A d \in Clients \ {c} : req[d].op = "create" /\ req[d].stage = "insert" =>
            /\ \A f \in Kept' : f.id # req[d].id
            /\ r.op = "create" => r.id # req[d].id,
         r.op = "create" /\ r.stage = "insert" =>
            /\ \A f \in Kept' : f.id # r.id
            /\ \A d \in Clients \ {c} : req[d].op = "create" => req[d].id # r.id,
         r.op = "create" /\ r.stage = "created" =>
            \E f \in Kept' : f.id = r.id /\ f.key = TrimSpace[r.key] /\ f.hash = r.body,
         \A f \in Kept' \ Kept : \A g \in Kept : g.id # f.id,
         r.op = "list" => Covered(r, Kept'),
         r.op = "delete" /\ r.stage = "tombstone" => r.artifact \notin payload'
  PROVE  ReqTypes' /\ CreatesAreSound' /\ ListsAreSound' /\ DeletesAreSound'
<1>1. /\ req'[c] = r /\ \A d \in Clients \ {c} : req'[d] = req[d]
      /\ ReqTypes'
  BY Served
<1>2. CreatesAreSound'
  <2> SUFFICES ASSUME NEW d \in Clients, req'[d].op = "create"
               PROVE  /\ req'[d].stage = "insert" =>
                           /\ \A f \in Kept' : f.id # req'[d].id
                           /\ \A e \in Clients \ {d} : req'[e].op = "create" => req'[e].id # req'[d].id
                      /\ req'[d].stage = "created" =>
                           \E f \in Kept' : /\ f.id = req'[d].id
                                            /\ f.key = TrimSpace[req'[d].key]
                                            /\ f.hash = req'[d].body
    BY DEF CreatesAreSound
  <2>1. CASE d = c
    BY <1>1, <2>1
  <2>2. CASE d # c
    <3>1. req'[d] = req[d] /\ req[d].op = "create"
      BY <1>1, <2>2
    <3>2. ASSUME req[d].stage = "insert", NEW e \in Clients \ {d}, req'[e].op = "create"
          PROVE  req'[e].id # req[d].id
      <4>1. CASE e = c
        BY <1>1, <2>2, <3>1, <3>2, <4>1
      <4>2. CASE e # c
        BY <1>1, <2>2, <3>1, <3>2, <4>2 DEF CreatesAreSound
      <4> QED BY <4>1, <4>2
    <3>3. ASSUME req[d].stage = "created"
          PROVE  \E f \in Kept' : /\ f.id = req[d].id /\ f.key = TrimSpace[req[d].key]
                                  /\ f.hash = req[d].body
      BY <3>1, <3>3 DEF CreatesAreSound
    <3> QED BY <2>2, <3>1, <3>2, <3>3
  <2> QED BY <2>1, <2>2
<1>3. DeletesAreSound'
  BY <1>1 DEF DeletesAreSound
<1>4. ListsAreSound'
  <2> SUFFICES ASSUME NEW d \in Clients, req'[d].op = "list"
               PROVE  Covered(req'[d], Kept')
    BY DEF ListsAreSound
  <2>1. CASE d = c
    BY <1>1, <2>1
  <2>2. CASE d # c
    <3>1. req'[d] = req[d] /\ Covered(req[d], Kept)
      BY <1>1, <2>2 DEF ListsAreSound
    <3>2. Covered(req[d], Kept')
      BY <3>1, CoveredStays
    <3> QED BY <3>1, <3>2
  <2> QED BY <2>1, <2>2
<1> QED BY <1>1, <1>2, <1>3, <1>4

\* A request is of the kind its op tells.
LEMMA Kinds ==
  ASSUME ReqTypes, NEW c \in Clients
  PROVE  /\ req[c].op = "create" => req[c] \in Creates
         /\ req[c].op = "list" => req[c] \in Lists
         /\ req[c].op = "delete" => req[c] \in Deletes
<1>1. req[c] \in {Idle} \union Creates \union Lists \union Deletes
  BY DEF ReqTypes
<1>2. Idle.op = "none"
  BY DEF Idle
<1>3. \A r \in Creates : r.op = "create"
  BY DEF Creates
<1>4. \A r \in Lists : r.op = "list"
  BY DEF Lists
<1>5. \A r \in Deletes : r.op = "delete"
  BY DEF Deletes
<1> QED BY <1>1, <1>2, <1>3, <1>4, <1>5

\* A step that leaves the rows, the store and what was told alone, and moves one
\* client's request on.
LEMMA RequestStep ==
  ASSUME ApiInv, NEW c \in Clients, NEW r \in {Idle} \union Creates \union Lists \union Deletes,
         Serve(c, r), UNCHANGED <<runs, payload, tombstones, answers>>,
         r.op = "create" =>
            /\ r.stage \in {"insert", "lookup"}
            /\ r.stage = "insert" => \A f \in Kept : f.id # r.id
            /\ \A d \in Clients \ {c} :
                 req[d].op = "create" /\ (r.stage = "insert" \/ req[d].stage = "insert") =>
                    req[d].id # r.id,
         r.op = "list" => Covered(r, Kept),
         r.op = "delete" => r.stage = "payload"
  PROVE  ApiInv'
<1>1. Kept' = Kept
  BY DEF Kept
<1>2. ReqTypes' /\ CreatesAreSound' /\ ListsAreSound' /\ DeletesAreSound'
  <2>1. \A d \in Clients \ {c} : req[d].op = "create" /\ req[d].stage = "insert" =>
            \A f \in Kept : f.id # req[d].id
    BY DEF ApiInv, CreatesAreSound
  <2> QED BY <1>1, <2>1, RequestsKept DEF ApiInv
<1>3. RowsAreDistinct' /\ AnswerTypes'
  BY DEF ApiInv, RowsAreDistinct, AnswerTypes
<1>4. AnswersAreKept'
  BY <1>1 DEF ApiInv, AnswersAreKept
<1>5. TombstonesAreTrue'
  BY DEF ApiInv, TombstonesAreTrue
<1> QED BY <1>2, <1>3, <1>4, <1>5 DEF ApiInv

\* Create: the id is new to the rows and to the other requests.
LEMMA CreateStep ==
  ASSUME ApiInv, NEW c \in Clients, Create(c)
  PROVE  ApiInv'
<1>1. PICK k \in Keys, b \in Bodies, i \in Ids, t \in Times :
         /\ \A x \in runs : x.id # i
         /\ \A d \in Clients : req[d].op = "create" => req[d].id # i
         /\ Serve(c, [op |-> "create", stage |-> "insert", key |-> k, body |-> b,
                      id |-> i, at |-> t])
  BY DEF Create
<1> DEFINE r == [op |-> "create", stage |-> "insert", key |-> k, body |-> b, id |-> i, at |-> t]
<1>2. r \in Creates /\ r.op = "create" /\ r.stage = "insert" /\ r.id = i /\ Serve(c, r)
  BY <1>1 DEF Creates
<1>3. \A f \in Kept : f.id # i
  BY <1>1 DEF Kept
<1>4. UNCHANGED <<runs, payload, tombstones, answers>>
  BY DEF Create
<1> HIDE DEF r
<1> QED BY <1>1, <1>2, <1>3, <1>4, RequestStep

\* Insert: the row is there before the request is answered.
LEMMA InsertStep ==
  ASSUME ApiInv, NEW c \in Clients, Insert(c)
  PROVE  ApiInv'
<1> DEFINE r == req[c]
<1>1. r \in Creates /\ r.op = "create" /\ r.stage = "insert"
  BY Kinds DEF Insert, ApiInv
<1>2. /\ \A f \in Kept : f.id # r.id
      /\ \A d \in Clients \ {c} : req[d].op = "create" => req[d].id # r.id
  BY <1>1 DEF ApiInv, CreatesAreSound
<1>3. Idle \in {Idle} /\ Idle.op = "none"
  BY DEF Idle
<1>4. UNCHANGED <<payload, tombstones>>
  BY DEF Insert
<1>5. CASE Serve(c, [r EXCEPT !.stage = "lookup"]) /\ UNCHANGED <<runs, answers>>
  <2> DEFINE s == [r EXCEPT !.stage = "lookup"]
  <2>1. s \in Creates /\ s.op = "create" /\ s.stage = "lookup" /\ s.id = r.id
    BY <1>1 DEF Creates
  <2>2. Serve(c, s)
    BY <1>5
  <2> HIDE DEF r, s
  <2> QED BY <1>2, <1>4, <1>5, <2>1, <2>2, RequestStep
<1>6. CASE Refuse(c) /\ UNCHANGED runs
  BY <1>3, <1>4, <1>6, RequestStep DEF Refuse
<1>7. CASE ~Conflicts(r) /\ runs' = runs \union {Row(r)} /\ UNCHANGED answers
           /\ (Serve(c, [r EXCEPT !.stage = "created"]) \/ Serve(c, Idle))
  <2> DEFINE f == [id |-> r.id, key |-> TrimSpace[r.key], hash |-> r.body, at |-> r.at]
             s == [r EXCEPT !.stage = "created"]
  <2>1. RowsAreDistinct' /\ Kept' = Kept \union {f}
    BY <1>1, <1>2, <1>7, InsertKeepsRows DEF ApiInv
  <2>2. f.id = r.id /\ f.key = TrimSpace[r.key] /\ f.hash = r.body
    OBVIOUS
  <2>3. /\ s \in Creates /\ s.op = "create" /\ s.stage = "created" /\ s.id = r.id
        /\ s.key = r.key /\ s.body = r.body
    BY <1>1 DEF Creates
  <2>4. /\ \A d \in Clients \ {c} : req[d].op = "create" /\ req[d].stage = "insert" =>
             /\ \A g \in Kept : g.id # req[d].id
             /\ req[d].id # r.id
        /\ Kept \subseteq Kept' /\ f \in Kept'
        /\ \A g \in Kept' \ Kept : \A h \in Kept : h.id # g.id
    <3> HIDE DEF r, f
    <3> QED BY <1>2, <2>1, <2>2 DEF ApiInv, CreatesAreSound
  <2>5. Serve(c, s) \/ Serve(c, Idle)
    BY <1>7
  <2> HIDE DEF r, f, s
  <2>6. \A d \in Clients \ {c} : req[d].op = "create" /\ req[d].stage = "insert" =>
             \A g \in Kept' : g.id # req[d].id
    BY <2>1, <2>2, <2>4
  <2>7. ReqTypes' /\ CreatesAreSound' /\ ListsAreSound' /\ DeletesAreSound'
    <3>1. CASE Serve(c, s)
      <4>1. \E g \in Kept' : g.id = s.id /\ g.key = TrimSpace[s.key] /\ g.hash = s.body
        BY <2>2, <2>3, <2>4
      <4> QED BY <1>4, <2>3, <2>4, <2>6, <3>1, <4>1, RequestsKept DEF ApiInv
    <3>2. CASE Serve(c, Idle)
      BY <1>3, <1>4, <2>4, <2>6, <3>2, RequestsKept DEF ApiInv
    <3> QED BY <2>5, <3>1, <3>2
  <2>8. AnswerTypes' /\ TombstonesAreTrue'
    BY <1>4, <1>7 DEF ApiInv, AnswerTypes, TombstonesAreTrue
  <2>9. AnswersAreKept'
    BY <1>7, <2>4 DEF ApiInv, AnswersAreKept
  <2> QED BY <2>1, <2>7, <2>8, <2>9 DEF ApiInv
<1> QED BY <1>5, <1>6, <1>7 DEF Insert, Refuse

\* An answer to a create of which the row is kept.
LEMMA TellStep ==
  ASSUME ApiInv, NEW c \in Clients, Serve(c, Idle), UNCHANGED <<runs, payload, tombstones>>,
         NEW a \in [op: {"create"}, key: Keys, body: Bodies, id: Nat, state: {Accepted}],
         answers' = answers \union {a},
         \E f \in Kept : f.id = a.id /\ f.key = a.key /\ f.hash = a.body
  PROVE  ApiInv'
<1>1. Kept' = Kept
  BY DEF Kept
<1>2. ReqTypes' /\ CreatesAreSound' /\ ListsAreSound' /\ DeletesAreSound'
  <2>1. \A d \in Clients \ {c} : req[d].op = "create" /\ req[d].stage = "insert" =>
            \A f \in Kept : f.id # req[d].id
    BY DEF ApiInv, CreatesAreSound
  <2>2. Idle.op = "none"
    BY DEF Idle
  <2> QED BY <1>1, <2>1, <2>2, RequestsKept DEF ApiInv
<1>3. RowsAreDistinct'
  BY DEF ApiInv, RowsAreDistinct
<1>4. AnswerTypes' /\ a.op = "create"
  BY DEF ApiInv, AnswerTypes
<1>5. AnswersAreKept'
  BY <1>1 DEF ApiInv, AnswersAreKept
<1>6. TombstonesAreTrue'
  BY <1>4 DEF ApiInv, TombstonesAreTrue
<1> QED BY <1>2, <1>3, <1>4, <1>5, <1>6 DEF ApiInv

\* The answer to the request that created the run.
LEMMA RespondStep ==
  ASSUME ApiInv, NEW c \in Clients, Respond(c)
  PROVE  ApiInv'
<1> DEFINE r == req[c]
           a == Created(r, r.id, Accepted)
<1>1. r \in Creates /\ r.op = "create" /\ r.stage = "created"
  BY Kinds DEF Respond, ApiInv
<1>2. \E f \in Kept : f.id = r.id /\ f.key = TrimSpace[r.key] /\ f.hash = r.body
  BY <1>1 DEF ApiInv, CreatesAreSound
<1>3. /\ a \in [op: {"create"}, key: Keys, body: Bodies, id: Nat, state: {Accepted}]
      /\ a.id = r.id /\ a.key = TrimSpace[r.key] /\ a.body = r.body
  BY <1>1, ClientApiConstants DEF Created, Creates
<1>4. /\ Serve(c, Idle) /\ answers' = answers \union {a}
      /\ UNCHANGED <<runs, payload, tombstones>>
  BY DEF Respond, Tell
<1> HIDE DEF r, a
<1> QED BY <1>2, <1>3, <1>4, TellStep

\* The answer to a request that came again.
LEMMA LookupStep ==
  ASSUME ApiInv, NEW c \in Clients, Lookup(c)
  PROVE  ApiInv'
<1> DEFINE r == req[c]
<1>1. r \in Creates
  BY Kinds DEF Lookup, ApiInv
<1>2. UNCHANGED <<runs, payload, tombstones>>
  BY DEF Lookup
<1>3. CASE Refuse(c)
  <2>1. Idle.op = "none"
    BY DEF Idle
  <2> QED BY <1>2, <1>3, <2>1, RequestStep DEF Refuse
<1>4. CASE \E x \in runs : x.key = r.key /\ x.hash = r.body
             /\ Tell(c, Created(r, x.id, applyIdempotencyResponse(x)))
  <2>1. PICK x \in runs : x.key = r.key /\ x.hash = r.body
             /\ Tell(c, Created(r, x.id, applyIdempotencyResponse(x)))
    BY <1>4
  <2> DEFINE a == Created(r, x.id, applyIdempotencyResponse(x))
  <2>2. r.key \in Keys /\ r.body \in Bodies /\ TrimSpace[r.key] \in Keys
    BY <1>1, ClientApiConstants DEF Creates
  <2>3. x \in Rows /\ TrimSpace[r.key] = x.key
    BY <2>1, <2>2 DEF ApiInv, RowsAreDistinct
  <2>4. x.response = Accepted /\ x.id \in Nat
    BY <2>3 DEF Rows
  <2>5. /\ a \in [op: {"create"}, key: Keys, body: Bodies, id: Nat, state: {Accepted}]
        /\ a.id = x.id /\ a.key = x.key /\ a.body = x.hash
    BY <2>1, <2>2, <2>3, <2>4 DEF Created, applyIdempotencyResponse
  <2>6. \E f \in Kept : f.id = x.id /\ f.key = x.key /\ f.hash = x.hash
    <3>1. [id |-> x.id, key |-> x.key, hash |-> x.hash, at |-> x.at] \in Kept
      BY DEF Kept
    <3> QED BY <3>1
  <2>7. Serve(c, Idle) /\ answers' = answers \union {a}
    BY <2>1 DEF Tell
  <2> HIDE DEF r, a
  <2> QED BY <1>2, <2>5, <2>6, <2>7, TellStep
<1> QED BY <1>3, <1>4 DEF Lookup

\* A reading begins with nothing seen and everything ahead.
LEMMA StartListStep ==
  ASSUME ApiInv, NEW c \in Clients, StartList(c)
  PROVE  ApiInv'
<1>0. PICK limit \in Limits : \E n \in PageLimit(limit) :
         Serve(c, [op |-> "list", stage |-> "page", limit |-> n, cursor |-> None,
                   seen |-> {}, count |-> 0, before |-> {x.id : x \in runs}])
  BY DEF StartList
<1>1. PICK n \in PageLimit(limit) :
         Serve(c, [op |-> "list", stage |-> "page", limit |-> n, cursor |-> None,
                   seen |-> {}, count |-> 0, before |-> {x.id : x \in runs}])
  BY <1>0
<1> DEFINE ids == {x.id : x \in runs}
           r == [op |-> "list", stage |-> "page", limit |-> n, cursor |-> None,
                 seen |-> {}, count |-> 0, before |-> ids]
<1>2. n \in 1..MaximumLimit
  BY ClientApiConstants DEF PageLimit
<1>3. ids \subseteq Nat
  BY DEF ApiInv, RowsAreDistinct, Rows
<1>4. \A i \in ids : \E f \in Kept : f.id = i
  BY RowKept
<1>5. Serve(c, r)
  BY <1>1
<1> HIDE DEF ids
<1>6. r \in Lists /\ r.op = "list"
  BY <1>2, <1>3 DEF Lists
<1>7. Covered(r, Kept)
  <2>1. /\ r.seen = {} /\ r.count = 0 /\ r.stage = "page" /\ r.cursor = None /\ r.before = ids
    OBVIOUS
  <2> HIDE DEF r
  <2> QED BY <1>4, <2>1, FS_EmptySet DEF Covered, Below
<1>8. UNCHANGED <<runs, payload, tombstones, answers>>
  BY DEF StartList
<1> HIDE DEF r
<1> QED BY <1>5, <1>6, <1>7, <1>8, RequestStep

\* One GET of the history.
LEMMA ListPageStep ==
  ASSUME ApiInv, NEW c \in Clients, ListPage(c)
  PROVE  ApiInv'
<1> DEFINE r == req[c]
           s == Read(r, Page(r.cursor, r.limit))
<1>1. r \in Lists /\ r.op = "list" /\ r.stage = "page" /\ Covered(r, Kept)
  BY Kinds DEF ListPage, ApiInv, ListsAreSound
<1>2. RepositoryLimit(r.limit) = r.limit
  BY <1>1 DEF Lists, RepositoryLimit
<1>3. Serve(c, s) /\ UNCHANGED <<runs, payload, tombstones, answers>>
  BY <1>2 DEF ListPage, Read, Last
<1>4. s \in Lists /\ Covered(s, Kept)
  <2> HIDE DEF r
  <2> QED BY <1>1, PageCovers DEF ApiInv
<1>5. s.op = "list"
  BY <1>4 DEF Lists
<1> HIDE DEF s
<1> QED BY <1>3, <1>4, <1>5, RequestStep

\* Requests that end without an answer that commits the platform.
LEMMA EndStep ==
  ASSUME ApiInv, NEW c \in Clients, EndList(c) \/ Abandon(c)
  PROVE  ApiInv'
<1>1. Idle.op = "none"
  BY DEF Idle
<1> QED BY <1>1, RequestStep DEF EndList, Abandon

\* The deletion of an artifact begins with its payload.
LEMMA DeleteStep ==
  ASSUME ApiInv, NEW c \in Clients, Delete(c)
  PROVE  ApiInv'
<1>1. PICK a \in Artifacts \ Archived :
         Serve(c, [op |-> "delete", stage |-> FirstDeleted, artifact |-> a])
  BY DEF Delete
<1> DEFINE r == [op |-> "delete", stage |-> FirstDeleted, artifact |-> a]
<1>2. r \in Deletes /\ r.op = "delete" /\ r.stage = "payload" /\ Serve(c, r)
  BY <1>1 DEF Deletes, FirstDeleted
<1>3. UNCHANGED <<runs, payload, tombstones, answers>>
  BY DEF Delete
<1> HIDE DEF r
<1> QED BY <1>2, <1>3, RequestStep

\* A call of the store that succeeds leaves no payload, and only then does the
\* deletion go on.
LEMMA DeletePayloadStep ==
  ASSUME ApiInv, NEW c \in Clients, DeletePayload(c)
  PROVE  ApiInv'
<1> DEFINE r == req[c]
           s == [r EXCEPT !.stage = "tombstone"]
<1>1. r \in Deletes
  BY Kinds DEF DeletePayload, ApiInv
<1>2. r.artifact \in Artifacts \ Archived
  BY <1>1 DEF Deletes
<1>3. /\ s \in Deletes /\ s.op = "delete" /\ s.artifact = r.artifact
  BY <1>1 DEF Deletes
<1>4. UNCHANGED <<runs, tombstones, answers>>
  BY DEF DeletePayload
<1>5. payload' \in {payload, payload \ {r.artifact}}
  BY DEF DeletePayload
<1>6. (Serve(c, s) /\ r.artifact \notin payload') \/ Serve(c, Idle)
  BY DEF DeletePayload, Deleted, StoreDelete
<1>7. Idle.op = "none" /\ Kept' = Kept
  BY <1>4 DEF Idle, Kept
<1> HIDE DEF r, s
<1>8. ReqTypes' /\ CreatesAreSound' /\ ListsAreSound' /\ DeletesAreSound'
  <2>1. \A d \in Clients \ {c} : req[d].op = "create" /\ req[d].stage = "insert" =>
            \A f \in Kept : f.id # req[d].id
    BY DEF ApiInv, CreatesAreSound
  <2>2. payload' \subseteq payload
    BY <1>5
  <2> QED BY <1>3, <1>6, <1>7, <2>1, <2>2, RequestsKept DEF ApiInv
<1>9. RowsAreDistinct' /\ AnswerTypes'
  BY <1>4 DEF ApiInv, RowsAreDistinct, AnswerTypes
<1>10. AnswersAreKept'
  BY <1>4, <1>7 DEF ApiInv, AnswersAreKept
<1>11. TombstonesAreTrue'
  BY <1>2, <1>4, <1>5 DEF ApiInv, TombstonesAreTrue
<1> QED BY <1>8, <1>9, <1>10, <1>11 DEF ApiInv

\* The tombstone, and the answer 204 with it.
LEMMA RecordDeletionStep ==
  ASSUME ApiInv, NEW c \in Clients, RecordDeletion(c)
  PROVE  ApiInv'
<1> DEFINE r == req[c]
           a == [op |-> "delete", artifact |-> r.artifact]
<1>1. r \in Deletes /\ r.artifact \notin payload
  BY Kinds DEF RecordDeletion, ApiInv, DeletesAreSound
<1>2. a \in [op: {"delete"}, artifact: Artifacts \ Archived] /\ a.op = "delete" /\ a.artifact = r.artifact
  BY <1>1 DEF Deletes
<1>3. Serve(c, Idle) /\ UNCHANGED <<runs, payload>>
  BY DEF RecordDeletion, Tell, Refuse
<1>4. \/ tombstones' = tombstones \union {r.artifact} /\ answers' = answers \union {a}
      \/ tombstones' \in {tombstones, tombstones \union {r.artifact}} /\ answers' = answers
  BY DEF RecordDeletion, Tell, Refuse
<1>5. Idle.op = "none" /\ Kept' = Kept
  BY <1>3 DEF Idle, Kept
<1> HIDE DEF r, a
<1>6. ReqTypes' /\ CreatesAreSound' /\ ListsAreSound' /\ DeletesAreSound'
  <2>1. \A d \in Clients \ {c} : req[d].op = "create" /\ req[d].stage = "insert" =>
            \A f \in Kept : f.id # req[d].id
    BY DEF ApiInv, CreatesAreSound
  <2> QED BY <1>3, <1>5, <2>1, RequestsKept DEF ApiInv
<1>7. RowsAreDistinct'
  BY <1>3 DEF ApiInv, RowsAreDistinct
<1>8. AnswerTypes'
  BY <1>2, <1>4 DEF ApiInv, AnswerTypes
<1>9. AnswersAreKept'
  BY <1>2, <1>4, <1>5 DEF ApiInv, AnswersAreKept
<1>10. TombstonesAreTrue'
  BY <1>1, <1>2, <1>3, <1>4 DEF ApiInv, TombstonesAreTrue
<1> QED BY <1>6, <1>7, <1>8, <1>9, <1>10 DEF ApiInv

\* The rest of the platform moves a run on.
LEMMA SaveStep ==
  ASSUME ApiInv, NEW x \in runs, Save(x)
  PROVE  ApiInv'
<1>1. RowsAreDistinct' /\ Kept' = Kept
  BY SaveKeepsRows DEF ApiInv
<1>2. UNCHANGED <<payload, tombstones, req, answers>>
  BY DEF Save
<1> QED BY <1>1, <1>2
        DEF ApiInv, ReqTypes, CreatesAreSound, ListsAreSound, DeletesAreSound, AnswerTypes,
            AnswersAreKept, TombstonesAreTrue

\* Init
LEMMA ApiInit == Init => ApiInv
<1> SUFFICES ASSUME Init PROVE ApiInv
  OBVIOUS
<1>1. req = [c \in Clients |-> Idle] /\ Idle.op = "none"
  BY DEF Init, Idle
<1>2. ReqTypes /\ CreatesAreSound /\ ListsAreSound /\ DeletesAreSound
  BY <1>1 DEF ReqTypes, CreatesAreSound, ListsAreSound, DeletesAreSound
<1>3. RowsAreDistinct
  <2>1. runs \subseteq Rows
    BY HistoryAssumption DEF Init, Rows
  <2> QED BY <2>1, HistoryAssumption DEF Init, RowsAreDistinct
<1>4. AnswerTypes /\ AnswersAreKept /\ TombstonesAreTrue
  BY ClientApiConstants DEF Init, AnswerTypes, AnswersAreKept, TombstonesAreTrue
<1> QED BY <1>2, <1>3, <1>4 DEF ApiInv

\* Every step of clients, replicas and the rest of the platform.
LEMMA ApiStep == ApiInv /\ [Next]_vars => ApiInv'
<1> SUFFICES ASSUME ApiInv, [Next]_vars PROVE ApiInv'
  OBVIOUS
<1>1. CASE Next
  <2>1. ASSUME NEW c \in Clients, Create(c) \/ StartList(c) \/ Delete(c) \/ Abandon(c)
        PROVE  ApiInv'
    BY <2>1, CreateStep, StartListStep, DeleteStep, EndStep
  <2>2. ASSUME NEW c \in Clients, Handle(c) PROVE ApiInv'
    BY <2>2, InsertStep, RespondStep, LookupStep, ListPageStep, EndStep, DeletePayloadStep,
       RecordDeletionStep DEF Handle
  <2>3. ASSUME NEW x \in runs, Save(x) PROVE ApiInv'
    BY <2>3, SaveStep
  <2> QED BY <1>1, <2>1, <2>2, <2>3 DEF Next
<1>2. CASE UNCHANGED vars
  BY <1>2 DEF vars, ApiInv, ReqTypes, RowsAreDistinct, CreatesAreSound, ListsAreSound,
              DeletesAreSound, AnswerTypes, AnswersAreKept, TombstonesAreTrue, Kept
<1> QED BY <1>1, <1>2

-----------------------------------------------------------------------------
(* The theorems. *)

\* What the invariant says of answers and of readings that have ended.
LEMMA InvMeans == ApiInv => AnswersAgree /\ PagesCoverHistory /\ TombstonesAreTrue
<1> SUFFICES ASSUME ApiInv PROVE AnswersAgree /\ PagesCoverHistory /\ TombstonesAreTrue
  OBVIOUS
<1> DEFINE told == {a \in answers : a.op = "create"}
<1>1. \A a \in told : a \in [op: {"create"}, key: Keys, body: Bodies, id: Nat, state: {Accepted}]
  <2>1. \A a \in [op: {"delete"}, artifact: Artifacts \ Archived] : a.op = "delete"
    OBVIOUS
  <2> QED BY <2>1 DEF ApiInv, AnswerTypes
<1>2. \A a \in told : \E x \in runs : x.id = a.id /\ x.key = a.key /\ x.hash = a.body
  BY DEF ApiInv, AnswersAreKept, Kept
<1>3. ASSUME NEW a \in told, NEW b \in told, a.key = b.key PROVE a = b
  <2>1. PICK x \in runs : x.id = a.id /\ x.key = a.key /\ x.hash = a.body
    BY <1>2
  <2>2. PICK y \in runs : y.id = b.id /\ y.key = b.key /\ y.hash = b.body
    BY <1>2
  <2>3. x = y
    BY <1>3, <2>1, <2>2 DEF ApiInv, RowsAreDistinct
  <2>4. a.id = b.id /\ a.body = b.body
    BY <2>1, <2>2, <2>3
  <2> QED BY <1>1, <1>3, <2>4
<1>4. AnswersAgree
  <2>1. \A a \in told : a.state = Accepted
    BY <1>1
  <2> QED BY <1>2, <1>3, <2>1 DEF AnswersAgree
<1>5. PagesCoverHistory
  BY DEF ApiInv, ListsAreSound, Covered, PagesCoverHistory
<1> QED BY <1>4, <1>5 DEF ApiInv

\* The invariant holds in every state the API can reach.
THEOREM ApiInvariant == Spec => []ApiInv
BY ApiInit, ApiStep, PTL DEF Spec

\* Service.Create: all answers under one idempotency key tell of one run that is
\* there, for any number of clients, keys and faults.
THEOREM AnswersAlwaysAgree == Spec => []AnswersAgree
BY ApiInvariant, InvMeans, PTL

\* List: whoever follows the cursor to the end has read every run that was there
\* at the start exactly once, for every history, page size and order of times.
THEOREM PagesAlwaysCoverHistory == Spec => []PagesCoverHistory
BY ApiInvariant, InvMeans, PTL

\* Service.Delete: no tombstone for a payload that is there.
THEOREM TombstonesAreAlwaysTrue == Spec => []TombstonesAreTrue
BY ApiInvariant, InvMeans, PTL
=============================================================================
