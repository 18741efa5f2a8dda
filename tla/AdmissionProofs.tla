--------------------------- MODULE AdmissionProofs ---------------------------
(***************************************************************************)
(* The limits that final admission keeps, for every number of tenants,      *)
(* runs, clusters, workers and callers: quotas, capacity and the budget.    *)
(*                                                                          *)
(* The argument: no row is locked by two transactions.  What a transaction  *)
(* has checked under the policy lock, or under the cluster lock, stays true *)
(* until it commits, because every step that could make it false needs that *)
(* same lock.                                                               *)
(***************************************************************************)
EXTENDS Admission, FiniteSetTheorems, TLAPS

(* Sums and maxima of finite sets. *)

\* As many elements as the sum has units.
Units(f, T) == {u \in T \X Nat : u[2] \in 1..f[u[1]]}

Some(s) == CHOOSE x \in s : TRUE

\* No elements, no units.
LEMMA UnitsOfEmpty == ASSUME NEW f PROVE Units(f, {}) = {}
BY DEF Units

\* The units of one element and those of the others.
LEMMA UnitsOfOneMore ==
  ASSUME NEW f, NEW T, NEW x \in T, f[x] \in Nat
  PROVE  /\ Units(f, T) = Units(f, T \ {x}) \cup ({x} \X (1..f[x]))
         /\ Units(f, T \ {x}) \cap ({x} \X (1..f[x])) = {}
<1>1. ASSUME NEW u \in Units(f, T) PROVE u \in Units(f, T \ {x}) \cup ({x} \X (1..f[x]))
  BY DEF Units
<1>2. ASSUME NEW u \in Units(f, T \ {x}) \cup ({x} \X (1..f[x])) PROVE u \in Units(f, T)
  BY DEF Units
<1>3. Units(f, T \ {x}) \cap ({x} \X (1..f[x])) = {}
  BY DEF Units
<1> QED BY <1>1, <1>2, <1>3

\* One element more adds its units.
LEMMA CountUnits ==
  ASSUME NEW f, NEW T, NEW x \in T, f[x] \in Nat, IsFiniteSet(Units(f, T \ {x}))
  PROVE  /\ IsFiniteSet(Units(f, T))
         /\ Cardinality(Units(f, T)) = f[x] + Cardinality(Units(f, T \ {x}))
<1> DEFINE P == {x} \X (1..f[x])
<1>1. IsFiniteSet({x}) /\ Cardinality({x}) = 1
  BY FS_Singleton, Zenon
<1>2. IsFiniteSet(1..f[x]) /\ Cardinality(1..f[x]) = f[x]
  BY FS_Interval
<1>3. IsFiniteSet(P) /\ Cardinality(P) = Cardinality({x}) * Cardinality(1..f[x])
  BY <1>1, <1>2, FS_Product, Zenon
<1>4. Cardinality(P) = f[x]
  BY <1>1, <1>2, <1>3
<1>5. Units(f, T) = Units(f, T \ {x}) \cup P /\ Units(f, T \ {x}) \cap P = {}
  BY UnitsOfOneMore
<1> HIDE DEF P
<1>6. /\ IsFiniteSet(Units(f, T \ {x}) \cup P)
      /\ Cardinality(Units(f, T \ {x}) \cup P) =
           Cardinality(Units(f, T \ {x})) + Cardinality(P) - Cardinality(Units(f, T \ {x}) \cap P)
  BY <1>3, FS_Union, Zenon
<1>7. Cardinality(Units(f, T \ {x})) \in Nat /\ Cardinality({}) = 0
  BY FS_CardinalityType, FS_EmptySet
<1>8. Cardinality(Units(f, T \ {x}) \cap P) = 0
  BY <1>5, <1>7, Zenon
<1>9. Cardinality(Units(f, T)) = Cardinality(Units(f, T \ {x})) + f[x] - 0
  BY <1>4, <1>5, <1>6, <1>8, Zenon
<1> QED BY <1>5, <1>6, <1>7, <1>9

\* Induction over the finite subsets of a set: those with a property are all if
\* each has it as soon as its strict subsets do.
LEMMA AllSubsets ==
  ASSUME NEW S, IsFiniteSet(S), NEW Good,
         \A T \in SUBSET S : (\A U \in SUBSET T : U # T => U \in Good) => T \in Good
  PROVE  SUBSET S \subseteq Good
<1> DEFINE Bad == (SUBSET S) \ Good
           R == StrictSubsetOrdering(S)
<1>1. SUFFICES ASSUME Bad # {} PROVE FALSE
  OBVIOUS
<1>2. IsWellFoundedOn(R, FiniteSubsetsOf(S))
  BY FS_StrictSubsetOrderingWellFounded
<1>3. Bad \subseteq FiniteSubsetsOf(S)
  BY FS_Subset DEF FiniteSubsetsOf
<1> HIDE DEF Bad, R
<1>4. PICK T \in Bad : \A U \in Bad : <<U, T>> \notin R
  BY <1>1, <1>2, <1>3, WFMin
<1>5. ASSUME NEW U \in SUBSET T, U # T PROVE U \in Good
  <2>1. T \in SUBSET S /\ U \in SUBSET S
    BY DEF Bad
  <2>2. <<U, T>> \in R
    BY <1>5, <2>1 DEF R, StrictSubsetOrdering
  <2> QED BY <1>4, <2>1, <2>2 DEF Bad
<1>6. T \in SUBSET S /\ T \notin Good
  BY <1>4 DEF Bad
<1> QED BY <1>5, <1>6

\* SumFunctionOnSet, as the recursive function that it chooses.
LEMMA SumDef ==
  ASSUME NEW f, NEW T
  PROVE  SumFunctionOnSet(f, T) =
           (CHOOSE g : g = [s \in SUBSET T |-> IF s = {} THEN 0
                              ELSE f[Some(s)] + g[s \ {Some(s)}]])[T]
BY Zenon DEF SumFunctionOnSet, FoldFunctionOnSet, MapThenFoldSet, Some

\* The element that the sum takes out next.
LEMMA SomeIn == ASSUME NEW s, s # {} PROVE Some(s) \in s
BY DEF Some

\* A finite set has finitely many units.
LEMMA FiniteUnits ==
  ASSUME NEW f, NEW T, IsFiniteSet(T), \A x \in T : f[x] \in Nat
  PROVE  IsFiniteSet(Units(f, T))
<1> DEFINE Good == {s \in SUBSET T : IsFiniteSet(Units(f, s))}
<1>1. ASSUME NEW s \in SUBSET T, \A U \in SUBSET s : U # s => U \in Good
      PROVE  s \in Good
  <2>1. CASE s = {}
    BY <2>1, UnitsOfEmpty, FS_EmptySet
  <2>2. CASE s # {}
    <3>1. PICK x \in s : TRUE
      BY <2>2
    <3>2. IsFiniteSet(Units(f, s \ {x}))
      BY <1>1
    <3> QED BY <3>2, CountUnits
  <2> QED BY <2>1, <2>2
<1> HIDE DEF Good
<1>2. SUBSET T \subseteq Good
  BY <1>1, AllSubsets
<1> QED BY <1>2 DEF Good

\* A sum is the number of its units, in whatever order it is taken.
LEMMA SumIsUnits ==
  ASSUME NEW f, NEW T, IsFiniteSet(T), \A x \in T : f[x] \in Nat
  PROVE  SumFunctionOnSet(f, T) = Cardinality(Units(f, T))
<1> DEFINE Is(g) == g = [s \in SUBSET T |-> IF s = {} THEN 0
                              ELSE f[Some(s)] + g[s \ {Some(s)}]]
           h == [s \in SUBSET T |-> Cardinality(Units(f, s))]
           g == CHOOSE x : Is(x)
<1>1. ASSUME NEW s \in SUBSET T, s # {}
      PROVE  /\ Some(s) \in s /\ s \ {Some(s)} \in SUBSET T
             /\ Cardinality(Units(f, s)) = f[Some(s)] + Cardinality(Units(f, s \ {Some(s)}))
  <2>1. Some(s) \in s
    BY <1>1, SomeIn
  <2>2. IsFiniteSet(Units(f, s \ {Some(s)}))
    BY FS_Subset, FiniteUnits
  <2> QED BY <2>1, <2>2, CountUnits, Zenon
<1>2. Is(h)
  <2>1. Cardinality(Units(f, {})) = 0
    BY UnitsOfEmpty, FS_EmptySet
  <2>2. ASSUME NEW s \in SUBSET T
        PROVE  h[s] = IF s = {} THEN 0 ELSE f[Some(s)] + h[s \ {Some(s)}]
    BY <1>1, <2>1, Zenon
  <2> HIDE DEF h
  <2>3. h = [s \in SUBSET T |-> h[s]]
    BY DEF h
  <2> QED BY <2>2, <2>3, Zenon
<1>3. Is(g)
  BY <1>2, Zenon
<1> HIDE DEF g
<1>4. ASSUME NEW s \in SUBSET T
      PROVE  g[s] = IF s = {} THEN 0 ELSE f[Some(s)] + g[s \ {Some(s)}]
  BY <1>3, Zenon
<1> DEFINE Good == {s \in SUBSET T : g[s] = Cardinality(Units(f, s))}
<1>5. ASSUME NEW s \in SUBSET T, \A U \in SUBSET s : U # s => U \in Good
      PROVE  s \in Good
  <2>1. CASE s = {}
    BY <2>1, <1>4, UnitsOfEmpty, FS_EmptySet
  <2>2. CASE s # {}
    <3>1. s \ {Some(s)} \in Good
      BY <1>1, <1>5, <2>2
    <3> QED BY <3>1, <1>1, <1>4, <2>2
  <2> QED BY <2>1, <2>2
<1> HIDE DEF Good
<1>6. SUBSET T \subseteq Good
  BY <1>5, AllSubsets
<1>7. g[T] = Cardinality(Units(f, T))
  BY <1>6 DEF Good
<1>8. SumFunctionOnSet(f, T) = g[T]
  BY SumDef, Zenon DEF g
<1> QED BY <1>7, <1>8

-----------------------------------------------------------------------------
(* What the proofs use of a sum of natural numbers. *)

\* A sum of natural numbers is one.
LEMMA SumIsNat ==
  ASSUME NEW f, NEW T, IsFiniteSet(T), \A x \in T : f[x] \in Nat
  PROVE  SumFunctionOnSet(f, T) \in Nat
BY SumIsUnits, FiniteUnits, FS_CardinalityType

\* The sum of nothing.
LEMMA SumOfNone == ASSUME NEW f PROVE SumFunctionOnSet(f, {}) = 0
BY SumIsUnits, UnitsOfEmpty, FS_EmptySet

\* A sum is any of its summands and the sum of the others.
LEMMA SumWithout ==
  ASSUME NEW f, NEW T, IsFiniteSet(T), \A x \in T : f[x] \in Nat, NEW x \in T
  PROVE  SumFunctionOnSet(f, T) = f[x] + SumFunctionOnSet(f, T \ {x})
<1>1. IsFiniteSet(T \ {x})
  BY FS_RemoveElement
<1>2. IsFiniteSet(Units(f, T \ {x}))
  BY <1>1, FiniteUnits
<1>3. Cardinality(Units(f, T)) = f[x] + Cardinality(Units(f, T \ {x}))
  BY <1>2, CountUnits
<1>4. /\ SumFunctionOnSet(f, T) = Cardinality(Units(f, T))
      /\ SumFunctionOnSet(f, T \ {x}) = Cardinality(Units(f, T \ {x}))
  BY <1>1, SumIsUnits
<1> QED BY <1>3, <1>4

\* A part sums up to no more.
LEMMA SumOfPart ==
  ASSUME NEW f, NEW T, IsFiniteSet(T), \A x \in T : f[x] \in Nat, NEW U \in SUBSET T
  PROVE  SumFunctionOnSet(f, U) <= SumFunctionOnSet(f, T)
<1>1. IsFiniteSet(U)
  BY FS_Subset
<1>2. Units(f, U) \in SUBSET Units(f, T)
  BY DEF Units
<1>3. Cardinality(Units(f, U)) <= Cardinality(Units(f, T))
  BY <1>2, FiniteUnits, FS_Subset
<1> QED BY <1>1, <1>3, SumIsUnits

\* Equal summands, equal sums.
LEMMA SumIsTheSame ==
  ASSUME NEW f, NEW g, NEW T, IsFiniteSet(T), \A x \in T : f[x] \in Nat /\ g[x] = f[x]
  PROVE  SumFunctionOnSet(g, T) = SumFunctionOnSet(f, T)
<1>1. Units(f, T) = Units(g, T)
  BY DEF Units
<1> QED BY <1>1, SumIsUnits

\* One summand more.
LEMMA SumWith ==
  ASSUME NEW f, NEW g, NEW T, NEW U, NEW x \in U, T = U \ {x}, IsFiniteSet(T),
         \A y \in T : f[y] \in Nat /\ g[y] = f[y], g[x] \in Nat
  PROVE  SumFunctionOnSet(g, U) = g[x] + SumFunctionOnSet(f, T)
<1>1. IsFiniteSet(T \cup {x}) /\ U = T \cup {x}
  BY FS_AddElement
<1>2. IsFiniteSet(U) /\ \A y \in U : g[y] \in Nat
  BY <1>1
<1>3. SumFunctionOnSet(g, U) = g[x] + SumFunctionOnSet(g, T)
  BY <1>2, SumWithout
<1>4. SumFunctionOnSet(g, T) = SumFunctionOnSet(f, T)
  BY SumIsTheSame
<1> QED BY <1>3, <1>4

\* The greatest of a finite set of numbers.
LEMMA GreatestOf ==
  ASSUME NEW S, IsFiniteSet(S), S # {}, \A y \in S : y \in Int
  PROVE  \E m \in S : \A y \in S : y <= m
<1> DEFINE Good == {T \in SUBSET S : T # {} => \E m \in T : \A y \in T : y <= m}
<1>1. ASSUME NEW T \in SUBSET S, \A U \in SUBSET T : U # T => U \in Good PROVE T \in Good
  <2>1. SUFFICES ASSUME NEW x \in T PROVE \E m \in T : \A y \in T : y <= m
    OBVIOUS
  <2>2. T \ {x} \in Good
    BY <1>1, Zenon
  <2>3. CASE T \ {x} = {}
    <3>1. \A y \in T : y = x /\ x \in Int
      BY <2>3
    <3> QED BY <3>1
  <2>4. CASE T \ {x} # {}
    <3>1. PICK m \in T \ {x} : \A y \in T \ {x} : y <= m
      BY <2>2, <2>4
    <3>2. m \in Int /\ x \in Int /\ \A y \in T : y \in Int
      OBVIOUS
    <3>3. CASE x <= m
      BY <3>1, <3>3
    <3>4. CASE ~(x <= m)
      <4>1. \A y \in T : y <= x
        BY <3>1, <3>2, <3>4
      <4> QED BY <4>1
    <3> QED BY <3>3, <3>4
  <2> QED BY <2>3, <2>4
<1>2. \A T \in SUBSET S : (\A U \in SUBSET T : U # T => U \in Good) => T \in Good
  BY <1>1, Zenon
<1> HIDE DEF Good
<1>3. SUBSET S \subseteq Good
  BY <1>2, AllSubsets
<1>4. S \in Good
  BY <1>3
<1> QED BY <1>4 DEF Good

\* Max, of a finite set of numbers that is not empty.
LEMMA MaxOf ==
  ASSUME NEW S \in SUBSET Int, IsFiniteSet(S), NEW x \in S
  PROVE  Max(S) \in S /\ x <= Max(S)
<1>1. \E m \in S : \A y \in S : y <= m
  BY GreatestOf, Zenon
<1>2. \E m \in S : \A y \in S : m >= y
  BY <1>1
<1>3. Max(S) \in S /\ \A y \in S : Max(S) >= y
  BY <1>2, Zenon DEF Max
<1> QED BY <1>3
-----------------------------------------------------------------------------
(* The invariant. *)

Stages == {"idle", "claimed", "evaluating", "evaluated", "renewed", "locked", "admitted",
           "asked", "placed", "requested", "reserving", "reserved"}

RunRecord == [status : {"WAITING", "EXECUTING", "CANCELLING", "DONE"},
              owner : Workers \cup {None}, attempt : Nat, assigned : BOOLEAN]

ClusterRecord == [usable : BOOLEAN, reports : Seq(Nat) \ {<<>>}]

Bundle == [run : Runs, attempt : Nat, cluster : Clusters,
           state : {"RESERVED", "RELEASED", "SETTLED", "EXPIRED"},
           created : Nat, expires : Nat, day : Days, amount : Nat]

Transaction == [stage : Stages, run : Runs \cup {None}, attempt : Nat,
                cluster : Clusters \cup {None}, at : Nat,
                decision : {"NONE", "ELIGIBLE", "DEFER", "REJECT"}, capacity : Nat]

TypeOK ==
  /\ now \in 0..MaxClock
  /\ run \in [Runs -> RunRecord]
  /\ cluster \in [Clusters -> ClusterRecord]
  /\ reservations \in Seq(Bundle)
  /\ usage \in [Tenants -> [Days -> [spent : Int, reserved : Int]]]
  /\ tx \in [Procs -> Transaction]

\* A transaction knows its run and a time that has passed, and from a certain
\* point on its cluster.
Started(x, time) ==
  /\ x.stage # "idle" => x.run \in Runs /\ x.at <= time
  /\ x.stage \in {"locked", "admitted", "asked", "placed", "requested", "reserving", "reserved"}
       => x.cluster \in Clusters

\* No row is locked by two transactions.
LocksExclusive == \A p, q \in Procs : p # q => Held(p) \cap Held(q) = {}

\* A run that waits has no workload.
WaitingIsUnassigned == \A r \in Runs : run[r].status = "WAITING" => ~run[r].assigned

WorkingIn(rn, t) ==
  {r \in Runs : TenantOf[r] = t /\ rn[r].assigned /\ rn[r].status \in {"EXECUTING", "CANCELLING"}}

UserIn(rs, u) == {r \in rs : UserOf[r] = u}

\* The tenant of a run has room for it.
Room(rs, r) ==
  LET limit == Policy[TenantOf[r]]
  IN /\ Cardinality(rs) < limit.maxRuns
     /\ Cardinality(UserIn(rs, UserOf[r])) < limit.maxUserRuns
     /\ SizeOf(rs) + Size[r] <= limit.maxSize

\* What SchedulePolicy has found out, for a transaction and a state of the runs.
HasRoom(x, rn) ==
  x.stage \in {"admitted", "asked", "placed"} => Room(WorkingIn(rn, TenantOf[x.run]), x.run)

CountedIn(rs, k, at) ==
  {i \in DOMAIN rs : rs[i].cluster = k /\ rs[i].state = "RESERVED" /\ rs[i].expires > at}

SizesIn(rs) == [i \in DOMAIN rs |-> Size[rs[i].run]]

ReservedIn(rs, k, at) == SumFunctionOnSet(SizesIn(rs), CountedIn(rs, k, at))

ReportsIn(cl, k) == {cl[k].reports[i] : i \in DOMAIN cl[k].reports}

\* What ScheduleAsk, ScheduleCluster and ReserveCluster have found out.
Fits(x, cl, rs) ==
  /\ x.stage = "asked" => x.capacity \in ReportsIn(cl, x.cluster)
  /\ x.stage \in {"placed", "reserved"}
       => \E c \in ReportsIn(cl, x.cluster) :
            ReservedIn(rs, x.cluster, x.at) + Size[x.run] <= c

AmountsIn(rs) == [i \in DOMAIN rs |-> rs[i].amount]

ChargesIn(rs, t, d, state) ==
  {i \in DOMAIN rs : TenantOf[rs[i].run] = t /\ rs[i].day = d /\ rs[i].state = state}

ChargedIn(rs, t, d, state) == SumFunctionOnSet(AmountsIn(rs), ChargesIn(rs, t, d, state))

\* The inductive invariant: what is proved of the rows, and of the transactions
\* under way that their locks are their own and their checks still hold.
AdmissionInv ==
  /\ TypeOK
  /\ \A p \in Procs : Started(tx[p], now)
  /\ LocksExclusive
  /\ WaitingIsUnassigned
  /\ \A p \in Procs : HasRoom(tx[p], run) /\ Fits(tx[p], cluster, reservations)
  /\ QuotaRespected
  /\ CapacityRespected
  /\ LedgerBalanced
  /\ BudgetRespected
-----------------------------------------------------------------------------
(* Sums over the reservations. *)

\* The reservations are a function on their indices.
LEMMA BundlesIn ==
  ASSUME NEW rs \in Seq(Bundle)
  PROVE  /\ Len(rs) \in Nat
         /\ DOMAIN rs = 1..Len(rs)
         /\ rs \in [DOMAIN rs -> Bundle]
         /\ \A i \in DOMAIN rs : rs[i] \in Bundle
OBVIOUS

\* Every set of reservations is finite.
LEMMA DomainIsFinite ==
  ASSUME NEW rs \in Seq(Bundle), NEW T \in SUBSET DOMAIN rs
  PROVE  IsFiniteSet(T)
<1>1. DOMAIN rs = 1..Len(rs) /\ Len(rs) \in Nat
  OBVIOUS
<1>2. IsFiniteSet(DOMAIN rs)
  BY <1>1, FS_Interval
<1> QED BY <1>2, FS_Subset

\* What a reservation takes of its cluster.
LEMMA SizesAreNat ==
  ASSUME NEW rs \in Seq(Bundle)
  PROVE  \A i \in DOMAIN rs : SizesIn(rs)[i] = Size[rs[i].run] /\ SizesIn(rs)[i] \in Nat
<1>1. \A i \in DOMAIN rs : rs[i].run \in Runs
  BY BundlesIn, Zenon DEF Bundle
<1> QED BY <1>1, AdmissionAssumption DEF SizesIn

\* The sum of the capacity query is a number.
LEMMA ReservedIsNat ==
  ASSUME NEW rs \in Seq(Bundle), NEW k, NEW at
  PROVE  ReservedIn(rs, k, at) \in Nat
<1>1. CountedIn(rs, k, at) \in SUBSET DOMAIN rs
  BY DEF CountedIn
<1>2. IsFiniteSet(CountedIn(rs, k, at))
  BY <1>1, DomainIsFinite
<1>3. \A i \in CountedIn(rs, k, at) : SizesIn(rs)[i] \in Nat
  BY <1>1, SizesAreNat
<1> QED BY <1>2, <1>3, SumIsNat DEF ReservedIn

\* Fewer reservations count at a later time.
LEMMA ReservedLater ==
  ASSUME NEW rs \in Seq(Bundle), NEW k, NEW at \in Nat, NEW time \in Nat, at <= time
  PROVE  ReservedIn(rs, k, time) <= ReservedIn(rs, k, at)
<1>1. CountedIn(rs, k, at) \in SUBSET DOMAIN rs
  BY DEF CountedIn
<1>2. \A i \in DOMAIN rs : rs[i].expires \in Nat
  BY BundlesIn, Zenon DEF Bundle
<1>3. CountedIn(rs, k, time) \in SUBSET CountedIn(rs, k, at)
  BY <1>2 DEF CountedIn
<1>4. IsFiniteSet(CountedIn(rs, k, at))
  BY <1>1, DomainIsFinite
<1>5. \A i \in CountedIn(rs, k, at) : SizesIn(rs)[i] \in Nat
  BY <1>1, SizesAreNat
<1> QED BY <1>3, <1>4, <1>5, SumOfPart DEF ReservedIn

\* A reservation that is released, settled or expired.
LEMMA MovedIsTyped ==
  ASSUME NEW rs \in Seq(Bundle), NEW i \in DOMAIN rs,
         NEW target \in {"RELEASED", "SETTLED", "EXPIRED"}
  PROVE  [rs EXCEPT ![i].state = target] \in Seq(Bundle)
<1>1. [rs[i] EXCEPT !.state = target] \in Bundle
  BY BundlesIn, Zenon DEF Bundle
<1>2. [rs EXCEPT ![i].state = target] \in [1..Len(rs) -> Bundle]
  BY <1>1, BundlesIn
<1> QED BY <1>2, BundlesIn

\* None counts that has left RESERVED.
LEMMA ReservedAfterMove ==
  ASSUME NEW rs \in Seq(Bundle), NEW i \in DOMAIN rs, NEW k, NEW at,
         NEW target \in {"RELEASED", "SETTLED", "EXPIRED"}
  PROVE  ReservedIn([rs EXCEPT ![i].state = target], k, at) <= ReservedIn(rs, k, at)
<1> DEFINE new == [rs EXCEPT ![i].state = target]
<1>1. CountedIn(rs, k, at) \in SUBSET DOMAIN rs
  BY DEF CountedIn
<1>2. /\ DOMAIN new = DOMAIN rs
      /\ \A j \in DOMAIN rs : new[j].run = rs[j].run
      /\ \A j \in DOMAIN rs \ {i} : new[j] = rs[j]
      /\ new[i].state = target
  BY BundlesIn, Zenon DEF Bundle
<1> HIDE DEF new
<1>3. SizesIn(new) = SizesIn(rs)
  BY <1>2 DEF SizesIn
<1>4. CountedIn(new, k, at) \in SUBSET CountedIn(rs, k, at)
  BY <1>2 DEF CountedIn
<1>5. IsFiniteSet(CountedIn(rs, k, at))
  BY <1>1, DomainIsFinite
<1>6. \A j \in CountedIn(rs, k, at) : SizesIn(rs)[j] \in Nat
  BY <1>1, SizesAreNat
<1>7. ReservedIn(new, k, at) <= ReservedIn(rs, k, at)
  BY <1>3, <1>4, <1>5, <1>6, SumOfPart DEF ReservedIn
<1> QED BY <1>7 DEF new

\* A new one counts against its own cluster only.
LEMMA ReservedAfterInsert ==
  ASSUME NEW rs \in Seq(Bundle), NEW b \in Bundle, NEW k, NEW at
  PROVE  /\ ReservedIn(Append(rs, b), k, at) <= ReservedIn(rs, k, at) + Size[b.run]
         /\ b.cluster # k => ReservedIn(Append(rs, b), k, at) = ReservedIn(rs, k, at)
<1> DEFINE new == Append(rs, b)
           n == Len(rs) + 1
           T == CountedIn(rs, k, at)
           U == CountedIn(new, k, at)
<1>1. /\ Len(rs) \in Nat /\ DOMAIN rs = 1..Len(rs) /\ DOMAIN new = 1..n
      /\ \A i \in DOMAIN rs : new[i] = rs[i]
      /\ new[n] = b
  BY BundlesIn
<1>2. new \in Seq(Bundle)
  OBVIOUS
<1>3. Size[b.run] \in Nat
  BY AdmissionAssumption DEF Bundle
<1> HIDE DEF new
<1>4. n \notin T /\ U \in SUBSET (T \cup {n}) /\ T \in SUBSET U
  BY <1>1 DEF CountedIn
<1>5. b.cluster # k => n \notin U
  BY <1>1 DEF CountedIn
<1>6. T \in SUBSET DOMAIN rs /\ DOMAIN rs \in SUBSET DOMAIN new /\ n \in DOMAIN new
  BY <1>1 DEF CountedIn
<1>7. IsFiniteSet(T)
  BY <1>6, DomainIsFinite
<1>8. \A i \in T : SizesIn(rs)[i] \in Nat /\ SizesIn(new)[i] = SizesIn(rs)[i]
  BY <1>1, <1>2, <1>6, SizesAreNat
<1>9. SizesIn(new)[n] = Size[b.run]
  BY <1>1, <1>2, <1>6, SizesAreNat
<1> HIDE DEF n, T, U
<1>10. ReservedIn(rs, k, at) = SumFunctionOnSet(SizesIn(rs), T)
       /\ ReservedIn(new, k, at) = SumFunctionOnSet(SizesIn(new), U)
  BY DEF ReservedIn, T, U
<1>11. ReservedIn(rs, k, at) \in Nat
  BY ReservedIsNat
<1>12. CASE n \in U
  <2>1. T = U \ {n} /\ n \in U
    BY <1>4, <1>12
  <2> DEFINE f == SizesIn(rs)
             g == SizesIn(new)
  <2>2. g[n] \in Nat /\ \A i \in T : f[i] \in Nat /\ g[i] = f[i]
    BY <1>3, <1>8, <1>9
  <2> HIDE DEF f, g
  <2>3. SumFunctionOnSet(g, U) = g[n] + SumFunctionOnSet(f, T)
    BY <1>7, <2>1, <2>2, SumWith
  <2> QED BY <1>3, <1>5, <1>9, <1>10, <1>11, <1>12, <2>3 DEF new, f, g
<1>13. CASE n \notin U
  <2>1. U = T
    BY <1>4, <1>13
  <2>2. SumFunctionOnSet(SizesIn(new), U) = SumFunctionOnSet(SizesIn(rs), T)
    BY <1>7, <1>8, <2>1, SumIsTheSame
  <2> QED BY <1>3, <1>10, <1>11, <2>2 DEF new
<1> QED BY <1>12, <1>13

\* What a reservation charges.
LEMMA AmountsAreNat ==
  ASSUME NEW rs \in Seq(Bundle)
  PROVE  \A i \in DOMAIN rs : AmountsIn(rs)[i] = rs[i].amount /\ AmountsIn(rs)[i] \in Nat
<1>1. \A i \in DOMAIN rs : rs[i].amount \in Nat
  BY BundlesIn, Zenon DEF Bundle
<1> QED BY <1>1 DEF AmountsIn

\* The sum of what is charged is a number.
LEMMA ChargedIsNat ==
  ASSUME NEW rs \in Seq(Bundle), NEW t, NEW d, NEW s
  PROVE  ChargedIn(rs, t, d, s) \in Nat
<1>1. ChargesIn(rs, t, d, s) \in SUBSET DOMAIN rs
  BY DEF ChargesIn
<1>2. IsFiniteSet(ChargesIn(rs, t, d, s))
  BY <1>1, DomainIsFinite
<1>3. \A i \in ChargesIn(rs, t, d, s) : AmountsIn(rs)[i] \in Nat
  BY <1>1, AmountsAreNat
<1> QED BY <1>2, <1>3, SumIsNat DEF ChargedIn

\* A new reservation is charged to its tenant and day.
LEMMA ChargedAfterInsert ==
  ASSUME NEW rs \in Seq(Bundle), NEW b \in Bundle, NEW t, NEW d, NEW s
  PROVE  ChargedIn(Append(rs, b), t, d, s) =
           ChargedIn(rs, t, d, s) +
             (IF TenantOf[b.run] = t /\ b.day = d /\ b.state = s THEN b.amount ELSE 0)
<1> DEFINE new == Append(rs, b)
           n == Len(rs) + 1
           T == ChargesIn(rs, t, d, s)
           U == ChargesIn(new, t, d, s)
           mine == TenantOf[b.run] = t /\ b.day = d /\ b.state = s
<1>1. /\ Len(rs) \in Nat /\ DOMAIN rs = 1..Len(rs) /\ DOMAIN new = 1..n
      /\ \A i \in DOMAIN rs : new[i] = rs[i]
      /\ new[n] = b
  BY BundlesIn
<1>2. new \in Seq(Bundle)
  OBVIOUS
<1>3. b.amount \in Nat
  BY DEF Bundle
<1> HIDE DEF new
<1>4. n \notin T /\ U \in SUBSET (T \cup {n}) /\ T \in SUBSET U
  BY <1>1 DEF ChargesIn
<1>5. mine <=> n \in U
  BY <1>1 DEF ChargesIn
<1>6. T \in SUBSET DOMAIN rs /\ DOMAIN rs \in SUBSET DOMAIN new /\ n \in DOMAIN new
  BY <1>1 DEF ChargesIn
<1>7. IsFiniteSet(T)
  BY <1>6, DomainIsFinite
<1>8. \A i \in T : AmountsIn(rs)[i] \in Nat /\ AmountsIn(new)[i] = AmountsIn(rs)[i]
  BY <1>1, <1>2, <1>6, AmountsAreNat
<1>9. AmountsIn(new)[n] = b.amount
  BY <1>1, <1>2, <1>6, AmountsAreNat
<1> HIDE DEF n, T, U, mine
<1>10. ChargedIn(rs, t, d, s) = SumFunctionOnSet(AmountsIn(rs), T)
       /\ ChargedIn(new, t, d, s) = SumFunctionOnSet(AmountsIn(new), U)
  BY DEF ChargedIn, T, U
<1>11. ChargedIn(rs, t, d, s) \in Nat
  BY ChargedIsNat
<1>12. CASE mine
  <2>1. T = U \ {n} /\ n \in U
    BY <1>4, <1>5, <1>12
  <2> DEFINE f == AmountsIn(rs)
             g == AmountsIn(new)
  <2>2. g[n] \in Nat /\ \A i \in T : f[i] \in Nat /\ g[i] = f[i]
    BY <1>3, <1>8, <1>9
  <2> HIDE DEF f, g
  <2>3. SumFunctionOnSet(g, U) = g[n] + SumFunctionOnSet(f, T)
    BY <1>7, <2>1, <2>2, SumWith
  <2>4. ChargedIn(new, t, d, s) = ChargedIn(rs, t, d, s) + b.amount
    BY <1>3, <1>9, <1>10, <1>11, <2>3 DEF f, g
  <2> QED BY <1>12, <2>4 DEF new, mine
<1>13. CASE ~mine
  <2>1. U = T
    BY <1>4, <1>5, <1>13, Zenon
  <2>2. SumFunctionOnSet(AmountsIn(new), U) = SumFunctionOnSet(AmountsIn(rs), T)
    BY <1>7, <1>8, <2>1, SumIsTheSame
  <2>3. ChargedIn(new, t, d, s) = ChargedIn(rs, t, d, s) + 0
    BY <1>10, <1>11, <2>2
  <2> QED BY <1>13, <2>3 DEF new, mine
<1> QED BY <1>12, <1>13

\* One that moves is charged where it was, under its new state.
ChargesMove(rs, new, i, target, t, d, s) ==
  LET mine == TenantOf[rs[i].run] = t /\ rs[i].day = d
  IN /\ mine /\ s = "RESERVED" => ChargedIn(rs, t, d, s) = rs[i].amount + ChargedIn(new, t, d, s)
     /\ mine /\ s = target => ChargedIn(new, t, d, s) = rs[i].amount + ChargedIn(rs, t, d, s)
     /\ ~mine \/ s \notin {"RESERVED", target} => ChargedIn(new, t, d, s) = ChargedIn(rs, t, d, s)

\* A reservation that ends takes its amount from one sum to another.
LEMMA ChargedAfterMove ==
  ASSUME NEW rs \in Seq(Bundle), NEW i \in DOMAIN rs, rs[i].state = "RESERVED",
         NEW target \in {"RELEASED", "SETTLED", "EXPIRED"}, NEW t, NEW d, NEW s
  PROVE  ChargesMove(rs, [rs EXCEPT ![i].state = target], i, target, t, d, s)
<1> DEFINE mine == TenantOf[rs[i].run] = t /\ rs[i].day = d
           new == [rs EXCEPT ![i].state = target]
           T == ChargesIn(rs, t, d, s)
           U == ChargesIn(new, t, d, s)
<1>1. /\ DOMAIN new = DOMAIN rs
      /\ \A j \in DOMAIN rs : new[j].run = rs[j].run /\ new[j].amount = rs[j].amount
                              /\ new[j].day = rs[j].day
      /\ \A j \in DOMAIN rs \ {i} : new[j].state = rs[j].state
      /\ new[i].state = target
  BY BundlesIn, Zenon DEF Bundle
<1>2. new \in Seq(Bundle)
  BY MovedIsTyped, Zenon
<1> HIDE DEF new
<1>3. T \in SUBSET DOMAIN rs /\ U \in SUBSET DOMAIN rs
  BY <1>1 DEF ChargesIn
<1>4. IsFiniteSet(T) /\ IsFiniteSet(U)
  BY <1>3, DomainIsFinite
<1>5. AmountsIn(new) = AmountsIn(rs)
  BY <1>1 DEF AmountsIn
<1>6. \A j \in DOMAIN rs : AmountsIn(rs)[j] \in Nat /\ AmountsIn(rs)[j] = rs[j].amount
  BY AmountsAreNat
<1>7. mine /\ s = "RESERVED" => i \in T /\ U = T \ {i}
  BY <1>1 DEF ChargesIn
<1>8. mine /\ s = target => i \in U /\ T = U \ {i}
  BY <1>1 DEF ChargesIn
<1>9. ~mine \/ s \notin {"RESERVED", target} => U = T
  BY <1>1 DEF ChargesIn
<1> HIDE DEF T, U, mine
<1>10. ChargedIn(rs, t, d, s) = SumFunctionOnSet(AmountsIn(rs), T)
       /\ ChargedIn(new, t, d, s) = SumFunctionOnSet(AmountsIn(rs), U)
  BY <1>5 DEF ChargedIn, T, U
<1>11. (\A j \in T : AmountsIn(rs)[j] \in Nat) /\ (\A j \in U : AmountsIn(rs)[j] \in Nat)
  BY <1>3, <1>6
<1>12. ASSUME mine, s = "RESERVED"
       PROVE  ChargedIn(rs, t, d, s) = rs[i].amount + ChargedIn(new, t, d, s)
  BY <1>4, <1>6, <1>7, <1>10, <1>11, <1>12, SumWithout
<1>13. ASSUME mine, s = target
       PROVE  ChargedIn(new, t, d, s) = rs[i].amount + ChargedIn(rs, t, d, s)
  BY <1>4, <1>6, <1>8, <1>10, <1>11, <1>13, SumWithout
<1>14. ASSUME ~mine \/ s \notin {"RESERVED", target}
       PROVE  ChargedIn(new, t, d, s) = ChargedIn(rs, t, d, s)
  BY <1>9, <1>10, <1>14
<1> QED BY <1>12, <1>13, <1>14 DEF mine, new, ChargesMove
-----------------------------------------------------------------------------
(* Quotas. *)

\* The limits of a tenant, for its runs with a workload.
Within(rs, t) ==
  /\ Cardinality(rs) <= Policy[t].maxRuns
  /\ \A u \in Users : Cardinality(UserIn(rs, u)) <= Policy[t].maxUserRuns
  /\ SizeOf(rs) <= Policy[t].maxSize

\* The counts and the sum of the quota query are numbers.
LEMMA RunsAreFinite ==
  ASSUME NEW rs \in SUBSET Runs
  PROVE  /\ IsFiniteSet(rs) /\ Cardinality(rs) \in Nat
         /\ \A r \in rs : Size[r] \in Nat
         /\ SizeOf(rs) \in Nat
         /\ \A u : UserIn(rs, u) \in SUBSET rs
<1>1. IsFiniteSet(rs)
  BY AdmissionAssumption, FS_Subset
<1>2. \A r \in rs : Size[r] \in Nat
  BY AdmissionAssumption
<1>3. SizeOf(rs) \in Nat
  BY <1>1, <1>2, SumIsNat DEF SizeOf
<1> QED BY <1>1, <1>2, <1>3, FS_CardinalityType DEF UserIn

\* Fewer runs count no more, for the tenant, for a user and in size.
LEMMA FewerRuns ==
  ASSUME NEW rs \in SUBSET Runs, NEW new \in SUBSET rs
  PROVE  /\ Cardinality(new) <= Cardinality(rs)
         /\ \A u : Cardinality(UserIn(new, u)) <= Cardinality(UserIn(rs, u))
         /\ SizeOf(new) <= SizeOf(rs)
<1>1. IsFiniteSet(rs) /\ \A r \in rs : Size[r] \in Nat
  BY RunsAreFinite, Zenon
<1>2. Cardinality(new) <= Cardinality(rs)
  BY <1>1, FS_Subset
<1>3. ASSUME NEW u PROVE Cardinality(UserIn(new, u)) <= Cardinality(UserIn(rs, u))
  <2>1. UserIn(rs, u) \in SUBSET rs /\ UserIn(new, u) \in SUBSET UserIn(rs, u)
    BY DEF UserIn
  <2>2. IsFiniteSet(UserIn(rs, u))
    BY <1>1, <2>1, FS_Subset
  <2> QED BY <2>1, <2>2, FS_Subset
<1>4. SizeOf(new) <= SizeOf(rs)
  BY <1>1, SumOfPart DEF SizeOf
<1> QED BY <1>2, <1>3, <1>4

\* The limits of a policy are numbers.
LEMMA LimitsAreNat ==
  ASSUME NEW t \in Tenants
  PROVE  /\ Policy[t].maxRuns \in Nat /\ Policy[t].maxUserRuns \in Nat
         /\ Policy[t].maxSize \in Nat /\ Policy[t].daily \in Nat
BY AdmissionAssumption

\* Room stays when runs end.
LEMMA FewerKeepRoom ==
  ASSUME NEW rs \in SUBSET Runs, NEW new \in SUBSET rs, NEW r \in Runs, Room(rs, r)
  PROVE  Room(new, r)
<1>1. TenantOf[r] \in Tenants /\ Size[r] \in Nat
  BY AdmissionAssumption
<1>2. /\ Cardinality(rs) \in Nat /\ Cardinality(new) \in Nat
      /\ SizeOf(rs) \in Nat /\ SizeOf(new) \in Nat
  BY RunsAreFinite
<1>3. /\ Cardinality(UserIn(rs, UserOf[r])) \in Nat
      /\ Cardinality(UserIn(new, UserOf[r])) \in Nat
  <2>1. UserIn(rs, UserOf[r]) \in SUBSET Runs /\ UserIn(new, UserOf[r]) \in SUBSET Runs
    BY DEF UserIn
  <2> QED BY <2>1, RunsAreFinite
<1> QED BY <1>1, <1>2, <1>3, FewerRuns, LimitsAreNat DEF Room

\* Fewer runs stay within the limits.
LEMMA FewerStayWithin ==
  ASSUME NEW rs \in SUBSET Runs, NEW new \in SUBSET rs, NEW t \in Tenants, Within(rs, t)
  PROVE  Within(new, t)
<1>1. /\ Cardinality(rs) \in Nat /\ Cardinality(new) \in Nat
      /\ SizeOf(rs) \in Nat /\ SizeOf(new) \in Nat
  BY RunsAreFinite
<1>2. ASSUME NEW u \in Users PROVE Cardinality(UserIn(new, u)) <= Policy[t].maxUserRuns
  <2>1. UserIn(rs, u) \in SUBSET Runs /\ UserIn(new, u) \in SUBSET Runs
    BY DEF UserIn
  <2>2. Cardinality(UserIn(rs, u)) \in Nat /\ Cardinality(UserIn(new, u)) \in Nat
    BY <2>1, RunsAreFinite
  <2>3. Cardinality(UserIn(rs, u)) <= Policy[t].maxUserRuns /\ Policy[t].maxUserRuns \in Nat
    BY LimitsAreNat DEF Within
  <2>4. Cardinality(UserIn(new, u)) <= Cardinality(UserIn(rs, u))
    BY FewerRuns
  <2> QED BY <2>2, <2>3, <2>4
<1> QED BY <1>1, <1>2, FewerRuns, LimitsAreNat DEF Within

\* A tenant with room for a run stays within its limits when the run is started.
LEMMA OneMoreStaysWithin ==
  ASSUME NEW rs \in SUBSET Runs, NEW r \in Runs, Room(rs, r), Within(rs, TenantOf[r])
  PROVE  Within(rs \cup {r}, TenantOf[r])
<1> DEFINE t == TenantOf[r]
<1>1. /\ t \in Tenants /\ Size[r] \in Nat /\ UserOf[r] \in Users
      /\ Policy[t].maxRuns \in Nat /\ Policy[t].maxUserRuns \in Nat /\ Policy[t].maxSize \in Nat
  BY AdmissionAssumption
<1>2. CASE r \in rs
  <2>1. rs \cup {r} = rs
    BY <1>2
  <2> QED BY <2>1
<1>3. CASE r \notin rs
  <2> DEFINE new == rs \cup {r}
  <2>1. IsFiniteSet(rs) /\ Cardinality(rs) \in Nat /\ SizeOf(rs) \in Nat
        /\ \A x \in rs : Size[x] \in Nat
    BY RunsAreFinite
  <2>2. Cardinality(new) = Cardinality(rs) + 1
    BY <1>3, <2>1, FS_AddElement, Zenon
  <2>3. ASSUME NEW u \in Users PROVE Cardinality(UserIn(new, u)) <= Policy[t].maxUserRuns
    <3>1. UserIn(rs, u) \in SUBSET Runs /\ r \notin UserIn(rs, u)
      BY <1>3 DEF UserIn
    <3>2. IsFiniteSet(UserIn(rs, u)) /\ Cardinality(UserIn(rs, u)) \in Nat
      BY <3>1, RunsAreFinite
    <3>3. CASE u = UserOf[r]
      <4>1. UserIn(new, u) = UserIn(rs, u) \cup {r}
        BY <3>3 DEF UserIn
      <4>2. Cardinality(UserIn(new, u)) = Cardinality(UserIn(rs, u)) + 1
        BY <3>1, <3>2, <4>1, FS_AddElement, Zenon
      <4> QED BY <1>1, <3>2, <3>3, <4>2 DEF Room
    <3>4. CASE u # UserOf[r]
      <4>1. UserIn(new, u) = UserIn(rs, u)
        BY <3>4 DEF UserIn
      <4> QED BY <4>1 DEF Within
    <3> QED BY <3>3, <3>4
  <2>4. SizeOf(new) = Size[r] + SizeOf(rs)
    <3>1. r \in new /\ rs = new \ {r}
      BY <1>3
    <3> HIDE DEF new
    <3> QED BY <1>1, <2>1, <3>1, SumWith DEF SizeOf
  <2> QED BY <1>1, <2>1, <2>2, <2>3, <2>4 DEF Room, Within
<1> QED BY <1>2, <1>3
-----------------------------------------------------------------------------
(* What a step does to the transactions. *)

\* The rows a transaction has locked.
Rows(x) == RunHeld(x) \cup PolicyHeld(x) \cup ClusterHeld(x)

\* A transaction goes on: the rows it locks were free, and what it goes on with
\* is true.
Proceeds(p, x) ==
  /\ tx' = [tx EXCEPT ![p] = x]
  /\ Started(x, now)
  /\ \/ Rows(x) \subseteq Rows(tx[p])
     \/ Granted(p) /\ Rows(x) \subseteq Rows(tx[p]) \cup Wants(p)
  /\ HasRoom(x, run)
  /\ Fits(x, cluster, reservations)

TxStep == tx' = tx \/ \E p \in Procs, x \in Transaction : Proceeds(p, x)

\* A transaction that begins or ends has no lock.
LEMMA Begins ==
  ASSUME NEW p \in Procs, NEW x \in Transaction, tx' = [tx EXCEPT ![p] = x],
         x.stage \in {"idle", "claimed", "requested"}, Started(x, now)
  PROVE  TxStep
<1>1. Rows(x) = {}
  BY DEF Rows, RunHeld, PolicyHeld, ClusterHeld
<1>2. HasRoom(x, run) /\ Fits(x, cluster, reservations)
  BY DEF HasRoom, Fits
<1> QED BY <1>1, <1>2, Zenon DEF TxStep, Proceeds

\* A commit, a rollback or a crash ends a transaction.
LEMMA Ends ==
  ASSUME NEW p \in Procs, Become(p, Idle)
  PROVE  TxStep
<1>1. Idle \in Transaction /\ Idle.stage = "idle" /\ tx' = [tx EXCEPT ![p] = Idle]
  BY DEF Idle, Transaction, Stages, Become
<1>2. Started(Idle, now)
  BY DEF Started, Idle
<1> QED BY <1>1, <1>2, Begins, Zenon

\* No transaction that is admitted misses a run with a workload.
LEMMA EligibleHasRoom ==
  ASSUME NEW r \in Runs, NEW at, "ELIGIBLE" \in Eligibility(r, at), TypeOK
  PROVE  Room(WorkingIn(run, TenantOf[r]), r)
<1> DEFINE t == TenantOf[r]
<1>1. ~Blocked(r, at)
  BY DEF Eligibility
<1>2. t \in Tenants /\ Size[r] \in Nat
  BY AdmissionAssumption
<1>3. Active(t) \in SUBSET Runs /\ WorkingIn(run, t) \in SUBSET Active(t)
  BY DEF Active, WorkingIn
<1>4. UserIn(Active(t), UserOf[r]) = {a \in Active(t) : UserOf[a] = UserOf[r]}
  BY DEF UserIn
<1>5. /\ Cardinality(Active(t)) \in Nat /\ SizeOf(Active(t)) \in Nat
      /\ UserIn(Active(t), UserOf[r]) \in SUBSET Runs
  BY <1>3, RunsAreFinite
<1>6. Cardinality(UserIn(Active(t), UserOf[r])) \in Nat
  BY <1>5, RunsAreFinite
<1>7. Room(Active(t), r)
  BY <1>1, <1>2, <1>4, <1>5, <1>6, LimitsAreNat DEF Blocked, Room
<1> QED BY <1>3, <1>7, FewerKeepRoom

\* The newest report is one of the reports.
LEMMA LatestIsReported ==
  ASSUME TypeOK, NEW k \in Clusters
  PROVE  Latest(k) \in ReportsIn(cluster, k) /\ Latest(k) \in Nat
<1>1. cluster[k].reports \in Seq(Nat) \ {<<>>}
  BY DEF TypeOK, ClusterRecord
<1>2. /\ Len(cluster[k].reports) \in DOMAIN cluster[k].reports
      /\ cluster[k].reports[Len(cluster[k].reports)] \in Nat
  BY <1>1
<1> QED BY <1>2 DEF Latest, ReportsIn

\* ReservedOn is the sum over the reservations of this state.
LEMMA ReservedOnIn ==
  ASSUME NEW k, NEW at
  PROVE  ReservedOn(k, at) = ReservedIn(reservations, k, at)
BY DEF ReservedOn, Counted, ReservedIn, CountedIn, SizesIn

\* Every step starts, ends or advances a transaction as TxStep allows.
LEMMA TxSteps ==
  ASSUME AdmissionInv, [Next]_vars
  PROVE  TxStep
<1> USE AdmissionAssumption
<1>1. /\ TypeOK /\ now \in Nat
      /\ \A p \in Procs : /\ tx[p] \in Transaction /\ Started(tx[p], now)
                          /\ HasRoom(tx[p], run) /\ Fits(tx[p], cluster, reservations)
  BY DEF AdmissionInv, TypeOK
<1>2. \A at \in Readings : at \in Nat /\ at <= now
  BY <1>1 DEF Readings
<1>0. \A p \in Procs : /\ tx[p] \in Transaction
                       /\ tx[p].stage # "idle" => tx[p].run \in Runs /\ tx[p].at <= now
  BY <1>1 DEF Started
<1>3. ASSUME NEW p \in Workers, Evaluate(p) PROVE TxStep
  <2>1. p \in Procs /\ tx[p].stage = "claimed" /\ Granted(p)
    BY <1>3 DEF Evaluate, Procs
  <2>2. tx[p] \in Transaction /\ tx[p].run \in Runs /\ tx[p].at <= now
    BY <1>0, <2>1
  <2>3. PICK at \in Readings : \E decision \in Eligibility(tx[p].run, at) :
          tx' = [tx EXCEPT ![p] = [tx[p] EXCEPT !.stage = "evaluating", !.at = at, !.decision = decision]]
    BY <1>3, Zenon DEF Evaluate, Become
  <2>4. PICK decision \in Eligibility(tx[p].run, at) :
          tx' = [tx EXCEPT ![p] = [tx[p] EXCEPT !.stage = "evaluating", !.at = at, !.decision = decision]]
    BY <2>3, Zenon
  <2> DEFINE x == [tx[p] EXCEPT !.stage = "evaluating", !.at = at, !.decision = decision]
  <2>5. /\ tx' = [tx EXCEPT ![p] = x] /\ x \in Transaction /\ x.stage = "evaluating"
        /\ x.run = tx[p].run /\ x.at <= now
    BY <1>1, <2>2, <2>4, <1>2, Zenon DEF Eligibility, Transaction, Stages
  <2> HIDE DEF x
  <2>6. Started(x, now)
    BY <2>2, <2>5 DEF Started
  <2>7. Rows(x) \subseteq Rows(tx[p]) \cup Wants(p)
    BY <2>1, <2>5 DEF Rows, RunHeld, PolicyHeld, ClusterHeld, Wants
  <2>8. HasRoom(x, run)
    BY <2>5 DEF HasRoom
  <2>9. Fits(x, cluster, reservations)
    BY <2>5 DEF Fits
  <2> QED BY <2>1, <2>5, <2>6, <2>7, <2>8, <2>9, Zenon DEF TxStep, Proceeds
<1>4. ASSUME NEW p \in Workers, RecordDecision(p) PROVE TxStep
  <2>1. p \in Procs /\ tx[p].stage = "evaluating" /\ Granted(p)
    BY <1>4 DEF RecordDecision, Procs
  <2>2. tx[p] \in Transaction /\ tx[p].run \in Runs /\ tx[p].at <= now
    BY <1>0, <2>1
  <2>4. tx' = [tx EXCEPT ![p] = [tx[p] EXCEPT !.stage = "evaluated"]]
    BY <1>4 DEF RecordDecision, At, Become
  <2> DEFINE x == [tx[p] EXCEPT !.stage = "evaluated"]
  <2>5. /\ tx' = [tx EXCEPT ![p] = x] /\ x \in Transaction /\ x.stage = "evaluated"
        /\ x.run = tx[p].run /\ x.cluster = tx[p].cluster /\ x.at = tx[p].at /\ x.capacity = tx[p].capacity
    BY <1>1, <2>2, <2>4 DEF Transaction, Stages
  <2> HIDE DEF x
  <2>6. Started(x, now)
    BY <2>2, <2>5 DEF Started
  <2>7. Rows(x) \subseteq Rows(tx[p]) \cup Wants(p)
    BY <2>1, <2>5 DEF Rows, RunHeld, PolicyHeld, ClusterHeld, Wants
  <2>8. HasRoom(x, run)
    BY <2>5 DEF HasRoom
  <2>9. Fits(x, cluster, reservations)
    BY <2>5 DEF Fits
  <2> QED BY <2>1, <2>5, <2>6, <2>7, <2>8, <2>9, Zenon DEF TxStep, Proceeds
<1>5. ASSUME NEW p \in Workers, Renew(p) PROVE TxStep
  <2>1. p \in Procs /\ tx[p].stage = "evaluated" /\ Granted(p)
    BY <1>5 DEF Renew, Procs
  <2>2. tx[p] \in Transaction /\ tx[p].run \in Runs /\ tx[p].at <= now
    BY <1>0, <2>1
  <2>4. PICK at \in Readings :
          tx' = [tx EXCEPT ![p] = [tx[p] EXCEPT !.stage = "renewed", !.at = at]]
    BY <1>5, Zenon DEF Renew, Become
  <2> DEFINE x == [tx[p] EXCEPT !.stage = "renewed", !.at = at]
  <2>5. /\ tx' = [tx EXCEPT ![p] = x] /\ x \in Transaction /\ x.stage = "renewed"
        /\ x.run = tx[p].run /\ x.at <= now
    BY <1>1, <2>2, <2>4, <1>2, Zenon DEF Transaction, Stages
  <2> HIDE DEF x
  <2>6. Started(x, now)
    BY <2>2, <2>5 DEF Started
  <2>7. Rows(x) \subseteq Rows(tx[p]) \cup Wants(p)
    BY <2>1, <2>5 DEF Rows, RunHeld, PolicyHeld, ClusterHeld, Wants
  <2>8. HasRoom(x, run)
    BY <2>5 DEF HasRoom
  <2>9. Fits(x, cluster, reservations)
    BY <2>5 DEF Fits
  <2> QED BY <2>1, <2>5, <2>6, <2>7, <2>8, <2>9, Zenon DEF TxStep, Proceeds
<1>6. ASSUME NEW p \in Workers, ScheduleRun(p) PROVE TxStep
  <2>1. p \in Procs /\ tx[p].stage = "renewed" /\ Granted(p)
    BY <1>6 DEF ScheduleRun, Procs
  <2>2. tx[p] \in Transaction /\ tx[p].run \in Runs /\ tx[p].at <= now
    BY <1>0, <2>1
  <2>4. PICK k \in Candidates(tx[p].run) :
          tx' = [tx EXCEPT ![p] = [tx[p] EXCEPT !.stage = "locked", !.cluster = k]]
    BY <1>6, Zenon DEF ScheduleRun, Become
  <2> DEFINE x == [tx[p] EXCEPT !.stage = "locked", !.cluster = k]
  <2>5. /\ tx' = [tx EXCEPT ![p] = x] /\ x \in Transaction /\ x.stage = "locked"
        /\ x.run = tx[p].run /\ x.at = tx[p].at /\ x.cluster \in Clusters
    BY <1>1, <2>2, <2>4, Zenon DEF Candidates, Transaction, Stages
  <2> HIDE DEF x
  <2>6. Started(x, now)
    BY <2>2, <2>5 DEF Started
  <2>7. Rows(x) \subseteq Rows(tx[p]) \cup Wants(p)
    BY <2>1, <2>5 DEF Rows, RunHeld, PolicyHeld, ClusterHeld, Wants
  <2>8. HasRoom(x, run)
    BY <2>5 DEF HasRoom
  <2>9. Fits(x, cluster, reservations)
    BY <2>5 DEF Fits
  <2> QED BY <2>1, <2>5, <2>6, <2>7, <2>8, <2>9, Zenon DEF TxStep, Proceeds
<1>7. ASSUME NEW p \in Workers, SchedulePolicy(p) PROVE TxStep
  <2>1. p \in Procs /\ tx[p].stage = "locked" /\ Granted(p)
    BY <1>7 DEF SchedulePolicy, Procs
  <2>2. tx[p] \in Transaction /\ tx[p].run \in Runs /\ tx[p].at <= now
    BY <1>0, <2>1
  <2>3. tx[p].cluster \in Clusters
    BY <1>1, <2>1 DEF Started
  <2>4. tx' = [tx EXCEPT ![p] = [tx[p] EXCEPT !.stage = "admitted"]]
    BY <1>7 DEF SchedulePolicy, At, Become
  <2> DEFINE x == [tx[p] EXCEPT !.stage = "admitted"]
  <2>5. /\ tx' = [tx EXCEPT ![p] = x] /\ x \in Transaction /\ x.stage = "admitted"
        /\ x.run = tx[p].run /\ x.cluster = tx[p].cluster /\ x.at = tx[p].at /\ x.capacity = tx[p].capacity
    BY <1>1, <2>2, <2>4, <2>3 DEF Transaction, Stages
  <2> HIDE DEF x
  <2>6. Started(x, now)
    BY <2>2, <2>3, <2>5 DEF Started
  <2>7. Rows(x) \subseteq Rows(tx[p]) \cup Wants(p)
    BY <2>1, <2>5 DEF Rows, RunHeld, PolicyHeld, ClusterHeld, Wants
  <2>8. HasRoom(x, run)
    <3>1. Room(WorkingIn(run, TenantOf[tx[p].run]), tx[p].run)
      BY <1>1, <1>7, <2>2, EligibleHasRoom DEF SchedulePolicy
    <3> QED BY <2>5, <3>1 DEF HasRoom
  <2>9. Fits(x, cluster, reservations)
    BY <2>5 DEF Fits
  <2> QED BY <2>1, <2>5, <2>6, <2>7, <2>8, <2>9, Zenon DEF TxStep, Proceeds
<1>8. ASSUME NEW p \in Workers, ScheduleAsk(p) PROVE TxStep
  <2>1. p \in Procs /\ tx[p].stage = "admitted"
    BY <1>8 DEF ScheduleAsk, Procs
  <2>2. tx[p] \in Transaction /\ tx[p].run \in Runs /\ tx[p].at <= now
    BY <1>0, <2>1
  <2>3. tx[p].cluster \in Clusters
    BY <1>1, <2>1 DEF Started
  <2>4. tx' = [tx EXCEPT ![p] = [tx[p] EXCEPT !.stage = "asked", !.capacity = Latest(tx[p].cluster)]]
    BY <1>8 DEF ScheduleAsk, Become
  <2> DEFINE x == [tx[p] EXCEPT !.stage = "asked", !.capacity = Latest(tx[p].cluster)]
  <2>5. /\ tx' = [tx EXCEPT ![p] = x] /\ x \in Transaction /\ x.stage = "asked"
        /\ x.run = tx[p].run /\ x.cluster = tx[p].cluster /\ x.at = tx[p].at /\ x.capacity = Latest(tx[p].cluster)
    BY <1>1, <2>2, <2>4, <2>3, LatestIsReported, Zenon DEF Transaction, Stages
  <2> HIDE DEF x
  <2>6. Started(x, now)
    BY <2>2, <2>3, <2>5 DEF Started
  <2>7. Rows(x) \subseteq Rows(tx[p])
    BY <2>1, <2>5 DEF Rows, RunHeld, PolicyHeld, ClusterHeld, Wants
  <2>8. HasRoom(x, run)
    BY <1>1, <2>1, <2>5 DEF HasRoom
  <2>9. Fits(x, cluster, reservations)
    BY <1>1, <2>3, <2>5, LatestIsReported DEF Fits
  <2> QED BY <2>1, <2>5, <2>6, <2>7, <2>8, <2>9, Zenon DEF TxStep, Proceeds
<1>9. ASSUME NEW p \in Workers, ScheduleCluster(p) PROVE TxStep
  <2>1. p \in Procs /\ tx[p].stage = "asked" /\ Granted(p)
    BY <1>9 DEF ScheduleCluster, Procs
  <2>2. tx[p] \in Transaction /\ tx[p].run \in Runs /\ tx[p].at <= now
    BY <1>0, <2>1
  <2>3. tx[p].cluster \in Clusters
    BY <1>1, <2>1 DEF Started
  <2>4. tx' = [tx EXCEPT ![p] = [tx[p] EXCEPT !.stage = "placed"]]
    BY <1>9 DEF ScheduleCluster, At, Become
  <2> DEFINE x == [tx[p] EXCEPT !.stage = "placed"]
  <2>5. /\ tx' = [tx EXCEPT ![p] = x] /\ x \in Transaction /\ x.stage = "placed"
        /\ x.run = tx[p].run /\ x.cluster = tx[p].cluster /\ x.at = tx[p].at /\ x.capacity = tx[p].capacity
    BY <1>1, <2>2, <2>4, <2>3 DEF Transaction, Stages
  <2> HIDE DEF x
  <2>6. Started(x, now)
    BY <2>2, <2>3, <2>5 DEF Started
  <2>7. Rows(x) \subseteq Rows(tx[p]) \cup Wants(p)
    BY <2>1, <2>5 DEF Rows, RunHeld, PolicyHeld, ClusterHeld, Wants
  <2>8. HasRoom(x, run)
    BY <1>1, <2>1, <2>5 DEF HasRoom
  <2>9. Fits(x, cluster, reservations)
    <3>1. tx[p].capacity \in ReportsIn(cluster, tx[p].cluster)
      BY <1>1, <2>1 DEF Fits
    <3>2. tx[p].capacity - ReservedIn(reservations, tx[p].cluster, tx[p].at) >= Size[tx[p].run]
      BY <1>9, ReservedOnIn DEF ScheduleCluster
    <3>3. /\ tx[p].capacity \in Nat /\ Size[tx[p].run] \in Nat
          /\ ReservedIn(reservations, tx[p].cluster, tx[p].at) \in Nat
      BY <1>1, <2>2, ReservedIsNat DEF TypeOK, Transaction
    <3> QED BY <2>5, <3>1, <3>2, <3>3 DEF Fits
  <2> QED BY <2>1, <2>5, <2>6, <2>7, <2>8, <2>9, Zenon DEF TxStep, Proceeds
<1>10. ASSUME NEW p \in Callers, ReservePolicy(p) PROVE TxStep
  <2>1. p \in Procs /\ tx[p].stage = "requested" /\ Granted(p)
    BY <1>10 DEF ReservePolicy, Procs
  <2>2. tx[p] \in Transaction /\ tx[p].run \in Runs /\ tx[p].at <= now
    BY <1>0, <2>1
  <2>3. tx[p].cluster \in Clusters
    BY <1>1, <2>1 DEF Started
  <2>4. tx' = [tx EXCEPT ![p] = [tx[p] EXCEPT !.stage = "reserving"]]
    BY <1>10 DEF ReservePolicy, At, Become
  <2> DEFINE x == [tx[p] EXCEPT !.stage = "reserving"]
  <2>5. /\ tx' = [tx EXCEPT ![p] = x] /\ x \in Transaction /\ x.stage = "reserving"
        /\ x.run = tx[p].run /\ x.cluster = tx[p].cluster /\ x.at = tx[p].at /\ x.capacity = tx[p].capacity
    BY <1>1, <2>2, <2>4, <2>3 DEF Transaction, Stages
  <2> HIDE DEF x
  <2>6. Started(x, now)
    BY <2>2, <2>3, <2>5 DEF Started
  <2>7. Rows(x) \subseteq Rows(tx[p]) \cup Wants(p)
    BY <2>1, <2>5 DEF Rows, RunHeld, PolicyHeld, ClusterHeld, Wants
  <2>8. HasRoom(x, run)
    BY <2>5 DEF HasRoom
  <2>9. Fits(x, cluster, reservations)
    BY <2>5 DEF Fits
  <2> QED BY <2>1, <2>5, <2>6, <2>7, <2>8, <2>9, Zenon DEF TxStep, Proceeds
<1>11. ASSUME NEW p \in Callers, ReserveCluster(p) PROVE TxStep
  <2>1. p \in Procs /\ tx[p].stage = "reserving" /\ Granted(p)
    BY <1>11 DEF ReserveCluster, Procs
  <2>2. tx[p] \in Transaction /\ tx[p].run \in Runs /\ tx[p].at <= now
    BY <1>0, <2>1
  <2>3. tx[p].cluster \in Clusters
    BY <1>1, <2>1 DEF Started
  <2>4. tx' = [tx EXCEPT ![p] = [tx[p] EXCEPT !.stage = "reserved"]]
    BY <1>11 DEF ReserveCluster, At, Become
  <2> DEFINE x == [tx[p] EXCEPT !.stage = "reserved"]
  <2>5. /\ tx' = [tx EXCEPT ![p] = x] /\ x \in Transaction /\ x.stage = "reserved"
        /\ x.run = tx[p].run /\ x.cluster = tx[p].cluster /\ x.at = tx[p].at /\ x.capacity = tx[p].capacity
    BY <1>1, <2>2, <2>4, <2>3 DEF Transaction, Stages
  <2> HIDE DEF x
  <2>6. Started(x, now)
    BY <2>2, <2>3, <2>5 DEF Started
  <2>7. Rows(x) \subseteq Rows(tx[p]) \cup Wants(p)
    BY <2>1, <2>5 DEF Rows, RunHeld, PolicyHeld, ClusterHeld, Wants
  <2>8. HasRoom(x, run)
    BY <2>5 DEF HasRoom
  <2>9. Fits(x, cluster, reservations)
    <3>1. Latest(tx[p].cluster) \in ReportsIn(cluster, tx[p].cluster) /\ Latest(tx[p].cluster) \in Nat
      BY <1>1, <2>3, LatestIsReported
    <3>2. Latest(tx[p].cluster) - ReservedIn(reservations, tx[p].cluster, tx[p].at) >= Size[tx[p].run]
      BY <1>11, ReservedOnIn DEF ReserveCluster
    <3>3. /\ Size[tx[p].run] \in Nat
          /\ ReservedIn(reservations, tx[p].cluster, tx[p].at) \in Nat
      BY <1>1, <2>2, ReservedIsNat DEF TypeOK
    <3> QED BY <2>5, <3>1, <3>2, <3>3 DEF Fits
  <2> QED BY <2>1, <2>5, <2>6, <2>7, <2>8, <2>9, Zenon DEF TxStep, Proceeds
<1>12. ASSUME NEW p \in Workers, NEW r \in Runs, Claim(p, r) PROVE TxStep
  <2> DEFINE x == [Idle EXCEPT !.stage = "claimed", !.run = r, !.attempt = run[r].attempt]
  <2>1. tx' = [tx EXCEPT ![p] = x]
    BY <1>12 DEF Claim, Become
  <2>2. x \in Transaction /\ x.stage = "claimed" /\ x.run = r /\ x.at = 0
    BY <1>1, Zenon DEF Idle, Transaction, Stages, TypeOK, RunRecord
  <2> HIDE DEF x
  <2>3. Started(x, now) /\ p \in Procs
    BY <1>1, <2>2 DEF Started, Procs
  <2> QED BY <2>1, <2>2, <2>3, Begins, Zenon DEF x
<1>13. ASSUME NEW p \in Callers, NEW r \in Runs, NEW k \in Clusters, Ask(p, r, k) PROVE TxStep
  <2>1. PICK at \in Readings :
          tx' = [tx EXCEPT ![p] = [Idle EXCEPT !.stage = "requested", !.run = r,
                   !.attempt = run[r].attempt, !.cluster = k, !.at = at]]
    BY <1>13, Zenon DEF Ask, Become
  <2> DEFINE x == [Idle EXCEPT !.stage = "requested", !.run = r,
                   !.attempt = run[r].attempt, !.cluster = k, !.at = at]
  <2>2. x \in Transaction /\ x.stage = "requested" /\ x.run = r /\ x.cluster = k /\ x.at <= now
    BY <1>1, <1>2, Zenon DEF Idle, Transaction, Stages, TypeOK, RunRecord
  <2> HIDE DEF x
  <2>3. Started(x, now) /\ p \in Procs
    BY <2>2 DEF Started, Procs
  <2> QED BY <2>1, <2>2, <2>3, Begins, Zenon DEF x
<1>14. ASSUME NEW p \in Procs,
              Defer(p) \/ Reject(p) \/ ScheduleCommit(p) \/ ReserveCommit(p) \/ Abort(p)
       PROVE  TxStep
  BY <1>14, Ends DEF Defer, Reject, ScheduleCommit, ReserveCommit, Abort
<1>15. ASSUME \/ \E r \in Runs, m \in 1..MaxAttempts, target \in Recovery : Transition(r, m, target)
              \/ SelectExpired \/ ReclaimNext
              \/ \E r \in Runs : Cancel(r) \/ Finish(r) \/ Retry(r)
              \/ \E k \in Clusters : UpdateCluster(k)
              \/ Tick \/ UNCHANGED vars
       PROVE  TxStep
  BY <1>15, Zenon DEF Transition, SelectExpired, ReclaimNext, Cancel, Finish, Retry, UpdateCluster,
               Tick, vars, TxStep
<1> QED
  BY <1>3, <1>4, <1>5, <1>6, <1>7, <1>8, <1>9, <1>10, <1>11, <1>12, <1>13, <1>14, <1>15 DEF Next, Worker, Repository, Procs
-----------------------------------------------------------------------------
(* What a step does to the rows. *)

\* The commit of Schedule.
Schedules(p) ==
  /\ tx[p].stage = "placed"
  /\ tx' = [tx EXCEPT ![p] = Idle]
  /\ \A t \in Tenants :
       WorkingIn(run', t) \subseteq IF t = TenantOf[tx[p].run] THEN WorkingIn(run, t) \cup {tx[p].run}
                                    ELSE WorkingIn(run, t)

RunStep ==
  \/ \A t \in Tenants : WorkingIn(run', t) \subseteq WorkingIn(run, t)
  \/ \E p \in Procs : Schedules(p)

\* One run changes, and has no workload that it did not have before.
LEMMA Changes ==
  ASSUME TypeOK, WaitingIsUnassigned, NEW r \in Runs, NEW y \in RunRecord,
         run' = [run EXCEPT ![r] = y],
         y.status = "WAITING" => ~y.assigned,
         y.assigned /\ y.status \in {"EXECUTING", "CANCELLING"}
           => run[r].assigned /\ run[r].status \in {"EXECUTING", "CANCELLING"}
  PROVE  run' \in [Runs -> RunRecord] /\ WaitingIsUnassigned' /\ RunStep
<1>1. run' \in [Runs -> RunRecord] /\ run'[r] = y /\ \A q \in Runs \ {r} : run'[q] = run[q]
  BY DEF TypeOK
<1>2. WaitingIsUnassigned'
  BY <1>1 DEF WaitingIsUnassigned
<1>3. \A t \in Tenants : WorkingIn(run', t) \subseteq WorkingIn(run, t)
  BY <1>1 DEF WorkingIn
<1> QED BY <1>1, <1>2, <1>3, Zenon DEF RunStep

\* Every step changes the runs as RunStep allows.
LEMMA RunSteps ==
  ASSUME AdmissionInv, [Next]_vars
  PROVE  run' \in [Runs -> RunRecord] /\ WaitingIsUnassigned' /\ RunStep
<1> DEFINE Goal == run' \in [Runs -> RunRecord] /\ WaitingIsUnassigned' /\ RunStep
<1>1. /\ TypeOK /\ WaitingIsUnassigned
      /\ \A p \in Procs : tx[p] \in Transaction /\ Started(tx[p], now)
      /\ \A r \in Runs : run[r] \in RunRecord
  BY DEF AdmissionInv, TypeOK
<1>2. ASSUME NEW p \in Workers, NEW r \in Runs, Claim(p, r) PROVE Goal
  <2> DEFINE y == [run[r] EXCEPT !.owner = p]
  <2>1. run' = [run EXCEPT ![r] = y] /\ y \in RunRecord
        /\ y.status = run[r].status /\ y.assigned = run[r].assigned
    BY <1>1, <1>2 DEF Claim, RunRecord
  <2>2. run[r].status = "WAITING" => ~run[r].assigned
    BY <1>1 DEF WaitingIsUnassigned
  <2> HIDE DEF y
  <2> QED BY <1>1, <2>1, <2>2, Changes, Zenon
<1>3. ASSUME NEW p \in Workers, Defer(p) \/ Reject(p) PROVE Goal
  <2> DEFINE r == tx[p].run
  <2>1. p \in Procs /\ tx[p].stage = "renewed" /\ run[r].status = "WAITING"
    BY <1>3 DEF Defer, Reject, Procs, Owns
  <2>2. r \in Runs
    BY <1>1, <2>1 DEF Started
  <2>3. ~run[r].assigned
    BY <1>1, <2>1, <2>2 DEF WaitingIsUnassigned
  <2>4. CASE Defer(p)
    <3> DEFINE y == [run[r] EXCEPT !.owner = None]
    <3>1. run' = [run EXCEPT ![r] = y]
      BY <2>4 DEF Defer
    <3>2. y \in RunRecord /\ y.assigned = run[r].assigned
      BY <1>1, <2>2 DEF RunRecord
    <3> HIDE DEF y, r
    <3> QED BY <1>1, <2>2, <2>3, <3>1, <3>2, Changes, Zenon
  <2>5. CASE Reject(p)
    <3> DEFINE y == [run[r] EXCEPT !.status = "DONE", !.owner = None]
    <3>1. run' = [run EXCEPT ![r] = y]
      BY <1>1, <2>2, <2>5, Zenon DEF Reject, TypeOK
    <3>2. y \in RunRecord /\ y.assigned = run[r].assigned
      BY <1>1, <2>2, Zenon DEF RunRecord
    <3> HIDE DEF y, r
    <3> QED BY <1>1, <2>2, <2>3, <3>1, <3>2, Changes, Zenon
  <2> QED BY <1>3, <2>4, <2>5
<1>4. ASSUME NEW p \in Workers, ScheduleCommit(p) PROVE Goal
  <2> DEFINE r == tx[p].run
             y == [run[r] EXCEPT !.status = "EXECUTING", !.owner = None, !.assigned = TRUE]
  <2>1. p \in Procs /\ tx[p].stage = "placed" /\ tx' = [tx EXCEPT ![p] = Idle]
    BY <1>4 DEF ScheduleCommit, Procs, Become
  <2>2. r \in Runs
    BY <1>1, <2>1 DEF Started
  <2>3. run' = [run EXCEPT ![r] = y]
    BY <1>1, <1>4, <2>2, Zenon DEF ScheduleCommit, TypeOK
  <2>4. y \in RunRecord /\ y.status = "EXECUTING"
    BY <1>1, <2>2, Zenon DEF RunRecord
  <2> HIDE DEF y, r
  <2>5. run' \in [Runs -> RunRecord] /\ run'[r] = y /\ \A q \in Runs \ {r} : run'[q] = run[q]
    BY <1>1, <2>2, <2>3, <2>4 DEF TypeOK
  <2>6. WaitingIsUnassigned'
    BY <1>1, <2>4, <2>5 DEF WaitingIsUnassigned
  <2>7. \A t \in Tenants :
          WorkingIn(run', t) \subseteq IF t = TenantOf[r] THEN WorkingIn(run, t) \cup {r}
                                       ELSE WorkingIn(run, t)
    BY <2>5 DEF WorkingIn
  <2> QED BY <2>1, <2>5, <2>6, <2>7, Zenon DEF RunStep, Schedules, r
<1>5. ASSUME NEW r \in Runs, Cancel(r) PROVE Goal
  <2> DEFINE y == [run[r] EXCEPT !.status = "CANCELLING", !.owner = None]
  <2>1. run' = [run EXCEPT ![r] = y] /\ run[r].status \in {"WAITING", "EXECUTING"}
    BY <1>1, <1>5, Zenon DEF Cancel, TypeOK
  <2>2. y \in RunRecord /\ y.status = "CANCELLING" /\ y.assigned = run[r].assigned
    BY <1>1, Zenon DEF RunRecord
  <2>3. run[r].assigned => run[r].status = "EXECUTING"
    BY <1>1, <2>1 DEF WaitingIsUnassigned
  <2> HIDE DEF y
  <2> QED BY <1>1, <2>1, <2>2, <2>3, Changes, Zenon
<1>6. ASSUME NEW r \in Runs, Finish(r) PROVE Goal
  <2> DEFINE y == [run[r] EXCEPT !.status = "DONE"]
  <2>1. run' = [run EXCEPT ![r] = y]
    BY <1>6 DEF Finish
  <2>2. y \in RunRecord /\ y.status = "DONE"
    BY <1>1 DEF RunRecord
  <2> HIDE DEF y
  <2> QED BY <1>1, <2>1, <2>2, Changes, Zenon
<1>7. ASSUME NEW r \in Runs, Retry(r) PROVE Goal
  <2> DEFINE y == [run[r] EXCEPT !.status = "WAITING", !.attempt = @ + 1, !.assigned = FALSE]
  <2>1. run' = [run EXCEPT ![r] = y]
    BY <1>1, <1>7, Zenon DEF Retry, TypeOK
  <2>2. y \in RunRecord /\ y.assigned = FALSE
    <3>1. run[r].attempt + 1 \in Nat
      BY <1>1 DEF RunRecord
    <3>2. [run[r] EXCEPT !.status = "WAITING", !.assigned = FALSE] \in RunRecord
      BY <1>1, Zenon DEF RunRecord
    <3> QED BY <1>1, <3>1, <3>2, Zenon DEF RunRecord
  <2> HIDE DEF y
  <2> QED BY <1>1, <2>1, <2>2, Changes, Zenon
<1>8. ASSUME UNCHANGED run PROVE Goal
  BY <1>1, <1>8 DEF TypeOK, WaitingIsUnassigned, RunStep
<1>9. ASSUME NEW p \in Procs,
             \/ Evaluate(p) \/ RecordDecision(p) \/ Renew(p) \/ ScheduleRun(p) \/ SchedulePolicy(p)
             \/ ScheduleAsk(p) \/ ScheduleCluster(p) \/ ReservePolicy(p) \/ ReserveCluster(p)
             \/ ReserveCommit(p) \/ Abort(p) \/ \E r \in Runs, k \in Clusters : Ask(p, r, k)
      PROVE  UNCHANGED run
  BY <1>9, Zenon DEF Evaluate, RecordDecision, Renew, ScheduleRun, SchedulePolicy, ScheduleAsk,
              ScheduleCluster, ReservePolicy, ReserveCluster, ReserveCommit, Abort, Ask
<1>10. ASSUME \/ \E r \in Runs, m \in 1..MaxAttempts, target \in Recovery : Transition(r, m, target)
              \/ SelectExpired \/ ReclaimNext
              \/ \E k \in Clusters : UpdateCluster(k)
              \/ Tick \/ UNCHANGED vars
       PROVE  UNCHANGED run
  BY <1>10 DEF Transition, SelectExpired, ReclaimNext, UpdateCluster, Tick, vars
<1> HIDE DEF Goal
<1>11. Goal
  BY <1>2, <1>3, <1>4, <1>5, <1>6, <1>7, <1>8, <1>9, <1>10 DEF Next, Worker, Repository, Procs
<1> QED BY <1>11 DEF Goal

\* Time goes on, and what a cluster has reported is kept.
LEMMA ClusterSteps ==
  ASSUME AdmissionInv, [Next]_vars
  PROVE  /\ now' \in 0..MaxClock /\ now <= now'
         /\ cluster' \in [Clusters -> ClusterRecord]
         /\ \A k \in Clusters : ReportsIn(cluster, k) \subseteq ReportsIn(cluster', k)
<1> DEFINE Goal == /\ now' \in 0..MaxClock /\ now <= now'
                   /\ cluster' \in [Clusters -> ClusterRecord]
                   /\ \A k \in Clusters : ReportsIn(cluster, k) \subseteq ReportsIn(cluster', k)
<1>1. now \in 0..MaxClock /\ cluster \in [Clusters -> ClusterRecord] /\ MaxClock \in Nat
  BY AdmissionAssumption DEF AdmissionInv, TypeOK
<1>2. ASSUME UNCHANGED <<now, cluster>> PROVE Goal
  <2>1. now' = now /\ cluster' = cluster
    BY <1>2
  <2> QED BY <1>1, <2>1
<1>3. ASSUME Tick PROVE Goal
  <2>1. now' = now + 1 /\ now < MaxClock /\ cluster' = cluster
    BY <1>3 DEF Tick
  <2> QED BY <1>1, <2>1
<1>4. ASSUME NEW k \in Clusters, UpdateCluster(k) PROVE Goal
  <2>1. PICK usable \in BOOLEAN, c \in Reports :
          cluster' = [cluster EXCEPT ![k] = [usable |-> usable, reports |-> Append(@.reports, c)]]
    BY <1>4, Zenon DEF UpdateCluster
  <2> DEFINE old == cluster[k].reports
             y == [usable |-> usable, reports |-> Append(old, c)]
  <2>2. old \in Seq(Nat) /\ c \in Nat
    BY <1>1, AdmissionAssumption DEF ClusterRecord
  <2>3. /\ Append(old, c) \in Seq(Nat) \ {<<>>}
        /\ \A i \in DOMAIN old : i \in DOMAIN Append(old, c) /\ Append(old, c)[i] = old[i]
    BY <2>2
  <2>4. y \in ClusterRecord /\ y.reports = Append(old, c)
    BY <2>3 DEF ClusterRecord
  <2>5. cluster' = [cluster EXCEPT ![k] = y]
    BY <2>1
  <2> HIDE DEF y
  <2>6. /\ cluster' \in [Clusters -> ClusterRecord]
        /\ cluster'[k] = y /\ \A j \in Clusters \ {k} : cluster'[j] = cluster[j]
    BY <1>1, <2>4, <2>5
  <2>7. ReportsIn(cluster, k) \subseteq ReportsIn(cluster', k)
    BY <2>3, <2>4, <2>6, Zenon DEF ReportsIn
  <2>8. \A j \in Clusters \ {k} : ReportsIn(cluster, j) = ReportsIn(cluster', j)
    BY <2>6 DEF ReportsIn
  <2>9. now' = now
    BY <1>4 DEF UpdateCluster
  <2> QED BY <1>1, <2>6, <2>7, <2>8, <2>9
<1>5. ASSUME NEW p \in Procs,
             \/ Evaluate(p) \/ RecordDecision(p) \/ Renew(p) \/ Defer(p) \/ Reject(p)
             \/ ScheduleRun(p) \/ SchedulePolicy(p)
             \/ ScheduleAsk(p) \/ ScheduleCluster(p) \/ ReservePolicy(p) \/ ReserveCluster(p)
             \/ ScheduleCommit(p) \/ ReserveCommit(p) \/ Abort(p)
             \/ (\E r \in Runs : Claim(p, r))
             \/ \E r \in Runs, k \in Clusters : Ask(p, r, k)
      PROVE  UNCHANGED <<now, cluster>>
  BY <1>5, Zenon DEF Evaluate, RecordDecision, Renew, Defer, Reject, ScheduleRun, SchedulePolicy,
              ScheduleAsk, ScheduleCluster, ReservePolicy, ReserveCluster, ScheduleCommit,
              ReserveCommit, Abort, Claim, Ask
<1>6. ASSUME \/ \E r \in Runs, m \in 1..MaxAttempts, target \in Recovery : Transition(r, m, target)
             \/ SelectExpired \/ ReclaimNext
             \/ \E r \in Runs : Cancel(r) \/ Finish(r) \/ Retry(r)
             \/ UNCHANGED vars
      PROVE  UNCHANGED <<now, cluster>>
  BY <1>6, Zenon DEF Transition, SelectExpired, ReclaimNext, Cancel, Finish, Retry, vars
<1> HIDE DEF Goal
<1>7. Goal
  BY <1>2, <1>3, <1>4, <1>5, <1>6 DEF Next, Worker, Repository, Procs
<1> QED BY <1>7 DEF Goal

\* The commit of Schedule or Reserve inserts a reservation.
Inserts(p) ==
  /\ tx[p].stage \in {"placed", "reserved"}
  /\ tx' = [tx EXCEPT ![p] = Idle]
  /\ UNCHANGED <<now, cluster>>
  /\ Affordable(tx[p].run, tx[p].at)
  /\ InsertBundle(tx[p].run, tx[p].attempt, tx[p].cluster, tx[p].at)

\* A transition moves one out of RESERVED.
MovesTo(i, target) ==
  /\ reservations[i].state = "RESERVED"
  /\ reservations' = [reservations EXCEPT ![i].state = target]
  /\ \E at \in Nat : Credit(i, target, at)
  /\ UNCHANGED <<now, cluster, tx>>

BookStep ==
  \/ UNCHANGED <<reservations, usage>>
  \/ \E p \in Procs : Inserts(p)
  \/ \E i \in DOMAIN reservations, target \in {"RELEASED", "SETTLED", "EXPIRED"} :
       MovesTo(i, target)

\* Every step changes the reservations and the ledger as BookStep allows.
LEMMA BookSteps ==
  ASSUME AdmissionInv, [Next]_vars
  PROVE  BookStep
<1>1. now \in Nat
  BY AdmissionAssumption DEF AdmissionInv, TypeOK
<1>2. ASSUME NEW p \in Procs, ScheduleCommit(p) \/ ReserveCommit(p) PROVE Inserts(p)
  BY <1>2 DEF ScheduleCommit, ReserveCommit, Inserts, Become
<1>3. ASSUME NEW i, NEW target, NEW at, Move(i, target, at), UNCHANGED <<now, cluster, tx>>
      PROVE  MovesTo(i, target)
  BY <1>3 DEF Move, Moves, MovesTo, Credit
<1>4. ASSUME NEW r, NEW n, NEW target, Transition(r, n, target) PROVE BookStep
  <2>1. target \in {"RELEASED", "SETTLED"}
    BY <1>4, AdmissionAssumption DEF Transition
  <2>2. PICK i \in LatestOf(r, n), at \in Readings : Move(i, target, at)
    BY <1>4 DEF Transition
  <2>3. i \in DOMAIN reservations
    BY DEF LatestOf
  <2> QED BY <1>3, <1>4, <2>1, <2>2, <2>3 DEF Transition, BookStep
<1>5. ASSUME ReclaimNext PROVE BookStep
  <2>1. PICK i \in LatestOf(Head(batch.items)[1], Head(batch.items)[2]) :
          Move(i, "EXPIRED", batch.at) \/ UNCHANGED <<reservations, usage>>
    BY <1>5 DEF ReclaimNext
  <2>2. i \in DOMAIN reservations
    BY DEF LatestOf
  <2> QED BY <1>3, <1>5, <2>1, <2>2 DEF ReclaimNext, BookStep
<1>6. ASSUME NEW p \in Procs,
             \/ Evaluate(p) \/ RecordDecision(p) \/ Renew(p) \/ Defer(p) \/ Reject(p)
             \/ ScheduleRun(p) \/ SchedulePolicy(p)
             \/ ScheduleAsk(p) \/ ScheduleCluster(p) \/ ReservePolicy(p) \/ ReserveCluster(p)
             \/ Abort(p)
             \/ (\E r \in Runs : Claim(p, r))
             \/ \E r \in Runs, k \in Clusters : Ask(p, r, k)
      PROVE  UNCHANGED <<reservations, usage>>
  BY <1>6, Zenon DEF Evaluate, RecordDecision, Renew, Defer, Reject, ScheduleRun, SchedulePolicy,
              ScheduleAsk, ScheduleCluster, ReservePolicy, ReserveCluster,
              Abort, Claim, Ask
<1>7. ASSUME \/ SelectExpired
             \/ \E r \in Runs : Cancel(r) \/ Finish(r) \/ Retry(r)
             \/ \E k \in Clusters : UpdateCluster(k)
             \/ Tick \/ UNCHANGED vars
      PROVE  UNCHANGED <<reservations, usage>>
  BY <1>7, Zenon DEF SelectExpired, Cancel, Finish, Retry, UpdateCluster, Tick, vars
<1>8. CASE Next
  <2>1. CASE Worker
    BY <1>2, <1>6, <2>1 DEF Worker, Procs, BookStep
  <2>2. CASE Repository
    BY <1>2, <1>4, <1>5, <1>6, <1>7, <2>2 DEF Repository, Procs, BookStep
  <2> QED BY <1>6, <1>7, <1>8, <2>1, <2>2 DEF Next, BookStep
<1> QED BY <1>7, <1>8 DEF BookStep
-----------------------------------------------------------------------------
(* Each part of the invariant is kept. *)

\* A row is locked by one transaction after a step as well, since the step that
\* locks it has found it free.
LEMMA LocksStayExclusive ==
  ASSUME AdmissionInv, TxStep
  PROVE  LocksExclusive'
<1>1. tx \in [Procs -> Transaction] /\ \A p, q \in Procs : p # q => Rows(tx[p]) \cap Rows(tx[q]) = {}
  BY DEF AdmissionInv, TypeOK, LocksExclusive, Held, Rows
<1>2. \A p, q \in Procs : p # q => Rows(tx'[p]) \cap Rows(tx'[q]) = {}
  <2>1. CASE tx' = tx
    BY <1>1, <2>1
  <2>2. ASSUME NEW p \in Procs, NEW x \in Transaction, Proceeds(p, x),
               NEW q \in Procs, NEW r \in Procs, q # r
        PROVE  Rows(tx'[q]) \cap Rows(tx'[r]) = {}
    <3>1. tx'[p] = x /\ \A z \in Procs \ {p} : tx'[z] = tx[z]
      BY <1>1, <2>2 DEF Proceeds
    <3>2. \A z \in Procs \ {p} : Rows(x) \cap Rows(tx[z]) = {}
      <4>1. CASE Rows(x) \subseteq Rows(tx[p])
        BY <1>1, <4>1
      <4>2. CASE Granted(p) /\ Rows(x) \subseteq Rows(tx[p]) \cup Wants(p)
        <5>1. \A z \in Procs \ {p} : Wants(p) \cap Rows(tx[z]) = {}
          BY <4>2 DEF Granted, Held, Rows
        <5> QED BY <1>1, <4>2, <5>1
      <4> QED BY <2>2, <4>1, <4>2 DEF Proceeds
    <3>3. CASE q = p
      BY <2>2, <3>1, <3>2, <3>3
    <3>4. CASE r = p
      BY <2>2, <3>1, <3>2, <3>4
    <3>5. CASE q # p /\ r # p
      BY <1>1, <2>2, <3>1, <3>5
    <3> QED BY <3>3, <3>4, <3>5
  <2> QED BY <2>1, <2>2 DEF TxStep
<1> QED BY <1>2 DEF LocksExclusive, Held, Rows

\* Before the other rows change, every transaction knows what is true.
LEMMA TransactionsProceed ==
  ASSUME AdmissionInv, TxStep, now' \in Nat, now <= now'
  PROVE  /\ tx' \in [Procs -> Transaction]
         /\ \A p \in Procs : /\ Started(tx'[p], now')
                             /\ HasRoom(tx'[p], run) /\ Fits(tx'[p], cluster, reservations)
<1>1. /\ tx \in [Procs -> Transaction] /\ now \in Nat
      /\ \A p \in Procs : /\ Started(tx[p], now)
                          /\ HasRoom(tx[p], run) /\ Fits(tx[p], cluster, reservations)
  BY DEF AdmissionInv, TypeOK
<1>2. /\ tx' \in [Procs -> Transaction]
      /\ \A p \in Procs : /\ Started(tx'[p], now)
                          /\ HasRoom(tx'[p], run) /\ Fits(tx'[p], cluster, reservations)
  <2>1. CASE tx' = tx
    BY <1>1, <2>1
  <2>2. ASSUME NEW p \in Procs, NEW x \in Transaction, Proceeds(p, x)
        PROVE  /\ tx' \in [Procs -> Transaction]
               /\ \A q \in Procs : \/ tx'[q] = tx[q]
                                   \/ /\ Started(tx'[q], now)
                                      /\ HasRoom(tx'[q], run) /\ Fits(tx'[q], cluster, reservations)
    <3>1. tx' \in [Procs -> Transaction] /\ tx'[p] = x /\ \A q \in Procs \ {p} : tx'[q] = tx[q]
      BY <1>1, <2>2 DEF Proceeds
    <3> QED BY <2>2, <3>1 DEF Proceeds
  <2>3. ASSUME NEW p \in Procs, NEW x \in Transaction, Proceeds(p, x), NEW q \in Procs
        PROVE  /\ Started(tx'[q], now)
               /\ HasRoom(tx'[q], run) /\ Fits(tx'[q], cluster, reservations)
    <3>1. CASE tx'[q] = tx[q]
      BY <1>1, <3>1
    <3> QED BY <2>2, <2>3, <3>1
  <2> QED BY <2>1, <2>2, <2>3 DEF TxStep
<1>3. \A p \in Procs : tx'[p] \in Transaction /\ tx'[p].at \in Nat
  BY <1>2 DEF Transaction
<1>4. \A p \in Procs : Started(tx'[p], now')
  BY <1>1, <1>2, <1>3 DEF Started
<1> QED BY <1>2, <1>4

\* Two transactions past the policy lock are of different tenants.
LEMMA SamePolicy ==
  ASSUME AdmissionInv, NEW p \in Procs, NEW q \in Procs, p # q,
         tx[p].stage \in {"admitted", "asked", "placed"}, tx[q].stage \in {"admitted", "asked", "placed"}
  PROVE  TenantOf[tx[p].run] # TenantOf[tx[q].run]
<1>1. PolicyLock(tx[p].run) \in Held(p) /\ PolicyLock(tx[q].run) \in Held(q)
  BY DEF Held, PolicyHeld
<1>2. PolicyLock(tx[p].run) # PolicyLock(tx[q].run)
  BY <1>1 DEF AdmissionInv, LocksExclusive
<1> QED BY <1>2 DEF PolicyLock

\* Two transactions past the cluster lock are on different clusters.
LEMMA SameCluster ==
  ASSUME AdmissionInv, NEW p \in Procs, NEW q \in Procs, p # q,
         tx[p].stage \in {"placed", "reserved"}, tx[q].stage \in {"placed", "reserved"}
  PROVE  tx[p].cluster # tx[q].cluster
<1>1. ClusterLock(tx[p].cluster) \in Held(p) /\ ClusterLock(tx[q].cluster) \in Held(q)
  BY DEF Held, ClusterHeld
<1> QED BY <1>1 DEF AdmissionInv, LocksExclusive

\* Room that was found under the policy lock stays until the commit.
LEMMA RoomStays ==
  ASSUME AdmissionInv, TxStep, RunStep, now' \in Nat, now <= now', NEW q \in Procs
  PROVE  HasRoom(tx'[q], run')
<1> SUFFICES ASSUME tx'[q].stage \in {"admitted", "asked", "placed"}
             PROVE  Room(WorkingIn(run', TenantOf[tx'[q].run]), tx'[q].run)
  BY DEF HasRoom
<1> DEFINE r == tx'[q].run
           t == TenantOf[r]
<1>1. r \in Runs /\ Room(WorkingIn(run, t), r)
  BY TransactionsProceed DEF Started, HasRoom
<1>2. t \in Tenants
  BY <1>1, AdmissionAssumption
<1>3. WorkingIn(run', t) \subseteq WorkingIn(run, t)
  <2>1. CASE \A u \in Tenants : WorkingIn(run', u) \subseteq WorkingIn(run, u)
    BY <1>2, <2>1
  <2>2. ASSUME NEW p \in Procs, Schedules(p) PROVE WorkingIn(run', t) \subseteq WorkingIn(run, t)
    <3>1. tx \in [Procs -> Transaction] /\ tx' = [tx EXCEPT ![p] = Idle] /\ tx[p].stage = "placed"
      BY <2>2 DEF AdmissionInv, TypeOK, Schedules
    <3>2. q # p /\ tx'[q] = tx[q]
      <4>1. tx'[p].stage = "idle" /\ (q # p => tx'[q] = tx[q])
        BY <3>1 DEF Idle
      <4> QED BY <4>1
    <3>3. t # TenantOf[tx[p].run]
      BY <3>1, <3>2, SamePolicy
    <3> QED BY <1>2, <2>2, <3>3 DEF Schedules
  <2> QED BY <2>1, <2>2 DEF RunStep
<1>4. WorkingIn(run, t) \in SUBSET Runs
  BY DEF WorkingIn
<1> QED BY <1>1, <1>3, <1>4, FewerKeepRoom

\* QuotaRespected, with the working runs as a parameter.
LEMMA QuotaIsWithin ==
  QuotaRespected <=> \A t \in Tenants : Within(WorkingIn(run, t), t)
<1>1. \A t \in Tenants : {r \in Runs : TenantOf[r] = t /\ Working(r)} = WorkingIn(run, t)
  BY DEF WorkingIn, Working
<1> QED BY <1>1 DEF QuotaRespected, Within, UserIn

\* Only a run that has room starts to work.
LEMMA QuotaStays ==
  ASSUME AdmissionInv, RunStep
  PROVE  QuotaRespected'
<1>1. \A t \in Tenants : Within(WorkingIn(run, t), t)
  BY QuotaIsWithin DEF AdmissionInv
<1>2. ASSUME NEW t \in Tenants PROVE Within(WorkingIn(run', t), t)
  <2>1. WorkingIn(run, t) \in SUBSET Runs
    BY DEF WorkingIn
  <2>2. CASE WorkingIn(run', t) \subseteq WorkingIn(run, t)
    BY <1>1, <2>1, <2>2, FewerStayWithin
  <2>3. ASSUME NEW p \in Procs, Schedules(p), t = TenantOf[tx[p].run]
        PROVE  Within(WorkingIn(run', t), t)
    <3>1. tx[p].run \in Runs /\ Room(WorkingIn(run, t), tx[p].run)
      BY <2>3 DEF AdmissionInv, Schedules, Started, HasRoom
    <3>2. Within(WorkingIn(run, t) \cup {tx[p].run}, t)
      BY <1>1, <2>1, <2>3, <3>1, OneMoreStaysWithin
    <3>3. /\ WorkingIn(run', t) \subseteq WorkingIn(run, t) \cup {tx[p].run}
          /\ WorkingIn(run, t) \cup {tx[p].run} \in SUBSET Runs
      BY <2>1, <2>3, <3>1 DEF Schedules
    <3> QED BY <3>2, <3>3, FewerStayWithin
  <2> QED BY <2>2, <2>3 DEF RunStep, Schedules
<1>3. QuotaRespected' <=> \A t \in Tenants : Within(WorkingIn(run', t), t)
  <2>1. \A t \in Tenants : {r \in Runs : TenantOf[r] = t /\ Working(r)'} = WorkingIn(run', t)
    BY DEF WorkingIn, Working
  <2> QED BY <2>1, Zenon DEF QuotaRespected, Within, UserIn, SizeOf
<1> QED BY <1>2, <1>3
-----------------------------------------------------------------------------
(* Reservations and what is charged for them. *)

\* The day of a time within the clock.
LEMMA DayIsADay ==
  ASSUME NEW at \in 0..MaxClock
  PROVE  Day(at) \in Days
<1>1. at \in Nat /\ MaxClock \in Nat /\ DayLength \in Nat \ {0} /\ at <= MaxClock
  BY AdmissionAssumption
<1>2. at \div DayLength \in Nat /\ MaxClock \div DayLength \in Nat
  BY <1>1
<1>3. at \div DayLength <= MaxClock \div DayLength
  BY <1>1
<1> QED BY <1>2, <1>3 DEF Day, Days

\* The row that Inserts(p) inserts.
BundleOf(x) == [run |-> x.run, attempt |-> x.attempt, cluster |-> x.cluster, state |-> "RESERVED",
                created |-> x.at, expires |-> x.at + TTL, day |-> Day(x.at), amount |-> Cost[x.run]]

\* The reservation that a transaction inserts.
LEMMA InsertedRow ==
  ASSUME AdmissionInv, NEW p \in Procs, Inserts(p)
  PROVE  LET b == BundleOf(tx[p])
         IN /\ b \in Bundle
            /\ reservations' = Append(reservations, b)
            /\ b.run = tx[p].run /\ b.cluster = tx[p].cluster /\ b.state = "RESERVED"
            /\ b.day = Day(tx[p].at) /\ b.amount = Cost[tx[p].run]
            /\ tx[p].run \in Runs /\ tx[p].cluster \in Clusters
            /\ tx[p].at \in Nat /\ tx[p].at <= now /\ Day(tx[p].at) \in Days
<1> DEFINE x == tx[p]
<1>1. x \in Transaction /\ x.stage \in {"placed", "reserved"} /\ now \in 0..MaxClock
  BY DEF AdmissionInv, TypeOK, Inserts
<1>2. x.run \in Runs /\ x.cluster \in Clusters /\ x.at <= now /\ x.at \in Nat /\ x.attempt \in Nat
  BY <1>1 DEF AdmissionInv, Started, Transaction
<1>3. x.at \in 0..MaxClock
  BY <1>1, <1>2, AdmissionAssumption
<1>4. Day(x.at) \in Days
  BY <1>3, DayIsADay
<1>5. Cost[x.run] \in Nat /\ x.at + TTL \in Nat
  BY <1>2, AdmissionAssumption
<1>6. reservations' = Append(reservations, BundleOf(x))
  BY DEF Inserts, InsertBundle, BundleOf
<1> QED BY <1>2, <1>4, <1>5, <1>6 DEF Bundle, BundleOf

\* The reservations keep their type.
LEMMA BookStaysTyped ==
  ASSUME AdmissionInv, BookStep
  PROVE  reservations' \in Seq(Bundle)
<1>1. reservations \in Seq(Bundle)
  BY DEF AdmissionInv, TypeOK
<1>2. ASSUME NEW p \in Procs, Inserts(p) PROVE reservations' \in Seq(Bundle)
  <2>1. BundleOf(tx[p]) \in Bundle /\ reservations' = Append(reservations, BundleOf(tx[p]))
    BY <1>2, InsertedRow
  <2> QED BY <1>1, <2>1
<1>3. ASSUME NEW i \in DOMAIN reservations, NEW target \in {"RELEASED", "SETTLED", "EXPIRED"},
             MovesTo(i, target)
      PROVE  reservations' \in Seq(Bundle)
  BY <1>1, <1>3, MovedIsTyped, Zenon DEF MovesTo
<1> QED BY <1>1, <1>2, <1>3 DEF BookStep

\* The reports of a cluster are finitely many numbers.
LEMMA ReportsAreNat ==
  ASSUME NEW cl \in [Clusters -> ClusterRecord], NEW k \in Clusters
  PROVE  ReportsIn(cl, k) \in SUBSET Nat /\ IsFiniteSet(ReportsIn(cl, k))
<1> DEFINE reps == cl[k].reports
<1>1. reps \in Seq(Nat)
  BY DEF ClusterRecord
<1>2. DOMAIN reps = 1..Len(reps) /\ Len(reps) \in Nat /\ \A i \in DOMAIN reps : reps[i] \in Nat
  BY <1>1
<1>3. ReportsIn(cl, k) \in SUBSET Nat
  BY <1>2 DEF ReportsIn
<1>4. IsFiniteSet(DOMAIN reps)
  BY <1>2, FS_Interval
<1>5. reps \in Surjection(DOMAIN reps, ReportsIn(cl, k))
  BY <1>1, <1>2 DEF ReportsIn, Surjection
<1>6. IsFiniteSet(ReportsIn(cl, k))
  BY <1>4, <1>5, FS_Surjection
<1> QED BY <1>3, <1>6

\* What fits under the cluster lock fits until the commit.
LEMMA FitStays ==
  ASSUME AdmissionInv, TxStep, BookStep, now' \in Nat, now <= now',
         \A k \in Clusters : ReportsIn(cluster, k) \subseteq ReportsIn(cluster', k),
         NEW q \in Procs
  PROVE  Fits(tx'[q], cluster', reservations')
<1> DEFINE x == tx'[q]
<1>1. x \in Transaction /\ Started(x, now') /\ Fits(x, cluster, reservations)
  BY TransactionsProceed
<1>2. ASSUME x.stage = "asked" PROVE x.capacity \in ReportsIn(cluster', x.cluster)
  BY <1>1, <1>2 DEF Started, Fits
<1>3. ASSUME x.stage \in {"placed", "reserved"}
      PROVE  \E c \in ReportsIn(cluster', x.cluster) :
               ReservedIn(reservations', x.cluster, x.at) + Size[x.run] <= c
  <2>1. x.run \in Runs /\ x.cluster \in Clusters /\ Size[x.run] \in Nat /\ x.at \in Nat
    BY <1>1, <1>3, AdmissionAssumption DEF Started, Transaction
  <2>2. PICK c \in ReportsIn(cluster, x.cluster) :
          ReservedIn(reservations, x.cluster, x.at) + Size[x.run] <= c
    BY <1>1, <1>3 DEF Fits
  <2>3. c \in Nat /\ c \in ReportsIn(cluster', x.cluster)
    BY <2>1, <2>2, ReportsAreNat DEF AdmissionInv, TypeOK
  <2>4. reservations \in Seq(Bundle) /\ reservations' \in Seq(Bundle)
    BY BookStaysTyped DEF AdmissionInv, TypeOK
  <2>5. /\ ReservedIn(reservations, x.cluster, x.at) \in Nat
        /\ ReservedIn(reservations', x.cluster, x.at) \in Nat
    BY <2>4, ReservedIsNat
  <2>6. ReservedIn(reservations', x.cluster, x.at) <= ReservedIn(reservations, x.cluster, x.at)
    <3>1. CASE reservations' = reservations
      BY <2>5, <3>1
    <3>2. ASSUME NEW p \in Procs, Inserts(p)
          PROVE  ReservedIn(reservations', x.cluster, x.at) = ReservedIn(reservations, x.cluster, x.at)
      <4>1. tx \in [Procs -> Transaction] /\ tx' = [tx EXCEPT ![p] = Idle]
            /\ tx[p].stage \in {"placed", "reserved"}
        BY <3>2 DEF AdmissionInv, TypeOK, Inserts
      <4>2. q # p /\ x = tx[q]
        <5>1. tx'[p].stage = "idle" /\ (q # p => tx'[q] = tx[q])
          BY <4>1 DEF Idle
        <5> QED BY <1>3, <5>1
      <4>3. tx[p].cluster # x.cluster
        BY <1>3, <4>1, <4>2, SameCluster
      <4>4. PICK b \in Bundle : reservations' = Append(reservations, b) /\ b.cluster = tx[p].cluster
        BY <3>2, InsertedRow
      <4> HIDE DEF x
      <4> QED BY <2>4, <4>3, <4>4, ReservedAfterInsert
    <3>3. ASSUME NEW i \in DOMAIN reservations, NEW target \in {"RELEASED", "SETTLED", "EXPIRED"},
                 MovesTo(i, target)
          PROVE  ReservedIn(reservations', x.cluster, x.at) <= ReservedIn(reservations, x.cluster, x.at)
      BY <2>4, <3>3, ReservedAfterMove, Zenon DEF MovesTo
    <3> HIDE DEF x
    <3> QED BY <2>5, <3>1, <3>2, <3>3 DEF BookStep
  <2> HIDE DEF x
  <2> QED BY <2>1, <2>2, <2>3, <2>5, <2>6
<1> QED BY <1>2, <1>3 DEF Fits

\* The greatest report is as large as some report is.
LEMMA CapacityIsAReport ==
  ASSUME NEW cl \in [Clusters -> ClusterRecord], NEW k \in Clusters, NEW n \in Nat
  PROVE  n <= Max(ReportsIn(cl, k)) <=> \E c \in ReportsIn(cl, k) : n <= c
<1> DEFINE S == ReportsIn(cl, k)
<1>1. S \in SUBSET Nat /\ IsFiniteSet(S)
  BY ReportsAreNat
<1>2. S # {}
  <2>1. cl[k].reports \in Seq(Nat) \ {<<>>}
    BY DEF ClusterRecord
  <2>2. 1 \in DOMAIN cl[k].reports
    BY <2>1
  <2> QED BY <2>2, Zenon DEF ReportsIn
<1> HIDE DEF S
<1>3. S \in SUBSET Int
  BY <1>1
<1>4. \A c \in S : Max(S) \in S /\ c <= Max(S)
  BY <1>1, <1>3, MaxOf
<1> QED BY <1>1, <1>2, <1>4 DEF S

\* No step overbooks a cluster.
LEMMA CapacityStays ==
  ASSUME AdmissionInv, BookStep, now' \in Nat, now <= now',
         cluster' \in [Clusters -> ClusterRecord],
         \A k \in Clusters : ReportsIn(cluster, k) \subseteq ReportsIn(cluster', k)
  PROVE  CapacityRespected'
<1>1. /\ reservations \in Seq(Bundle) /\ now \in Nat /\ cluster \in [Clusters -> ClusterRecord]
      /\ reservations' \in Seq(Bundle)
  BY BookStaysTyped DEF AdmissionInv, TypeOK
<1>2. ASSUME NEW k \in Clusters
      PROVE  \E c \in ReportsIn(cluster', k) : ReservedIn(reservations', k, now') <= c
  <2>1. PICK c \in ReportsIn(cluster, k) : ReservedIn(reservations, k, now) <= c
    <3>1. ReservedIn(reservations, k, now) <= Max(ReportsIn(cluster, k))
      BY ReservedOnIn DEF AdmissionInv, CapacityRespected, Reported, ReportsIn
    <3>2. ReservedIn(reservations, k, now) \in Nat
      BY <1>1, ReservedIsNat
    <3> QED BY <1>1, <3>1, <3>2, CapacityIsAReport
  <2>2. \A d \in ReportsIn(cluster, k) : d \in Nat /\ d \in ReportsIn(cluster', k)
    BY <1>1, ReportsAreNat
  <2>3. \A at : ReservedIn(reservations, k, at) \in Nat /\ ReservedIn(reservations', k, at) \in Nat
    BY <1>1, ReservedIsNat
  <2>4. ReservedIn(reservations', k, now') <= ReservedIn(reservations', k, now)
    BY <1>1, ReservedLater
  <2>5. CASE reservations' = reservations
    BY <2>1, <2>2, <2>3, <2>4, <2>5
  <2>6. ASSUME NEW i \in DOMAIN reservations, NEW target \in {"RELEASED", "SETTLED", "EXPIRED"},
               MovesTo(i, target)
        PROVE  \E e \in ReportsIn(cluster', k) : ReservedIn(reservations', k, now') <= e
    <3>1. ReservedIn(reservations', k, now) <= ReservedIn(reservations, k, now)
      BY <1>1, <2>6, ReservedAfterMove, Zenon DEF MovesTo
    <3> QED BY <2>1, <2>2, <2>3, <2>4, <3>1
  <2>7. ASSUME NEW p \in Procs, Inserts(p)
        PROVE  \E e \in ReportsIn(cluster', k) : ReservedIn(reservations', k, now') <= e
    <3>1. PICK b \in Bundle : /\ reservations' = Append(reservations, b)
                              /\ b.cluster = tx[p].cluster /\ b.run = tx[p].run
      BY <2>7, InsertedRow
    <3>2. /\ ReservedIn(reservations', k, now) <= ReservedIn(reservations, k, now) + Size[b.run]
          /\ b.cluster # k => ReservedIn(reservations', k, now) = ReservedIn(reservations, k, now)
      BY <1>1, <3>1, ReservedAfterInsert
    <3>3. CASE b.cluster # k
      BY <2>1, <2>2, <2>3, <2>4, <3>2, <3>3
    <3>4. CASE b.cluster = k
      <4>1. tx[p].at \in Nat /\ tx[p].at <= now /\ tx[p].run \in Runs
        BY <2>7, InsertedRow
      <4>2. ReservedIn(reservations, k, now) <= ReservedIn(reservations, k, tx[p].at)
        BY <1>1, <4>1, ReservedLater
      <4>3. PICK e \in ReportsIn(cluster, k) :
              ReservedIn(reservations, k, tx[p].at) + Size[tx[p].run] <= e
        BY <2>7, <3>1, <3>4, Zenon DEF AdmissionInv, Fits, Inserts
      <4>4. Size[tx[p].run] \in Nat
        BY <4>1, AdmissionAssumption
      <4>5. ReservedIn(reservations', k, now') <= e
        BY <2>2, <2>3, <2>4, <3>1, <3>2, <4>2, <4>3, <4>4
      <4> QED BY <2>2, <4>3, <4>5
    <3> QED BY <3>3, <3>4
  <2> QED BY <2>5, <2>6, <2>7 DEF BookStep
<1>3. ASSUME NEW k \in Clusters
      PROVE  ReservedIn(reservations', k, now') <= Max(ReportsIn(cluster', k))
  <2>1. ReservedIn(reservations', k, now') \in Nat
    BY <1>1, ReservedIsNat
  <2> QED BY <1>2, <2>1, CapacityIsAReport
<1>4. \A k \in Clusters : ReservedIn(reservations', k, now') = ReservedOn(k, now)'
                          /\ ReportsIn(cluster', k) = Reported(k)'
  BY DEF ReservedOn, Counted, ReservedIn, CountedIn, SizesIn, ReportsIn, Reported
<1> QED BY <1>3, <1>4 DEF CapacityRespected
\* The ledger of a day, for rows of reservations and of usage.
Balanced(rs, us) ==
  \A t \in Tenants, d \in Days :
    us[t][d] = [spent |-> ChargedIn(rs, t, d, "SETTLED"), reserved |-> ChargedIn(rs, t, d, "RESERVED")]

\* LedgerBalanced, with the reservations and the ledger as parameters.
LEMMA LedgerIsBalanced == LedgerBalanced <=> Balanced(reservations, usage)
BY DEF LedgerBalanced, Balanced, ChargedIn, ChargesIn, AmountsIn

\* What an insert and a transition do to the usage of a day.
LEMMA InsertedUsage ==
  ASSUME AdmissionInv, NEW p \in Procs, Inserts(p), NEW t \in Tenants, NEW d \in Days
  PROVE  LET mine == TenantOf[tx[p].run] = t /\ Day(tx[p].at) = d
         IN usage'[t][d] = IF mine THEN [spent |-> usage[t][d].spent,
                                         reserved |-> usage[t][d].reserved + Cost[tx[p].run]]
                           ELSE usage[t][d]
<1> DEFINE T == TenantOf[tx[p].run]
           D == Day(tx[p].at)
           c == Cost[tx[p].run]
<1>1. T \in Tenants /\ D \in Days
  BY InsertedRow, AdmissionAssumption
<1>2. usage' = [usage EXCEPT ![T][D].reserved = @ + c]
  BY DEF Inserts, InsertBundle
<1>3. usage \in [Tenants -> [Days -> [spent : Int, reserved : Int]]]
  BY DEF AdmissionInv, TypeOK
<1> HIDE DEF T, D, c
<1>4. usage'[t][d] = IF T = t /\ D = d THEN [spent |-> usage[t][d].spent,
                                             reserved |-> usage[t][d].reserved + c]
                     ELSE usage[t][d]
  BY <1>1, <1>2, <1>3
<1> QED BY <1>4 DEF T, D, c

\* What the end of a reservation does to the ledger.
LEMMA MovedUsage ==
  ASSUME AdmissionInv, NEW i \in DOMAIN reservations, NEW target, MovesTo(i, target),
         NEW t \in Tenants, NEW d \in Days
  PROVE  LET x == reservations[i]
             mine == TenantOf[x.run] = t /\ x.day = d
         IN usage'[t][d] =
              IF mine THEN [spent |-> usage[t][d].spent + (IF target = "SETTLED" THEN x.amount ELSE 0),
                            reserved |-> usage[t][d].reserved - x.amount]
              ELSE usage[t][d]
<1> DEFINE x == reservations[i]
           T == TenantOf[x.run]
           D == x.day
           c == x.amount
<1>1. x \in Bundle
  BY BundlesIn DEF AdmissionInv, TypeOK
<1>2. T \in Tenants /\ D \in Days
  BY <1>1, AdmissionAssumption DEF Bundle
<1>3. usage' = [usage EXCEPT ![T][D] = [reserved |-> @.reserved - c,
                                        spent |-> @.spent + (IF target = "SETTLED" THEN c ELSE 0)]]
  BY DEF MovesTo, Credit
<1>4. usage \in [Tenants -> [Days -> [spent : Int, reserved : Int]]]
  BY DEF AdmissionInv, TypeOK
<1> HIDE DEF x, T, D, c
<1>5. usage'[t][d] = IF T = t /\ D = d
                     THEN [spent |-> usage[t][d].spent + (IF target = "SETTLED" THEN c ELSE 0),
                           reserved |-> usage[t][d].reserved - c]
                     ELSE usage[t][d]
  BY <1>2, <1>3, <1>4
<1> QED BY <1>5 DEF x, T, D, c

\* The ledger keeps its type.
LEMMA UsageStaysTyped ==
  ASSUME AdmissionInv, BookStep
  PROVE  usage' \in [Tenants -> [Days -> [spent : Int, reserved : Int]]]
<1> DEFINE Row == [spent : Int, reserved : Int]
<1>1. usage \in [Tenants -> [Days -> Row]]
  BY DEF AdmissionInv, TypeOK
<1>2. ASSUME NEW p \in Procs, Inserts(p) PROVE usage' \in [Tenants -> [Days -> Row]]
  <2> DEFINE T == TenantOf[tx[p].run]
             D == Day(tx[p].at)
             row == [usage[T][D] EXCEPT !.reserved = @ + Cost[tx[p].run]]
  <2>1. T \in Tenants /\ D \in Days /\ Cost[tx[p].run] \in Nat
    BY <1>2, InsertedRow, AdmissionAssumption
  <2>2. usage' = [usage EXCEPT ![T] = [@ EXCEPT ![D] = row]]
    BY <1>2 DEF Inserts, InsertBundle
  <2>3. usage[T][D] \in Row
    BY <1>1, <2>1
  <2>4. row \in Row
    BY <2>1, <2>3
  <2> HIDE DEF T, D, row, Row
  <2> QED BY <1>1, <2>1, <2>2, <2>4
<1>3. ASSUME NEW i \in DOMAIN reservations, NEW target, MovesTo(i, target)
      PROVE  usage' \in [Tenants -> [Days -> Row]]
  <2> DEFINE x == reservations[i]
             T == TenantOf[x.run]
             D == x.day
             row == [reserved |-> usage[T][D].reserved - x.amount,
                     spent |-> usage[T][D].spent + (IF target = "SETTLED" THEN x.amount ELSE 0)]
  <2>1. x \in Bundle
    BY BundlesIn DEF AdmissionInv, TypeOK
  <2>2. T \in Tenants /\ D \in Days /\ x.amount \in Nat
    BY <2>1, AdmissionAssumption DEF Bundle
  <2>3. usage' = [usage EXCEPT ![T] = [@ EXCEPT ![D] = row]]
    BY <1>3 DEF MovesTo, Credit
  <2>4. usage[T][D] \in Row
    BY <1>1, <2>2
  <2>5. usage[T][D].reserved \in Int /\ usage[T][D].spent \in Int
    BY <2>4
  <2>6. row \in Row
    BY <2>2, <2>5
  <2> HIDE DEF T, D, row, Row
  <2> QED BY <1>1, <2>2, <2>3, <2>6
<1> QED BY <1>1, <1>2, <1>3 DEF BookStep

\* Every step charges the day that its reservation was charged to.
LEMMA LedgerStays ==
  ASSUME AdmissionInv, BookStep
  PROVE  LedgerBalanced'
<1>1. Balanced(reservations, usage) /\ reservations \in Seq(Bundle)
  BY LedgerIsBalanced DEF AdmissionInv, TypeOK
<1>2. ASSUME UNCHANGED <<reservations, usage>> PROVE Balanced(reservations', usage')
  <2>1. reservations' = reservations /\ usage' = usage
    BY <1>2
  <2> QED BY <1>1, <2>1
<1>3. ASSUME NEW p \in Procs, Inserts(p) PROVE Balanced(reservations', usage')
  <2> SUFFICES ASSUME NEW t \in Tenants, NEW d \in Days
               PROVE  usage'[t][d] = [spent |-> ChargedIn(reservations', t, d, "SETTLED"),
                                      reserved |-> ChargedIn(reservations', t, d, "RESERVED")]
    BY DEF Balanced
  <2> DEFINE mine == TenantOf[tx[p].run] = t /\ Day(tx[p].at) = d
             S == ChargedIn(reservations, t, d, "SETTLED")
             R == ChargedIn(reservations, t, d, "RESERVED")
  <2>1. PICK b \in Bundle :
          /\ reservations' = Append(reservations, b)
          /\ b.run = tx[p].run /\ b.state = "RESERVED"
          /\ b.day = Day(tx[p].at) /\ b.amount = Cost[tx[p].run]
    BY <1>3, InsertedRow
  <2>2. ChargedIn(reservations', t, d, "SETTLED") = S + 0
    BY <1>1, <2>1, ChargedAfterInsert
  <2>3. ChargedIn(reservations', t, d, "RESERVED") = R + (IF mine THEN b.amount ELSE 0)
    BY <1>1, <2>1, ChargedAfterInsert
  <2>4. usage[t][d] = [spent |-> S, reserved |-> R] /\ S \in Nat /\ R \in Nat
    BY <1>1, ChargedIsNat DEF Balanced
  <2>5. usage'[t][d] = IF mine THEN [spent |-> usage[t][d].spent,
                                     reserved |-> usage[t][d].reserved + Cost[tx[p].run]]
                       ELSE usage[t][d]
    BY <1>3, InsertedUsage
  <2> HIDE DEF mine, S, R
  <2> QED BY <2>1, <2>2, <2>3, <2>4, <2>5
<1>4. ASSUME NEW i \in DOMAIN reservations, NEW target \in {"RELEASED", "SETTLED", "EXPIRED"},
             MovesTo(i, target)
      PROVE  Balanced(reservations', usage')
  <2> SUFFICES ASSUME NEW t \in Tenants, NEW d \in Days
               PROVE  usage'[t][d] = [spent |-> ChargedIn(reservations', t, d, "SETTLED"),
                                      reserved |-> ChargedIn(reservations', t, d, "RESERVED")]
    BY DEF Balanced
  <2> DEFINE x == reservations[i]
             mine == TenantOf[x.run] = t /\ x.day = d
             S == ChargedIn(reservations, t, d, "SETTLED")
             R == ChargedIn(reservations, t, d, "RESERVED")
             S2 == ChargedIn(reservations', t, d, "SETTLED")
             R2 == ChargedIn(reservations', t, d, "RESERVED")
  <2>1. x.state = "RESERVED" /\ reservations' = [reservations EXCEPT ![i].state = target]
    BY <1>4 DEF MovesTo
  <2>2. x.amount \in Nat
    BY <1>1, BundlesIn, Zenon DEF Bundle
  <2>9. ASSUME NEW s PROVE ChargesMove(reservations, reservations', i, target, t, d, s)
    BY <1>1, <2>1, ChargedAfterMove, Zenon
  <2>3. /\ mine => R = x.amount + R2
        /\ ~mine => R2 = R
    <3>1. ChargesMove(reservations, reservations', i, target, t, d, "RESERVED")
      BY <2>9
    <3> QED BY <3>1 DEF ChargesMove
  <2>4. /\ mine /\ target = "SETTLED" => S2 = x.amount + S
        /\ ~mine \/ target # "SETTLED" => S2 = S
    <3>1. ChargesMove(reservations, reservations', i, target, t, d, "SETTLED")
      BY <2>9
    <3> QED BY <3>1 DEF ChargesMove
  <2>5. reservations' \in Seq(Bundle)
    BY BookStaysTyped
  <2>6. usage[t][d] = [spent |-> S, reserved |-> R]
        /\ S \in Nat /\ R \in Nat /\ S2 \in Nat /\ R2 \in Nat
    BY <1>1, <2>5, ChargedIsNat DEF Balanced
  <2>7. usage'[t][d] =
          IF mine THEN [spent |-> usage[t][d].spent + (IF target = "SETTLED" THEN x.amount ELSE 0),
                        reserved |-> usage[t][d].reserved - x.amount]
          ELSE usage[t][d]
    BY <1>4, MovedUsage
  <2> HIDE DEF mine, S, R, S2, R2, x
  <2>8. usage'[t][d] = [spent |-> S2, reserved |-> R2]
    BY <2>2, <2>3, <2>4, <2>6, <2>7
  <2> QED BY <2>8 DEF S2, R2
<1>5. Balanced(reservations', usage')
  BY <1>2, <1>3, <1>4 DEF BookStep
<1>6. LedgerBalanced' <=> Balanced(reservations', usage')
  BY DEF LedgerBalanced, Balanced, ChargedIn, ChargesIn, AmountsIn
<1> QED BY <1>5, <1>6

\* No step takes more from a day than is left of it.
LEMMA BudgetStays ==
  ASSUME AdmissionInv, BookStep
  PROVE  BudgetRespected'
<1> SUFFICES ASSUME NEW t \in Tenants, NEW d \in Days
             PROVE  usage'[t][d].spent + usage'[t][d].reserved <= Policy[t].daily
  BY DEF BudgetRespected
<1>1. /\ usage[t][d].spent + usage[t][d].reserved <= Policy[t].daily
      /\ usage[t][d].spent \in Int /\ usage[t][d].reserved \in Int /\ Policy[t].daily \in Nat
  BY LimitsAreNat DEF AdmissionInv, BudgetRespected, TypeOK
<1>2. CASE UNCHANGED <<reservations, usage>>
  BY <1>1, <1>2
<1>3. ASSUME NEW p \in Procs, Inserts(p)
      PROVE  usage'[t][d].spent + usage'[t][d].reserved <= Policy[t].daily
  <2> DEFINE mine == TenantOf[tx[p].run] = t /\ Day(tx[p].at) = d
  <2>1. usage'[t][d] = IF mine THEN [spent |-> usage[t][d].spent,
                                     reserved |-> usage[t][d].reserved + Cost[tx[p].run]]
                       ELSE usage[t][d]
    BY <1>3, InsertedUsage
  <2>2. mine => Cost[tx[p].run] <= Policy[t].daily - usage[t][d].spent - usage[t][d].reserved
    BY <1>3 DEF Inserts, Affordable
  <2>3. Cost[tx[p].run] \in Nat
    BY <1>3, InsertedRow, AdmissionAssumption
  <2> HIDE DEF mine
  <2> QED BY <1>1, <2>1, <2>2, <2>3
<1>4. ASSUME NEW i \in DOMAIN reservations, NEW target \in {"RELEASED", "SETTLED", "EXPIRED"},
             MovesTo(i, target)
      PROVE  usage'[t][d].spent + usage'[t][d].reserved <= Policy[t].daily
  <2> DEFINE x == reservations[i]
             mine == TenantOf[x.run] = t /\ x.day = d
  <2>1. usage'[t][d] =
          IF mine THEN [spent |-> usage[t][d].spent + (IF target = "SETTLED" THEN x.amount ELSE 0),
                        reserved |-> usage[t][d].reserved - x.amount]
          ELSE usage[t][d]
    BY <1>4, MovedUsage
  <2>2. x.amount \in Nat
    BY BundlesIn, Zenon DEF AdmissionInv, TypeOK, Bundle
  <2> HIDE DEF mine, x
  <2>3. CASE ~mine
    BY <1>1, <2>1, <2>3
  <2>4. CASE mine
    <3>0. usage'[t][d] =
            [spent |-> usage[t][d].spent + (IF target = "SETTLED" THEN x.amount ELSE 0),
             reserved |-> usage[t][d].reserved - x.amount]
      BY <2>1, <2>4
    <3>1. /\ usage'[t][d].spent = usage[t][d].spent + (IF target = "SETTLED" THEN x.amount ELSE 0)
          /\ usage'[t][d].reserved = usage[t][d].reserved - x.amount
      BY <3>0
    <3>2. (IF target = "SETTLED" THEN x.amount ELSE 0) \in 0..x.amount
      BY <2>2
    <3> QED BY <1>1, <2>2, <3>1, <3>2
  <2> QED BY <2>3, <2>4
<1> QED BY <1>2, <1>3, <1>4 DEF BookStep
-----------------------------------------------------------------------------
(* The theorems. *)

\* The invariant holds before anything happened.
LEMMA InvariantAtStart == Init => AdmissionInv
<1> SUFFICES ASSUME Init PROVE AdmissionInv
  OBVIOUS
<1>1. /\ now = 0 /\ reservations = <<>> /\ tx = [p \in Procs |-> Idle]
      /\ run = [r \in Runs |-> [status |-> "WAITING", owner |-> None, attempt |-> 1,
                                assigned |-> FALSE]]
      /\ usage = [t \in Tenants |-> [d \in Days |-> [spent |-> 0, reserved |-> 0]]]
  BY DEF Init
<1>2. Idle \in Transaction /\ Idle.stage = "idle"
  BY DEF Idle, Transaction, Stages
<1>3. cluster \in [Clusters -> ClusterRecord]
  <2>1. PICK f \in [Clusters -> {[usable |-> TRUE, reports |-> <<c>>] : c \in Reports}] : cluster = f
    BY DEF Init
  <2>2. \A c \in Reports : [usable |-> TRUE, reports |-> <<c>>] \in ClusterRecord
    BY AdmissionAssumption DEF ClusterRecord
  <2> QED BY <2>1, <2>2
<1>4. TypeOK
  <2>1. 0 \in 0..MaxClock
    BY AdmissionAssumption
  <2>2. run \in [Runs -> RunRecord]
    BY <1>1 DEF RunRecord
  <2>3. usage \in [Tenants -> [Days -> [spent : Int, reserved : Int]]]
    BY <1>1
  <2>4. tx \in [Procs -> Transaction]
    BY <1>1, <1>2
  <2>5. reservations \in Seq(Bundle)
    BY <1>1
  <2> QED BY <1>1, <1>3, <2>1, <2>2, <2>3, <2>4, <2>5, Zenon DEF TypeOK
<1>5. \A p \in Procs : Started(tx[p], now) /\ HasRoom(tx[p], run) /\ Fits(tx[p], cluster, reservations)
  BY <1>1, <1>2 DEF Started, HasRoom, Fits
<1>6. LocksExclusive
  BY <1>1, <1>2 DEF LocksExclusive, Held, RunHeld, PolicyHeld, ClusterHeld
<1>7. WaitingIsUnassigned
  BY <1>1 DEF WaitingIsUnassigned
<1>8. QuotaRespected
  <2>1. ASSUME NEW t \in Tenants PROVE Within(WorkingIn(run, t), t)
    <3>1. WorkingIn(run, t) = {} /\ \A u : UserIn({}, u) = {}
      BY <1>1 DEF WorkingIn, UserIn
    <3>2. Cardinality({}) = 0 /\ SizeOf({}) = 0
      BY FS_EmptySet, SumOfNone DEF SizeOf
    <3> QED BY <3>1, <3>2, LimitsAreNat DEF Within
  <2> QED BY <2>1, QuotaIsWithin
<1>9. CapacityRespected
  <2>1. ASSUME NEW k \in Clusters PROVE ReservedOn(k, now) <= Max(Reported(k))
    <3>1. CountedIn(reservations, k, now) = {}
      BY <1>1 DEF CountedIn
    <3>2. ReservedOn(k, now) = 0
      BY <3>1, ReservedOnIn, SumOfNone DEF ReservedIn
    <3>3. Latest(k) \in ReportsIn(cluster, k) /\ Latest(k) \in Nat
      BY <1>4, LatestIsReported
    <3>4. 0 <= Max(ReportsIn(cluster, k))
      <4>1. 0 \in Nat /\ \E c \in ReportsIn(cluster, k) : 0 <= c
        BY <3>3
      <4> QED BY <1>3, <4>1, CapacityIsAReport
    <3> QED BY <3>2, <3>4 DEF Reported, ReportsIn
  <2> QED BY <2>1 DEF CapacityRespected
<1>10. LedgerBalanced
  <2>1. \A t, d, s : ChargesIn(reservations, t, d, s) = {}
    BY <1>1 DEF ChargesIn
  <2>2. \A t, d, s : ChargedIn(reservations, t, d, s) = 0
    BY <2>1, SumOfNone DEF ChargedIn
  <2>3. Balanced(reservations, usage)
    BY <1>1, <2>2 DEF Balanced
  <2> QED BY <2>3, LedgerIsBalanced
<1>11. BudgetRespected
  BY <1>1, LimitsAreNat DEF BudgetRespected
<1> QED BY <1>4, <1>5, <1>6, <1>7, <1>8, <1>9, <1>10, <1>11 DEF AdmissionInv

\* Every step keeps the invariant.
LEMMA InvariantIsKept == AdmissionInv /\ [Next]_vars => AdmissionInv'
<1> SUFFICES ASSUME AdmissionInv, [Next]_vars PROVE AdmissionInv'
  OBVIOUS
<1>1. TxStep /\ BookStep
  BY TxSteps, BookSteps
<1>2. run' \in [Runs -> RunRecord] /\ WaitingIsUnassigned' /\ RunStep
  BY RunSteps
<1>3. /\ now' \in 0..MaxClock /\ now <= now'
      /\ cluster' \in [Clusters -> ClusterRecord]
      /\ \A k \in Clusters : ReportsIn(cluster, k) \subseteq ReportsIn(cluster', k)
  BY ClusterSteps
<1>4. now' \in Nat
  BY <1>3, AdmissionAssumption
<1>5. tx' \in [Procs -> Transaction] /\ \A p \in Procs : Started(tx'[p], now')
  BY <1>1, <1>3, <1>4, TransactionsProceed
<1>6. TypeOK'
  BY <1>1, <1>2, <1>3, <1>5, BookStaysTyped, UsageStaysTyped DEF TypeOK
<1>7. \A p \in Procs : HasRoom(tx'[p], run') /\ Fits(tx'[p], cluster', reservations')
  BY <1>1, <1>2, <1>3, <1>4, RoomStays, FitStays
<1>8. QuotaRespected' /\ CapacityRespected'
  BY <1>1, <1>2, <1>3, <1>4, QuotaStays, CapacityStays
<1>9. LocksExclusive' /\ LedgerBalanced' /\ BudgetRespected'
  BY <1>1, LocksStayExclusive, LedgerStays, BudgetStays
<1> QED BY <1>2, <1>5, <1>6, <1>7, <1>8, <1>9 DEF AdmissionInv

\* Locks are exclusive, and what a transaction has checked under its locks
\* stays true until it commits.
THEOREM AdmissionInvariant == Spec => []AdmissionInv
BY InvariantAtStart, InvariantIsKept, PTL DEF Spec

\* lockTenantPolicy serializes admission: whatever number of workers schedule
\* at once, no tenant works on more runs, for itself or for a user, or on more
\* in size than its policy allows.
THEOREM QuotasAreKept == Spec => []QuotaRespected
<1>1. AdmissionInv => QuotaRespected
  BY DEF AdmissionInv
<1> QED BY <1>1, AdmissionInvariant, PTL

\* The reservation insert under the cluster lock: what is reserved on a cluster
\* at a time is never more than a capacity the cluster has reported.
THEOREM CapacityIsKept == Spec => []CapacityRespected
<1>1. AdmissionInv => CapacityRespected
  BY DEF AdmissionInv
<1> QED BY <1>1, AdmissionInvariant, PTL

\* daily_usage is exact: what it holds as reserved and as spent is the sum over
\* the reservations, whoever inserts, settles, releases or expires them.
THEOREM LedgerIsKept == Spec => []LedgerBalanced
<1>1. AdmissionInv => LedgerBalanced
  BY DEF AdmissionInv
<1> QED BY <1>1, AdmissionInvariant, PTL

\* The daily budget: the conditional update of daily_usage never lets what is
\* spent and reserved on a day exceed the budget of the policy.
THEOREM BudgetIsKept == Spec => []BudgetRespected
<1>1. AdmissionInv => BudgetRespected
  BY DEF AdmissionInv
<1> QED BY <1>1, AdmissionInvariant, PTL
=============================================================================
