----------------------------- MODULE Placement -----------------------------
(***************************************************************************)
(* The choice of a cluster for an eligible run: rankCandidates and the two *)
(* strategies on top of it.  Admission leaves the choice open; this module *)
(* says which of the candidates it is, and that the answer depends on the  *)
(* candidates alone: not on the order in which the registry listed them,   *)
(* nor on how sort.Slice, which is not stable, arranges what compares      *)
(* equal.                                                                  *)
(*                                                                         *)
(* A candidate is a cluster with its latest capacity report.  The strings  *)
(* of cluster ids are ordered, which is all the ranking uses of them, and  *)
(* are numbers here.  Every int64 the ranking computes is non-negative and *)
(* bounded by what the domain validates (UtilizationInRange), so integers  *)
(* need no width.                                                          *)
(***************************************************************************)
EXTENDS Integers, FiniteSets

\* Cluster.Validate and ClusterCapacity.Validate, where the ranking looks.
ClusterCandidate(regions) ==
    [id: Nat, region: regions, active: BOOLEAN, maintenance: BOOLEAN, weight: 1..1000,
     cost: Nat, cpu: Nat, memory: Nat, queued: Nat]

\* What rankCandidates accepts as a request.
SelectionRequest == [cpu: Nat \ {0}, memory: Nat \ {0}]

ceilingRatio(numerator, denominator, scale) ==
    LET quotient == numerator \div denominator
        remainder == numerator % denominator
    IN  quotient * scale
          + (IF remainder # 0 THEN (remainder * scale - 1) \div denominator + 1 ELSE 0)

Larger(a, b) == IF a >= b THEN a ELSE b

\* The scales of the projected utilization and of its share in the score.
BasisPoints == 10000
ScoreScale == 1000

\* The candidates that are not skipped.
Sufficient(c, request) ==
    /\ c.cpu >= request.cpu /\ c.memory >= request.memory
    /\ c.active /\ ~c.maintenance
Rankable(candidates, request) == {c \in candidates : Sufficient(c, request)}

Projected(c, request) ==
    Larger(ceilingRatio(request.cpu, c.cpu, BasisPoints),
           ceilingRatio(request.memory, c.memory, BasisPoints))
Score(c, request) ==
    (Projected(c, request) * ScoreScale) \div c.weight + c.queued * 100 + c.cost

\* scoredCandidate
Scored(c, request) ==
    [score |-> Score(c, request), projected |-> Projected(c, request), queued |-> c.queued,
     cost |-> c.cost, id |-> c.id]

\* The comparison handed to sort.Slice.
Less(a, b) ==
    \/ a.score < b.score
    \/ a.score = b.score /\ a.projected < b.projected
    \/ a.score = b.score /\ a.projected = b.projected /\ a.queued < b.queued
    \/ /\ a.score = b.score /\ a.projected = b.projected /\ a.queued = b.queued
       /\ a.cost < b.cost
    \/ /\ a.score = b.score /\ a.projected = b.projected /\ a.queued = b.queued
       /\ a.cost = b.cost /\ a.id < b.id

\* What ranked[0] may be: sorting puts nothing before it that compares less.
First(candidates, request) ==
    {c \in Rankable(candidates, request) :
       \A d \in Rankable(candidates, request) : ~Less(Scored(d, request), Scored(c, request))}

Regional(candidates, region) == {c \in candidates : c.region = region}

\* The possible selections of each strategy; none is NoCapacityError.  The
\* region-affine one falls back to all candidates when the preferred region,
\* if there is one, has none.
LeastLoaded(candidates, request) == First(candidates, request)
RegionAffinity(candidates, request, preferred, none) ==
    IF preferred # none /\ First(Regional(candidates, preferred), request) # {}
    THEN First(Regional(candidates, preferred), request)
    ELSE First(candidates, request)
=============================================================================
