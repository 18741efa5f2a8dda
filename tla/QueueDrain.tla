----------------------------- MODULE QueueDrain -----------------------------
(***************************************************************************)
(* Progress of the queue: which due runs a poll claims, what the tenant     *)
(* policy makes of them, and whether every waiting run gets its turn.       *)
(* Versions and leases are RunQueue's; here one engine polls, a worker      *)
(* takes a claim through evaluation to its outcome in one step, before the  *)
(* lease runs out or not at all (Lose), and time is counted in polls.  CPU  *)
(* and memory are one resource, the user limit and the budget are left to   *)
(* Admission, and a cluster always has room.                                *)
(***************************************************************************)
EXTENDS Integers, FiniteSets, FiniteSetsExt

CONSTANTS
  Runs, Tenants,
  TenantOf, Size, Priority,
  Older,              \* Older[r]: the runs before r by created_at, tenant_id, id
  MaxRuns, MaxQueued, MaxSize,  \* the policy of every tenant
  BatchSize, WorkQueueSize,
  DeferralPolls,      \* polls until a deferred run is due again
  LeasePolls,         \* polls until the lease of a lost claim has run out
  AgingInterval,      \* polls per point of the queue-age boost
  MaximumAgingBoost,
  MaxLosses           \* bound: claims lost to errors and crashes

ASSUME QueueDrainAssumption ==
  /\ IsFiniteSet(Runs) /\ TenantOf \in [Runs -> Tenants] /\ Size \in [Runs -> Nat \ {0}]
  /\ Priority \in [Runs -> Int] /\ Older \in [Runs -> SUBSET Runs]
  /\ \A r, s \in Runs :
       /\ r \in Older[s] => Older[r] \subseteq Older[s]
       /\ r \in Older[s] <=> r # s /\ s \notin Older[r]
  /\ {MaxRuns, MaxQueued, MaxSize, BatchSize, WorkQueueSize,
      DeferralPolls, LeasePolls, AgingInterval} \subseteq Nat \ {0}
  /\ MaximumAgingBoost \in Nat /\ MaxLosses \in Nat

VARIABLES
  status,  \* of each run; EXECUTING is PROVISIONING and what follows it
  wait,    \* polls until a CAPACITY_WAIT run, or a lost SCHEDULING run, is due
  age,     \* polls since creation, as far as the boost can tell
  jobs,    \* claims in the engine's memory
  losses

drainVars == <<status, wait, age, jobs, losses>>

Waiting(r) == status[r] \in {"QUEUED", "SCHEDULING", "CAPACITY_WAIT"}

DrainInit ==
  /\ status = [r \in Runs |-> "QUEUED"]
  /\ wait = [r \in Runs |-> 0]
  /\ age = [r \in Runs |-> 0]
  /\ jobs = {}
  /\ losses = 0
-----------------------------------------------------------------------------
(* The ranking of the claim statement. *)

AgeCap == MaximumAgingBoost * AgingInterval
EffectivePriority(r) == Priority[r] + Min({MaximumAgingBoost, age[r] \div AgingInterval})

\* Mutant of Due: a deferred run is due at once.
DueAtOnce(r) == r \notin jobs /\ Waiting(r)

Due(r) == r \notin jobs /\ Waiting(r) /\ wait[r] = 0

\* effective_priority desc, created_at asc
Before(r, s) ==
  \/ EffectivePriority(r) > EffectivePriority(s)
  \/ EffectivePriority(r) = EffectivePriority(s) /\ r \in Older[s]

TenantRank(r) == Cardinality({s \in Runs : Due(s) /\ TenantOf[s] = TenantOf[r] /\ Before(s, r)})

\* Mutant of Precedes: priority alone.
PrecedesByPriority(r, s) == Before(r, s)

\* The order in which due runs are claimed: rank in the tenant first.
Precedes(r, s) ==
  \/ TenantRank(r) < TenantRank(s)
  \/ TenantRank(r) = TenantRank(s) /\ Before(r, s)

Limit == Min({BatchSize, WorkQueueSize - Cardinality(jobs)})
Selected ==
  {r \in Runs : Due(r) /\ Cardinality({s \in Runs : Due(s) /\ Precedes(s, r)}) < Limit}

\* One iteration of Engine.Run: scan claims, and the poll interval passes.
Poll ==
  /\ LET claimed == Selected IN
     /\ status' = [r \in Runs |-> IF r \in claimed THEN "SCHEDULING" ELSE status[r]]
     /\ jobs' = jobs \cup claimed
  /\ wait' = [r \in Runs |-> IF wait[r] > 0 THEN wait[r] - 1 ELSE 0]
  /\ age' = [r \in Runs |-> Min({AgeCap, age[r] + 1})]
  /\ UNCHANGED losses
-----------------------------------------------------------------------------
(* The policy rules. *)

Active(t) == {r \in Runs : TenantOf[r] = t /\ status[r] \in {"EXECUTING", "CANCELLING"}}
Queued(t) == {r \in Runs : TenantOf[r] = t /\ Waiting(r)}

\* Mutant of Eligible: the queue limit counts one too many.
EligibleBelowQueue(r) ==
  LET t == TenantOf[r] IN
  /\ Cardinality(Active(t)) < MaxRuns
  /\ Cardinality(Queued(t)) < MaxQueued
  /\ MapThenSumSet(LAMBDA a : Size[a], Active(t)) + Size[r] <= MaxSize

\* concurrencyRule, queueRule and resourceQuotaRule; the run is itself queued.
Eligible(r) ==
  LET t == TenantOf[r] IN
  /\ Cardinality(Active(t)) < MaxRuns
  /\ Cardinality(Queued(t)) <= MaxQueued
  /\ MapThenSumSet(LAMBDA a : Size[a], Active(t)) + Size[r] <= MaxSize

\* Engine.process, with the outcome Schedule or DeferCapacity.
Process(r) ==
  /\ r \in jobs
  /\ jobs' = jobs \ {r}
  /\ status[r] = "SCHEDULING" =>
       IF Eligible(r)
       THEN status' = [status EXCEPT ![r] = "EXECUTING"] /\ UNCHANGED wait
       ELSE /\ status' = [status EXCEPT ![r] = "CAPACITY_WAIT"]
            /\ wait' = [wait EXCEPT ![r] = DeferralPolls]
  /\ status[r] # "SCHEDULING" => UNCHANGED <<status, wait>>
  /\ UNCHANGED <<age, losses>>

\* An error or a crash: nothing is written and the lease has to run out.
Lose(r) ==
  /\ r \in jobs
  /\ losses < MaxLosses
  /\ jobs' = jobs \ {r}
  /\ wait' = [wait EXCEPT ![r] = LeasePolls]
  /\ losses' = losses + 1
  /\ UNCHANGED <<status, age>>

Cancel(r) ==
  /\ Waiting(r) \/ status[r] = "EXECUTING"
  /\ status' = [status EXCEPT ![r] = "CANCELLING"]
  /\ wait' = [wait EXCEPT ![r] = 0]
  /\ UNCHANGED <<age, jobs, losses>>

\* The workload ends, or its cancellation completes.
Finish(r) ==
  /\ status[r] \in {"EXECUTING", "CANCELLING"}
  /\ status' = [status EXCEPT ![r] = "DONE"]
  /\ UNCHANGED <<wait, age, jobs, losses>>

DrainNext ==
  \/ Poll
  \/ \E r \in Runs : Process(r) \/ Lose(r) \/ Cancel(r) \/ Finish(r)

\* The engine polls as long as it runs, its workers empty their queue, and
\* every workload ends (timeout_seconds bounds it).  Nobody has to cancel.
Fairness ==
  /\ WF_drainVars(Poll)
  /\ \A r \in Runs : WF_drainVars(Process(r)) /\ WF_drainVars(Finish(r))

DrainSpec == DrainInit /\ [][DrainNext]_drainVars /\ Fairness
-----------------------------------------------------------------------------
(* Properties *)

\* Every run gets its turn: a poll claims it sooner or later, whatever runs of
\* higher priority are deferred again and again.
EveryRunIsClaimed == \A r \in Runs : status[r] = "QUEUED" ~> status[r] # "QUEUED"

\* Every run that could be admitted alone leaves the queue: a deferral by
\* concurrency, by a full queue or by resources is temporary.
DeferralIsTemporary ==
  \A r \in {s \in Runs : Size[s] <= MaxSize} : Waiting(r) ~> ~Waiting(r)

\* Interleaving of tenants: a poll does not claim a second run of one tenant
\* while another tenant has a due run and gets none.
TenantsInterleave ==
  [][\A t, u \in Tenants :
       LET claimed(x) == {r \in jobs' \ jobs : TenantOf[r] = x}
       IN Cardinality(claimed(t)) > 1 /\ claimed(u) = {} =>
            ~\E r \in Runs : TenantOf[r] = u /\ Due(r)]_drainVars
=============================================================================
