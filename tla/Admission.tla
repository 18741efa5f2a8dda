------------------------------ MODULE Admission ------------------------------
(***************************************************************************)
(* Final admission: how the transactions of scheduler workers and of the    *)
(* reservation repository share tenant quotas, cluster capacity and the     *)
(* daily budget.  RunQueue takes each transaction as one step; here the     *)
(* long ones run statement by statement under READ COMMITTED, so that what  *)
(* keeps the limits is the row locks the code takes and their order:        *)
(*                                                                          *)
(*   Evaluate    policy, (run)                                              *)
(*   Schedule    run, policy, cluster                                       *)
(*   Reserve     policy, cluster, (run)                                     *)
(*   transition  policy                                                     *)
(*                                                                          *)
(* A row in parentheses is locked FOR KEY SHARE by a foreign key of the row *)
(* the transaction inserts, all others FOR UPDATE.  Rows that are only ever *)
(* locked under one of these (the attempt, the reservations, the usage row  *)
(* of the day) need no lock of their own in the model.  CPU and memory are  *)
(* checked alike, and are one resource here.                                *)
(***************************************************************************)
EXTENDS Integers, Sequences, FiniteSets, FiniteSetsExt

CONSTANTS
  Runs, Tenants, Users, Clusters,
  Workers,          \* scheduler workers, each with at most one claim
  Callers,          \* callers of Reserve
  None,             \* no run, no cluster or no owner
  TenantOf, UserOf, \* of each run
  Size, Cost,       \* resources a run requests and the budget it is estimated at
  Suspendable,      \* runs whose tenant, project or runtime may be disallowed at any time
  Policy,           \* of each tenant: maxRuns, maxUserRuns, maxQueued, maxSize, daily
  Reports,          \* bound: capacities a cluster may report
  TTL,              \* ReservationTTL
  DayLength,        \* length of a budget day
  MaxAttempts, MaxLag, MaxClock, MaxReservations, MaxReports,  \* bounds
  Recovery          \* bound: transitions asked for, of RELEASED, SETTLED and EXPIRED

ASSUME AdmissionAssumption ==
  /\ IsFiniteSet(Runs) /\ TenantOf \in [Runs -> Tenants] /\ UserOf \in [Runs -> Users]
  /\ Size \in [Runs -> Nat \ {0}] /\ Cost \in [Runs -> Nat]
  /\ \A t \in Tenants :
       /\ Policy[t].maxRuns \in Nat /\ Policy[t].maxUserRuns \in 1..Policy[t].maxRuns
       /\ Policy[t].maxQueued \in Nat \ {0} /\ Policy[t].maxSize \in Nat \ {0}
       /\ Policy[t].daily \in Nat
  /\ Reports \subseteq Nat /\ TTL \in Nat \ {0} /\ DayLength \in Nat \ {0} /\ MaxClock \in Nat
  /\ None \notin Runs \cup Clusters \cup Workers
  /\ Workers \cap Callers = {}
  /\ Recovery \subseteq {"RELEASED", "SETTLED", "EXPIRED"}

VARIABLES
  now,           \* the fastest clock
  run,           \* agent_runs: status, lease owner, attempt number, whether it is assigned
  cluster,       \* clusters: whether one may be used, and its capacity snapshots
  reservations,  \* capacity_reservations with their budget_reservations
  usage,         \* tenant_daily_budget_usage
  tx,            \* what each worker or caller is doing
  batch          \* the expired reservations a reclaim has selected

vars == <<now, run, cluster, reservations, usage, tx, batch>>

Procs == Workers \cup Callers
Days == 0..(MaxClock \div DayLength)
Day(t) == t \div DayLength

\* QUEUED, SCHEDULING and CAPACITY_WAIT are WAITING, with an owner when
\* SCHEDULING; EXECUTING is PROVISIONING and every status after it that is not
\* terminal; DONE is every terminal status.  A reservation is a bundle: the
\* capacity row and its budget row change together.

\* Workers: idle, claimed, evaluating, evaluated, renewed, locked, admitted,
\* asked, placed.  Callers: idle, requested, reserving, reserved.
Idle == [stage |-> "idle", run |-> None, attempt |-> 0, cluster |-> None, at |-> 0,
         decision |-> "NONE", capacity |-> 0]

Init ==
  /\ now = 0
  /\ run = [r \in Runs |-> [status |-> "WAITING", owner |-> None, attempt |-> 1,
                            assigned |-> FALSE]]
  /\ cluster \in [Clusters -> {[usable |-> TRUE, reports |-> <<c>>] : c \in Reports}]
  /\ reservations = <<>>
  /\ usage = [t \in Tenants |-> [d \in Days |-> [spent |-> 0, reserved |-> 0]]]
  /\ tx = [p \in Procs |-> Idle]
  /\ batch = [at |-> 0, items |-> <<>>]
-----------------------------------------------------------------------------
(* Row locks of PostgreSQL. *)

PolicyLock(r) == <<"policy", TenantOf[r]>>
RunLock(r) == <<"run", r>>
ClusterLock(k) == <<"cluster", k>>

RunHeld(x) == IF x.stage \in {"locked", "admitted", "asked", "placed"} THEN {RunLock(x.run)} ELSE {}

\* Mutants of PolicyHeld and ClusterHeld: SELECT without FOR UPDATE.
PolicyRead(x) == {}
ClusterRead(x) == {}

PolicyHeld(x) ==
  IF x.stage \in {"evaluating", "admitted", "asked", "placed", "reserving", "reserved"}
  THEN {PolicyLock(x.run)} ELSE {}
ClusterHeld(x) == IF x.stage \in {"placed", "reserved"} THEN {ClusterLock(x.cluster)} ELSE {}

Held(p) == RunHeld(tx[p]) \cup PolicyHeld(tx[p]) \cup ClusterHeld(tx[p])

\* The row the transaction's next statement has to lock, if any.
Wants(p) ==
  CASE tx[p].stage \in {"claimed", "locked", "requested"} -> {PolicyLock(tx[p].run)}
    [] tx[p].stage \in {"renewed", "evaluated", "evaluating", "reserved"} -> {RunLock(tx[p].run)}
    [] tx[p].stage \in {"asked", "reserving"} -> {ClusterLock(tx[p].cluster)}
    [] OTHER -> {}

Granted(p) == \A q \in Procs \ {p} : Wants(p) \cap Held(q) = {}
Unlocked(row) == \A q \in Procs : row \notin Held(q)
-----------------------------------------------------------------------------
(* The policy rules and the sums they read. *)

Readings == {t \in 0..now : t + MaxLag >= now}

\* readSchedulingUsage
Active(t) == {r \in Runs : TenantOf[r] = t /\ run[r].status \in {"EXECUTING", "CANCELLING"}}
Queued(t) == {r \in Runs : TenantOf[r] = t /\ run[r].status = "WAITING"}
SizeOf(rs) == SumFunctionOnSet(Size, rs)

\* concurrencyRule, queueRule, resourceQuotaRule and budgetRule.
Blocked(r, at) ==
  LET t == TenantOf[r]
      active == Active(t)
      used == usage[t][Day(at)]
  IN \/ Cardinality(active) >= Policy[t].maxRuns
     \/ Cardinality({a \in active : UserOf[a] = UserOf[r]}) >= Policy[t].maxUserRuns
     \/ Cardinality(Queued(t)) > Policy[t].maxQueued
     \/ SizeOf(active) + Size[r] > Policy[t].maxSize
     \/ used.spent + used.reserved >= Policy[t].daily

\* EvaluateEligibility: resourceStatusRule and runtimeProfileRule come first; what
\* they look at is not locked and may be different at the next evaluation.
Eligibility(r, at) ==
  {IF Blocked(r, at) THEN "DEFER" ELSE "ELIGIBLE"}
    \cup (IF r \in Suspendable THEN {"REJECT"} ELSE {})

\* The reservations that count against a cluster at a time.
Counted(k, at) ==
  {i \in DOMAIN reservations : /\ reservations[i].cluster = k
                               /\ reservations[i].state = "RESERVED"
                               /\ reservations[i].expires > at}

ReservedOn(k, at) ==
  SumFunctionOnSet([i \in DOMAIN reservations |-> Size[reservations[i].run]], Counted(k, at))

Latest(k) == cluster[k].reports[Len(cluster[k].reports)]

\* Mutant of Affordable: reserved budget is not subtracted.
AffordableSpent(r, at) ==
  Cost[r] <= Policy[TenantOf[r]].daily - usage[TenantOf[r]][Day(at)].spent

Affordable(r, at) ==
  LET used == usage[TenantOf[r]][Day(at)]
  IN Cost[r] <= Policy[TenantOf[r]].daily - used.spent - used.reserved

\* The unique index on the active reservation of an attempt.
NoneActive(r, n) ==
  ~\E i \in DOMAIN reservations : /\ reservations[i].run = r /\ reservations[i].attempt = n
                                  /\ reservations[i].state = "RESERVED"

\* newReservationBundle, the inserts of its two rows and the charge of the day.
InsertBundle(r, n, k, at) ==
  /\ Len(reservations) < MaxReservations
  /\ NoneActive(r, n)
  /\ reservations' = Append(reservations,
       [run |-> r, attempt |-> n, cluster |-> k, state |-> "RESERVED", created |-> at,
        expires |-> at + TTL, day |-> Day(at), amount |-> Cost[r]])
  /\ usage' = [usage EXCEPT ![TenantOf[r]][Day(at)].reserved = @ + Cost[r]]
-----------------------------------------------------------------------------
(* Scheduler workers. *)

Become(p, x) == tx' = [tx EXCEPT ![p] = x]
At(p, stage) == Become(p, [tx[p] EXCEPT !.stage = stage])

\* Claim skips a run whose row is locked.  A lease may have run out at any time,
\* and its worker not know it.
Claim(p, r) ==
  /\ tx[p].stage = "idle"
  /\ run[r].status = "WAITING"
  /\ Unlocked(RunLock(r))
  /\ run' = [run EXCEPT ![r].owner = p]
  /\ Become(p, [Idle EXCEPT !.stage = "claimed", !.run = r, !.attempt = run[r].attempt])
  /\ UNCHANGED <<now, cluster, reservations, usage, batch>>

\* Evaluate locks the policy, then reads the usage and decides.
Evaluate(p) ==
  /\ tx[p].stage = "claimed"
  /\ Granted(p)
  /\ \E at \in Readings : \E decision \in Eligibility(tx[p].run, at) :
       Become(p, [tx[p] EXCEPT !.stage = "evaluating", !.at = at, !.decision = decision])
  /\ UNCHANGED <<now, run, cluster, reservations, usage, batch>>

\* The insert of the decision, whose foreign key locks the run, and the commit.
RecordDecision(p) ==
  /\ tx[p].stage = "evaluating"
  /\ Granted(p)
  /\ At(p, "evaluated")
  /\ UNCHANGED <<now, run, cluster, reservations, usage, batch>>

\* The lease conditions of Renew and Schedule (RunQueue, Holds).
Owns(p) ==
  /\ run[tx[p].run].status = "WAITING"
  /\ run[tx[p].run].owner = p
  /\ run[tx[p].run].attempt = tx[p].attempt

Renew(p) ==
  /\ tx[p].stage = "evaluated"
  /\ Granted(p)
  /\ Owns(p)
  /\ \E at \in Readings : Become(p, [tx[p] EXCEPT !.stage = "renewed", !.at = at])
  /\ UNCHANGED <<now, run, cluster, reservations, usage, batch>>

\* ListCandidates and rankCandidates offer the usable clusters that are large
\* enough when empty; reservations are not subtracted before admission.
Candidates(r) == {k \in Clusters : cluster[k].usable /\ Latest(k) >= Size[r]}

\* DeferCapacity, of a deferred run or of one without a candidate.
Defer(p) ==
  /\ tx[p].stage = "renewed"
  /\ \/ tx[p].decision = "DEFER"
     \/ tx[p].decision = "ELIGIBLE" /\ Candidates(tx[p].run) = {}
  /\ Granted(p)
  /\ Owns(p)
  /\ run' = [run EXCEPT ![tx[p].run].owner = None]
  /\ Become(p, Idle)
  /\ UNCHANGED <<now, cluster, reservations, usage, batch>>

Reject(p) ==
  /\ tx[p].stage = "renewed"
  /\ tx[p].decision = "REJECT"
  /\ Granted(p)
  /\ Owns(p)
  /\ run' = [run EXCEPT ![tx[p].run].status = "DONE", ![tx[p].run].owner = None]
  /\ Become(p, Idle)
  /\ UNCHANGED <<now, cluster, reservations, usage, batch>>

\* Schedule locks the run and checks the lease.
ScheduleRun(p) ==
  /\ tx[p].stage = "renewed"
  /\ tx[p].decision = "ELIGIBLE"
  /\ Granted(p)
  /\ Owns(p)
  /\ \E k \in Candidates(tx[p].run) :
       Become(p, [tx[p] EXCEPT !.stage = "locked", !.cluster = k])
  /\ UNCHANGED <<now, run, cluster, reservations, usage, batch>>

\* It locks the policy and evaluates it again at the time of the renewal.
SchedulePolicy(p) ==
  /\ tx[p].stage = "locked"
  /\ Granted(p)
  /\ "ELIGIBLE" \in Eligibility(tx[p].run, tx[p].at)
  /\ At(p, "admitted")
  /\ UNCHANGED <<now, run, cluster, reservations, usage, batch>>

\* The statement that locks the cluster joins its latest snapshot as of the
\* statement's start: after a wait the cluster row is read again, the snapshot
\* is not.
ScheduleAsk(p) ==
  /\ tx[p].stage = "admitted"
  /\ cluster[tx[p].cluster].usable
  /\ Become(p, [tx[p] EXCEPT !.stage = "asked", !.capacity = Latest(tx[p].cluster)])
  /\ UNCHANGED <<now, run, cluster, reservations, usage, batch>>

\* lockEligibleCluster returns, and the reservations are summed.
ScheduleCluster(p) ==
  LET x == tx[p] IN
  /\ x.stage = "asked"
  /\ Granted(p)
  /\ cluster[x.cluster].usable
  /\ x.capacity - ReservedOn(x.cluster, x.at) >= Size[x.run]
  /\ At(p, "placed")
  /\ UNCHANGED <<now, run, cluster, reservations, usage, batch>>

\* The budget is checked, everything is written, and the transaction commits.
ScheduleCommit(p) ==
  LET x == tx[p] IN
  /\ x.stage = "placed"
  /\ Affordable(x.run, x.at)
  /\ InsertBundle(x.run, x.attempt, x.cluster, x.at)
  /\ run' = [run EXCEPT ![x.run].status = "EXECUTING", ![x.run].owner = None,
                        ![x.run].assigned = TRUE]
  /\ Become(p, Idle)
  /\ UNCHANGED <<now, cluster, batch>>
-----------------------------------------------------------------------------
(* The reservation repository. *)

Ask(p, r, k) ==
  /\ tx[p].stage = "idle"
  /\ run[r].status \in {"WAITING", "EXECUTING"}
  /\ \E at \in Readings :
       Become(p, [Idle EXCEPT !.stage = "requested", !.run = r, !.attempt = run[r].attempt,
                              !.cluster = k, !.at = at])
  /\ UNCHANGED <<now, run, cluster, reservations, usage, batch>>

ReservePolicy(p) ==
  /\ tx[p].stage = "requested"
  /\ Granted(p)
  /\ At(p, "reserving")
  /\ UNCHANGED <<now, run, cluster, reservations, usage, batch>>

\* An active reservation of the attempt is returned or conflicts: Abort.
\* Otherwise the latest snapshot is read after the lock, whatever the cluster's
\* status is.
ReserveCluster(p) ==
  LET x == tx[p] IN
  /\ x.stage = "reserving"
  /\ Granted(p)
  /\ NoneActive(x.run, x.attempt)
  /\ Latest(x.cluster) - ReservedOn(x.cluster, x.at) >= Size[x.run]
  /\ At(p, "reserved")
  /\ UNCHANGED <<now, run, cluster, reservations, usage, batch>>

\* The insert waits for the run's row.
ReserveCommit(p) ==
  LET x == tx[p] IN
  /\ x.stage = "reserved"
  /\ Granted(p)
  /\ Affordable(x.run, x.at)
  /\ InsertBundle(x.run, x.attempt, x.cluster, x.at)
  /\ Become(p, Idle)
  /\ UNCHANGED <<now, run, cluster, batch>>

\* The rows transition may pick: the latest of the attempt by creation time.
LatestOf(r, n) ==
  LET mine == {i \in DOMAIN reservations : reservations[i].run = r /\ reservations[i].attempt = n}
  IN {i \in mine : \A j \in mine : reservations[j].created <= reservations[i].created}

\* Mutant of Credit: the budget goes back to the day of the request.
CreditToday(i, target, at) ==
  LET x == reservations[i] IN
  usage' = [usage EXCEPT ![TenantOf[x.run]][Day(at)] =
    [reserved |-> @.reserved - x.amount,
     spent |-> @.spent + (IF target = "SETTLED" THEN x.amount ELSE 0)]]

Credit(i, target, at) ==
  LET x == reservations[i] IN
  usage' = [usage EXCEPT ![TenantOf[x.run]][x.day] =
    [reserved |-> @.reserved - x.amount,
     spent |-> @.spent + (IF target = "SETTLED" THEN x.amount ELSE 0)]]

\* transition moves a reservation out of RESERVED.  It changes nothing when the
\* target is already there, or when one to expire has not expired; any other
\* state is a conflict.
Moves(i, target, at) ==
  /\ reservations[i].state = "RESERVED"
  /\ target = "EXPIRED" => reservations[i].expires <= at

Move(i, target, at) ==
  /\ Unlocked(PolicyLock(reservations[i].run))
  /\ Moves(i, target, at)
  /\ reservations' = [reservations EXCEPT ![i].state = target]
  /\ Credit(i, target, at)

\* Release and Settle.
Transition(r, n, target) ==
  /\ target \in Recovery \ {"EXPIRED"}
  /\ \E i \in LatestOf(r, n), at \in Readings : Move(i, target, at)
  /\ UNCHANGED <<now, run, cluster, tx, batch>>

\* ReclaimExpired selects without a lock the earliest expired reservations.
SelectExpired ==
  /\ "EXPIRED" \in Recovery
  /\ batch.items = <<>>
  /\ \E at \in Readings :
       LET due == {i \in DOMAIN reservations : /\ reservations[i].state = "RESERVED"
                                               /\ reservations[i].expires <= at}
           earlier(i, j) == reservations[i].expires <= reservations[j].expires
       IN /\ due # {}
          /\ \E s \in [1..Cardinality(due) -> due] :
               /\ \A m, n \in DOMAIN s : m < n => s[m] # s[n] /\ earlier(s[m], s[n])
               /\ batch' = [at |-> at, items |->
                    [m \in DOMAIN s |-> <<reservations[s[m]].run, reservations[s[m]].attempt>>]]
  /\ UNCHANGED <<now, run, cluster, reservations, usage, tx>>

\* It then moves them one transaction each; the first conflict ends the batch.
ReclaimNext ==
  /\ batch.items # <<>>
  /\ \E i \in LatestOf(Head(batch.items)[1], Head(batch.items)[2]) :
       \/ /\ Move(i, "EXPIRED", batch.at)
          /\ batch' = [batch EXCEPT !.items = Tail(@)]
       \/ /\ ~Moves(i, "EXPIRED", batch.at)
          /\ Unlocked(PolicyLock(reservations[i].run))
          /\ batch' = IF reservations[i].state \in {"RESERVED", "EXPIRED"}
                      THEN [batch EXCEPT !.items = Tail(@)]
                      ELSE [at |-> 0, items |-> <<>>]
          /\ UNCHANGED <<reservations, usage>>
  /\ UNCHANGED <<now, run, cluster, tx>>
-----------------------------------------------------------------------------
(* Everyone else. *)

\* Any error, refusal, deadlock victim or crash: the transaction rolls back, the
\* worker goes on to another claim, and a lease it held runs out.
Abort(p) ==
  /\ tx[p].stage # "idle"
  /\ Become(p, Idle)
  /\ UNCHANGED <<now, run, cluster, reservations, usage, batch>>

Cancel(r) ==
  /\ run[r].status \in {"WAITING", "EXECUTING"}
  /\ Unlocked(RunLock(r))
  /\ run' = [run EXCEPT ![r].status = "CANCELLING", ![r].owner = None]
  /\ UNCHANGED <<now, cluster, reservations, usage, tx, batch>>

\* A writer moves the run to a terminal status.
Finish(r) ==
  /\ run[r].status \in {"EXECUTING", "CANCELLING"}
  /\ Unlocked(RunLock(r))
  /\ run' = [run EXCEPT ![r].status = "DONE"]
  /\ UNCHANGED <<now, cluster, reservations, usage, tx, batch>>

Retry(r) ==
  /\ run[r].status = "DONE"
  /\ run[r].attempt < MaxAttempts
  /\ Unlocked(RunLock(r))
  /\ run' = [run EXCEPT ![r].status = "WAITING", ![r].attempt = @ + 1, ![r].assigned = FALSE]
  /\ UNCHANGED <<now, cluster, reservations, usage, tx, batch>>

\* ClusterRegistry.Update: status, maintenance, heartbeat or allowlist, and a
\* new snapshot.
UpdateCluster(k) ==
  /\ Len(cluster[k].reports) < MaxReports
  /\ Unlocked(ClusterLock(k))
  /\ \E usable \in BOOLEAN, c \in Reports :
       cluster' = [cluster EXCEPT ![k] = [usable |-> usable, reports |-> Append(@.reports, c)]]
  /\ UNCHANGED <<now, run, reservations, usage, tx, batch>>

Tick ==
  /\ now < MaxClock
  /\ now' = now + 1
  /\ UNCHANGED <<run, cluster, reservations, usage, tx, batch>>

Worker ==
  \E p \in Workers :
    \/ \E r \in Runs : Claim(p, r)
    \/ Evaluate(p) \/ RecordDecision(p) \/ Renew(p) \/ Defer(p) \/ Reject(p)
    \/ ScheduleRun(p) \/ SchedulePolicy(p) \/ ScheduleAsk(p) \/ ScheduleCluster(p)
    \/ ScheduleCommit(p)

Repository ==
  \/ \E p \in Callers :
       \/ \E r \in Runs, k \in Clusters : Ask(p, r, k)
       \/ ReservePolicy(p) \/ ReserveCluster(p) \/ ReserveCommit(p)
  \/ \E r \in Runs, n \in 1..MaxAttempts, target \in Recovery : Transition(r, n, target)
  \/ SelectExpired
  \/ ReclaimNext

Next ==
  \/ Worker
  \/ Repository
  \/ \E p \in Procs : Abort(p)
  \/ \E r \in Runs : Cancel(r) \/ Finish(r) \/ Retry(r)
  \/ \E k \in Clusters : UpdateCluster(k)
  \/ Tick

Spec == Init /\ [][Next]_vars
-----------------------------------------------------------------------------
(* Properties *)

\* A run whose current attempt may have a workload on a cluster.
Working(r) == run[r].assigned /\ run[r].status \in {"EXECUTING", "CANCELLING"}

\* However evaluations, admissions, cancellations and retries interleave, the
\* runs with a workload stay within the tenant's limits on runs, on runs of one
\* user and on resources: what readSchedulingUsage counts under the policy lock
\* never misses one.
QuotaRespected ==
  \A t \in Tenants :
    LET working == {r \in Runs : TenantOf[r] = t /\ Working(r)}
    IN /\ Cardinality(working) <= Policy[t].maxRuns
       /\ \A u \in Users : Cardinality({r \in working : UserOf[r] = u}) <= Policy[t].maxUserRuns
       /\ SizeOf(working) <= Policy[t].maxSize

Reported(k) == {cluster[k].reports[i] : i \in DOMAIN cluster[k].reports}

\* The reservations of a cluster that no clock sees as expired never add up to
\* more than the cluster has reported, whichever tenants and entry points
\* (Schedule, Reserve) they come from.
CapacityRespected ==
  \A k \in Clusters :
    ReservedOn(k, now) <= Max(Reported(k))

\* The usage row of a day is the sum of the reservations charged to that day,
\* also when one is settled, released or reclaimed on a later day or by two
\* callers at once.
LedgerBalanced ==
  \A t \in Tenants, d \in Days :
    LET amount == [i \in DOMAIN reservations |-> reservations[i].amount]
        charged(state) == SumFunctionOnSet(amount,
          {i \in DOMAIN reservations : /\ TenantOf[reservations[i].run] = t
                                       /\ reservations[i].day = d
                                       /\ reservations[i].state = state})
    IN usage[t][d] = [spent |-> charged("SETTLED"), reserved |-> charged("RESERVED")]

\* No day's spent and reserved budget exceeds the tenant's daily limit.
BudgetRespected ==
  \A t \in Tenants, d \in Days :
    usage[t][d].spent + usage[t][d].reserved <= Policy[t].daily

\* No set of transactions waits only for each other.
NoLockCycle ==
  ~\E S \in SUBSET Procs :
      /\ S # {}
      /\ \A p \in S : \E q \in S \ {p} : Wants(p) \cap Held(q) # {}
=============================================================================
