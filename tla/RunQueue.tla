------------------------------- MODULE RunQueue -------------------------------
(***************************************************************************)
(* The run queue of the control plane: the rows of agent_runs and           *)
(* agent_run_attempts in PostgreSQL, and everyone who writes them.          *)
(*                                                                          *)
(*   - the API: Create, Cancel and Retry, each one transaction;             *)
(*   - scheduler engines, which claim due runs under a lease (Claim), and   *)
(*     whose workers take a claimed run through Evaluate, Renew and one of  *)
(*     Schedule, DeferCapacity and Reject, a transaction each, with any     *)
(*     delay between them;                                                  *)
(*   - workflow writers, which load a row, apply a domain transition and    *)
(*     save it against the version they loaded (Save, SaveAttempt,          *)
(*     CreateNextAttempt).                                                  *)
(*                                                                          *)
(* A transaction that takes the row lock (FOR UPDATE) is one atomic action. *)
(* Time is what an engine's own clock shows: requests carry a time read     *)
(* before the transaction runs, so an action uses a reading that may lag.   *)
(***************************************************************************)
EXTENDS RunStates, Integers, FiniteSets

CONSTANTS
  Runs,             \* runs, each with its tenant's idempotency key
  Engines,          \* scheduler processes; an engine's name is its lease owner
  Commands,         \* command IDs (Idempotency-Key of cancel and retry)
  NoOwner,          \* a null scheduler_lease_owner
  MaxAttempts,      \* max_attempts of every run
  LeaseDuration,    \* LeaseDuration of the engine configuration
  PolicyDeferral,   \* deferral_seconds of the tenant policy
  DeferralDuration, \* DeferralDuration of the engine configuration
  BatchSize,        \* BatchSize of the engine configuration
  WorkQueueSize,    \* capacity of an engine's jobs channel
  WorkerCount,      \* workers of an engine
  Skew,             \* Skew[e]: how far e's clock is ahead of the slowest clock
  MaxDelay,         \* bound: age of a clock reading when its transaction runs
  MaxClock,         \* bound on time
  MaxDrafts,        \* bound: rows loaded by writers and not yet saved
  RunTargets,       \* bound: statuses the writers move runs to
  AttemptTargets    \* bound: statuses the writers move attempts to

ASSUME RunQueueAssumption ==
  /\ NoOwner \notin Engines
  /\ MaxAttempts \in Nat \ {0}
  /\ LeaseDuration \in Nat \ {0}
  /\ PolicyDeferral \in Nat \ {0}
  /\ DeferralDuration \in Nat \ {0}
  /\ BatchSize \in Nat \ {0}
  /\ WorkQueueSize \in Nat \ {0}
  /\ WorkerCount \in Nat \ {0}
  /\ Skew \in [Engines -> Nat]
  /\ MaxDelay \in Nat
  /\ MaxClock \in Nat
  /\ MaxDrafts \in Nat
  /\ RunTargets \subseteq Statuses
  /\ AttemptTargets \subseteq AttemptStatuses \ {"PENDING", "STARTING"}

VARIABLES
  now,          \* time on the slowest clock
  run,          \* rows of agent_runs
  receipt,      \* last_command_type, _id and _response of each run
  attempt,      \* rows of agent_run_attempts, by run and attempt number
  outbox,       \* rows of outbox_events
  assignments,  \* how many handoff intents each attempt has
  jobs,         \* jobs[e]: claims engine e holds in memory
  drafts        \* rows that writers have loaded and not yet saved

vars == <<now, run, receipt, attempt, outbox, assignments, jobs, drafts>>

Numbers == 1..MaxAttempts
Versions == Nat
Times == Int

\* agent_runs: the columns that control the lifecycle.
RunRow ==
  [status : Statuses \cup {NoRow}, failure : FailureCategories \cup {NoFailure},
   attemptCount : 0..MaxAttempts, version : Versions, owner : Engines \cup {NoOwner},
   expires : Times, nextEligible : Times, cancelRequested : BOOLEAN]

AttemptRow ==
  [status : AttemptStatuses \cup {NoRow}, version : Versions, assigned : BOOLEAN]

\* The receipt keeps the command's type and ID and the response it was given.
NoReceipt == [type |-> "NONE", id |-> "NONE", status |-> NoRow, attemptCount |-> 0]
Receipt ==
  [type : {"CANCEL", "RETRY"}, id : Commands, status : Statuses, attemptCount : Numbers]

EventTypes == {"Requested", "Scheduled", "CapacityWait", "Failed", "CancelRequested",
               "RetryRequested"}
Event == [run : Runs, type : EventTypes, version : Versions, attempt : Numbers]

\* A ClaimedRun on its way through an engine: waiting in the jobs channel,
\* evaluated by a worker, or with its lease renewed.  at is the latest time the
\* worker read, next the time it will ask the run to be deferred to.
Job ==
  [run : Runs, version : Versions, attempt : Numbers, attemptVersion : Versions,
   stage : {"queued", "evaluated", "renewed"}, decision : {"NONE", "ELIGIBLE", "DEFER", "REJECT"},
   at : Times, next : Times]

\* What a writer has loaded: a run (number 0) or one of its attempts.
Draft ==
  [run : Runs, number : 0..MaxAttempts, status : Statuses \cup AttemptStatuses,
   failure : FailureCategories \cup {NoFailure}, attemptCount : Numbers, version : Versions,
   assigned : BOOLEAN, cancelRequested : BOOLEAN]
-----------------------------------------------------------------------------
AbsentRun ==
  [status |-> NoRow, failure |-> NoFailure, attemptCount |-> 0, version |-> 0,
   owner |-> NoOwner, expires |-> 0, nextEligible |-> 0, cancelRequested |-> FALSE]

AbsentAttempt == [status |-> NoRow, version |-> 0, assigned |-> FALSE]

\* NewAgentRunAttempt, as insertAttempt writes it.
PendingAttempt == [status |-> "PENDING", version |-> 1, assigned |-> FALSE]

Init ==
  /\ now = 0
  /\ run = [r \in Runs |-> AbsentRun]
  /\ receipt = [r \in Runs |-> NoReceipt]
  /\ attempt = [r \in Runs |-> [n \in Numbers |-> AbsentAttempt]]
  /\ outbox = {}
  /\ assignments = [r \in Runs |-> [n \in Numbers |-> 0]]
  /\ jobs = [e \in Engines |-> {}]
  /\ drafts = {}

\* The event a transaction appends for the row it has just written.
EventOf(r, type) ==
  [run |-> r, type |-> type, version |-> run'[r].version, attempt |-> run'[r].attemptCount]

\* insertAttempt: the pending attempt of the number the run has just got.
InsertAttempt(r) ==
  attempt' = [attempt EXCEPT ![r][run'[r].attemptCount] = PendingAttempt]

\* The row constraints of agent_runs; a transaction that breaks one is rolled back.
RowChecks(row) ==
  /\ row.attemptCount \in Numbers
  /\ row.status \in Failing <=> row.failure # NoFailure
  /\ row.status \in {"CANCELLING", "CANCELLED"} <=> row.cancelRequested
  /\ row.status = "SCHEDULING" <=> row.owner # NoOwner
-----------------------------------------------------------------------------
(* The API. *)

\* A second request with the key finds the row and replays its response, or is
\* refused when its hash differs: neither writes.
CreateReplays(r) == run[r].status # NoRow

Create(r) ==
  /\ ~CreateReplays(r)
  /\ run' = [run EXCEPT ![r] = [AbsentRun EXCEPT !.status = "QUEUED", !.attemptCount = 1,
                                                 !.version = 1]]
  /\ InsertAttempt(r)
  /\ outbox' = outbox \cup {EventOf(r, "Requested")}
  /\ UNCHANGED <<now, receipt, assignments, jobs, drafts>>

\* The response stored for a command is the row as the command leaves it.
ReceiptOf(r, type, c) ==
  [type |-> type, id |-> c, status |-> run'[r].status, attemptCount |-> run'[r].attemptCount]

\* A cancellation whose effect is already there, or whose receipt is the latest,
\* is answered without writing; one of any other terminal run is refused.
CancelReplays(r, c) ==
  \/ receipt[r].type = "CANCEL" /\ receipt[r].id = c
  \/ run[r].status \in {"CANCELLING", "CANCELLED"}

\* Mutants of Cancelled: the lease columns, or the version, are left alone.
CancelledWithLease(row) ==
  [row EXCEPT !.status = "CANCELLING", !.version = @ + 1, !.nextEligible = 0,
              !.cancelRequested = TRUE]
CancelledSameVersion(row) ==
  [row EXCEPT !.status = "CANCELLING", !.owner = NoOwner, !.expires = 0,
              !.nextEligible = 0, !.cancelRequested = TRUE]

Cancelled(row) ==
  [row EXCEPT !.status = "CANCELLING", !.version = @ + 1, !.owner = NoOwner, !.expires = 0,
              !.nextEligible = 0, !.cancelRequested = TRUE]

Cancel(r, c) ==
  /\ run[r].status # NoRow
  /\ ~CancelReplays(r, c)
  /\ ~IsTerminal(run[r].status)
  /\ run' = [run EXCEPT ![r] = Cancelled(@)]
  /\ receipt' = [receipt EXCEPT ![r] = ReceiptOf(r, "CANCEL", c)]
  /\ outbox' = outbox \cup {EventOf(r, "CancelRequested")}
  /\ UNCHANGED <<now, attempt, assignments, jobs, drafts>>

RetryReplays(r, c) == receipt[r].type = "RETRY" /\ receipt[r].id = c

\* Transition to QUEUED is part of the retry exception of the graph, so a
\* POLICY_REJECTED run is refused even when its category is transient.
RetryAllowed(r) ==
  /\ CanRetry(run[r].status, run[r].failure, run[r].attemptCount, MaxAttempts)
  /\ CanTransition(run[r].status, run[r].failure, run[r].attemptCount, MaxAttempts, "QUEUED")

\* Mutant of Requeued: the retry starts the same attempt again.
RequeuedSameAttempt(row) ==
  [row EXCEPT !.status = "QUEUED", !.failure = NoFailure, !.version = @ + 1,
              !.owner = NoOwner, !.expires = 0, !.nextEligible = 0]

Requeued(row) ==
  [row EXCEPT !.status = "QUEUED", !.failure = NoFailure, !.attemptCount = @ + 1,
              !.version = @ + 1, !.owner = NoOwner, !.expires = 0, !.nextEligible = 0]

Retry(r, c) ==
  /\ ~RetryReplays(r, c)
  /\ RetryAllowed(r)
  /\ run' = [run EXCEPT ![r] = Requeued(@)]
  /\ InsertAttempt(r)
  /\ receipt' = [receipt EXCEPT ![r] = ReceiptOf(r, "RETRY", c)]
  /\ outbox' = outbox \cup {EventOf(r, "RetryRequested")}
  /\ UNCHANGED <<now, assignments, jobs, drafts>>
-----------------------------------------------------------------------------
(* Scheduler engines. *)

Clock(e) == now + Skew[e]

\* The times a request of e that reaches the database now may carry.
Readings(e) == {t \in 0..Clock(e) : t + MaxDelay >= Clock(e)}

InStage(e, stages) == {j \in jobs[e] : j.stage \in stages}

\* Mutant of Claimable: a leased run is claimed without waiting for the expiry.
ClaimableAnyLease(r, t) ==
  /\ \/ run[r].status = "QUEUED"
     \/ run[r].status = "CAPACITY_WAIT" /\ run[r].nextEligible <= t
     \/ run[r].status = "SCHEDULING"
  /\ attempt[r][run[r].attemptCount].status = "PENDING"

Claimable(r, t) ==
  /\ \/ run[r].status = "QUEUED"
     \/ run[r].status = "CAPACITY_WAIT" /\ run[r].nextEligible <= t
     \/ run[r].status = "SCHEDULING" /\ run[r].expires <= t
  /\ attempt[r][run[r].attemptCount].status = "PENDING"

\* Mutant of Claimed: the claim does not move the version.
ClaimedSameVersion(row, e, t) ==
  [row EXCEPT !.status = "SCHEDULING", !.owner = e, !.expires = t + LeaseDuration]

Claimed(row, e, t) ==
  [row EXCEPT !.status = "SCHEDULING", !.owner = e, !.expires = t + LeaseDuration,
              !.version = @ + 1]

\* The ClaimedRun the statement returns: the updated row and its attempt.
NewJob(r, e, t) ==
  [run |-> r, version |-> Claimed(run[r], e, t).version, attempt |-> run[r].attemptCount,
   attemptVersion |-> attempt[r][run[r].attemptCount].version, stage |-> "queued",
   decision |-> "NONE", at |-> t, next |-> 0]

\* scan: no more runs than free slots of the jobs channel.
ClaimLimit(e) ==
  LET available == WorkQueueSize - Cardinality(InStage(e, {"queued"}))
  IN IF BatchSize < available THEN BatchSize ELSE available

\* SKIP LOCKED passes over any due run whose row another transaction holds, so
\* any set of due runs may be the one that is claimed.
Claim(e) ==
  \E t \in Readings(e), due \in SUBSET Runs :
    /\ due # {}
    /\ Cardinality(due) <= ClaimLimit(e)
    /\ \A r \in due : Claimable(r, t)
    /\ run' = [r \in Runs |-> IF r \in due THEN Claimed(run[r], e, t) ELSE run[r]]
    /\ jobs' = [jobs EXCEPT ![e] = @ \cup {NewJob(r, e, t) : r \in due}]
    /\ UNCHANGED <<now, receipt, attempt, outbox, assignments, drafts>>

Replace(e, j, k) == jobs' = [jobs EXCEPT ![e] = (@ \ {j}) \cup {k}]
Finish(e, j) == jobs' = [jobs EXCEPT ![e] = @ \ {j}]

\* A worker takes a job from the channel and evaluates the tenant policy.  The
\* decision is used later, whatever happens to the policy or the run meanwhile.
Evaluate(e, j) ==
  /\ j.stage = "queued"
  /\ Cardinality(InStage(e, {"evaluated", "renewed"})) < WorkerCount
  /\ \E t \in Readings(e), decision \in {"ELIGIBLE", "DEFER", "REJECT"} :
       /\ t >= j.at
       /\ Replace(e, j, [j EXCEPT !.stage = "evaluated", !.decision = decision, !.at = t])
  /\ UNCHANGED <<now, run, receipt, attempt, outbox, assignments, drafts>>

\* What Renew, Schedule, DeferCapacity and Reject demand of the row: the lease
\* of the request's owner, unexpired at the request's time, at its version.
Holds(e, j, t) ==
  /\ run[j.run].status = "SCHEDULING"
  /\ run[j.run].owner = e
  /\ run[j.run].expires > t
  /\ run[j.run].version = j.version

\* A deferral asks for the policy's time unless that has passed by the renewal.
DeferUntil(j, t) ==
  IF j.decision = "DEFER" /\ j.at + PolicyDeferral > t
  THEN j.at + PolicyDeferral
  ELSE t + DeferralDuration

Renewed(row, t) == [row EXCEPT !.expires = t + LeaseDuration, !.version = @ + 1]

Renew(e, j) ==
  /\ j.stage = "evaluated"
  /\ \E t \in Readings(e) :
       /\ t >= j.at
       /\ Holds(e, j, t)
       /\ run' = [run EXCEPT ![j.run] = Renewed(@, t)]
       /\ Replace(e, j, [j EXCEPT !.stage = "renewed", !.at = t, !.next = DeferUntil(j, t),
                                  !.version = Renewed(run[j.run], t).version])
  /\ UNCHANGED <<now, receipt, attempt, outbox, assignments, drafts>>

\* lockPendingAttempt
AttemptPending(j) ==
  /\ run[j.run].attemptCount = j.attempt
  /\ attempt[j.run][j.attempt].status = "PENDING"
  /\ attempt[j.run][j.attempt].version = j.attemptVersion

\* Mutant of Settled: a deferred run goes back to the queue.
SettledIntoQueue(row, status, failure, next) ==
  [row EXCEPT !.status = IF status = "CAPACITY_WAIT" THEN "QUEUED" ELSE status,
              !.failure = failure, !.version = @ + 1, !.owner = NoOwner,
              !.expires = 0, !.nextEligible = next]

\* The row as one of the three outcomes leaves it: without a lease.
Settled(row, status, failure, next) ==
  [row EXCEPT !.status = status, !.failure = failure, !.version = @ + 1, !.owner = NoOwner,
              !.expires = 0, !.nextEligible = next]

\* The attempt row as Schedule and as Reject leave it.
Started(row) == [row EXCEPT !.status = "STARTING", !.version = @ + 1, !.assigned = TRUE]
Stopped(row) == [row EXCEPT !.status = "CANCELLED", !.version = @ + 1]

\* The transaction that assigns the attempt.  The admission it re-checks under
\* its locks (policy, cluster, budget) may let it pass at any time.
Schedule(e, j) ==
  /\ j.stage = "renewed"
  /\ j.decision = "ELIGIBLE"
  /\ Holds(e, j, j.at)
  /\ AttemptPending(j)
  /\ run' = [run EXCEPT ![j.run] = Settled(@, "PROVISIONING", @.failure, 0)]
  /\ attempt' = [attempt EXCEPT ![j.run][j.attempt] = Started(@)]
  /\ assignments' = [assignments EXCEPT ![j.run][j.attempt] = @ + 1]
  /\ outbox' = outbox \cup {EventOf(j.run, "Scheduled")}
  /\ Finish(e, j)
  /\ UNCHANGED <<now, receipt, drafts>>

\* A DEFER decision, or an eligible run for which the selector finds no cluster.
DeferCapacity(e, j) ==
  /\ j.stage = "renewed"
  /\ j.decision \in {"DEFER", "ELIGIBLE"}
  /\ Holds(e, j, j.at)
  /\ run' = [run EXCEPT ![j.run] = Settled(@, "CAPACITY_WAIT", @.failure, j.next)]
  /\ outbox' = outbox \cup {EventOf(j.run, "CapacityWait")}
  /\ Finish(e, j)
  /\ UNCHANGED <<now, receipt, attempt, assignments, drafts>>

Reject(e, j) ==
  /\ j.stage = "renewed"
  /\ j.decision = "REJECT"
  /\ Holds(e, j, j.at)
  /\ AttemptPending(j)
  /\ run' = [run EXCEPT ![j.run] = Settled(@, "POLICY_REJECTED", "POLICY", 0)]
  /\ attempt' = [attempt EXCEPT ![j.run][j.attempt] = Stopped(@)]
  /\ outbox' = outbox \cup {EventOf(j.run, "Failed")}
  /\ Finish(e, j)
  /\ UNCHANGED <<now, receipt, assignments, drafts>>

\* process gives up on any error and on a refused, replayed or lost transaction;
\* nothing is retried, and a lease it held runs out.
Abandon(e, j) ==
  /\ Finish(e, j)
  /\ UNCHANGED <<now, run, receipt, attempt, outbox, assignments, drafts>>

\* The process stops or its context ends: every claim in memory is forgotten.
Crash(e) ==
  /\ jobs[e] # {}
  /\ jobs' = [jobs EXCEPT ![e] = {}]
  /\ UNCHANGED <<now, run, receipt, attempt, outbox, assignments, drafts>>

Tick ==
  /\ now < MaxClock
  /\ now' = now + 1
  /\ UNCHANGED <<run, receipt, attempt, outbox, assignments, jobs, drafts>>
-----------------------------------------------------------------------------
(* Workflow writers: load, transition in memory, save against the version. *)

LoadRun(r) ==
  /\ run[r].status # NoRow
  /\ Cardinality(drafts) < MaxDrafts
  /\ drafts' = drafts \cup
       {[run |-> r, number |-> 0, status |-> run[r].status, failure |-> run[r].failure,
         attemptCount |-> run[r].attemptCount, version |-> run[r].version,
         assigned |-> FALSE, cancelRequested |-> run[r].cancelRequested]}
  /\ UNCHANGED <<now, run, receipt, attempt, outbox, assignments, jobs>>

LoadAttempt(r, n) ==
  /\ attempt[r][n].status # NoRow
  /\ Cardinality(drafts) < MaxDrafts
  /\ drafts' = drafts \cup
       {[run |-> r, number |-> n, status |-> attempt[r][n].status, failure |-> NoFailure,
         attemptCount |-> n, version |-> attempt[r][n].version,
         assigned |-> attempt[r][n].assigned, cancelRequested |-> FALSE]}
  /\ UNCHANGED <<now, run, receipt, attempt, outbox, assignments, jobs>>

\* Mutant of Unmodified: the last writer wins.
AnyVersion(d) == TRUE

\* The version condition of updateRun: nobody has written the run since.
Unmodified(d) == run[d.run].version = d.version

\* updateRun writes the loaded values back; it knows nothing of the lease, so a
\* row constraint refuses a save into or out of SCHEDULING.
Save(d, target) ==
  LET r == d.run IN
  /\ d.number = 0
  /\ target # "QUEUED"
  /\ target # d.status
  /\ CanTransition(d.status, d.failure, d.attemptCount, MaxAttempts, target)
  /\ Unmodified(d)
  /\ \E failure \in FailureFor(target) :
       LET row == [run[r] EXCEPT !.status = target, !.failure = failure,
                                 !.attemptCount = d.attemptCount,
                                 !.cancelRequested = d.cancelRequested, !.version = @ + 1]
       IN RowChecks(row) /\ run' = [run EXCEPT ![r] = row]
  /\ drafts' = drafts \ {d}
  /\ UNCHANGED <<now, receipt, attempt, outbox, assignments, jobs>>

\* The transition to QUEUED is saved together with its pending attempt.
CreateNextAttempt(d) ==
  LET r == d.run
      row == [run[r] EXCEPT !.status = "QUEUED", !.failure = NoFailure,
                            !.attemptCount = d.attemptCount + 1,
                            !.cancelRequested = d.cancelRequested, !.version = @ + 1]
  IN
  /\ d.number = 0
  /\ d.status # "QUEUED"
  /\ CanTransition(d.status, d.failure, d.attemptCount, MaxAttempts, "QUEUED")
  /\ Unmodified(d)
  /\ run[r].attemptCount = d.attemptCount
  /\ RowChecks(row)
  /\ run' = [run EXCEPT ![r] = row]
  /\ InsertAttempt(r)
  /\ drafts' = drafts \ {d}
  /\ UNCHANGED <<now, receipt, outbox, assignments, jobs>>

SaveAttempt(d, target) ==
  /\ d.number # 0
  /\ target \in AttemptSuccessors(d.status)
  /\ attempt[d.run][d.number].version = d.version
  /\ attempt' = [attempt EXCEPT ![d.run][d.number] =
                   [status |-> target, version |-> d.version + 1, assigned |-> d.assigned]]
  /\ drafts' = drafts \ {d}
  /\ UNCHANGED <<now, run, receipt, outbox, assignments, jobs>>

\* A conflict, or a caller that never saves.
Discard(d) ==
  /\ drafts' = drafts \ {d}
  /\ UNCHANGED <<now, run, receipt, attempt, outbox, assignments, jobs>>
-----------------------------------------------------------------------------
Api == \E r \in Runs : Create(r) \/ \E c \in Commands : Cancel(r, c) \/ Retry(r, c)

Engine ==
  \E e \in Engines :
    \/ Claim(e)
    \/ Crash(e)
    \/ \E j \in jobs[e] :
         \/ Evaluate(e, j)
         \/ Renew(e, j)
         \/ Schedule(e, j)
         \/ DeferCapacity(e, j)
         \/ Reject(e, j)
         \/ Abandon(e, j)

Writer ==
  \/ \E r \in Runs : LoadRun(r) \/ \E n \in Numbers : LoadAttempt(r, n)
  \/ \E d \in drafts :
       \/ \E target \in RunTargets : Save(d, target)
       \/ CreateNextAttempt(d)
       \/ \E target \in AttemptTargets : SaveAttempt(d, target)
       \/ Discard(d)

Next == Api \/ Engine \/ Writer \/ Tick

Spec == Init /\ [][Next]_vars
-----------------------------------------------------------------------------
(* Properties *)

\* The columns, claims and drafts have their types.
TypeOK ==
  /\ now \in Nat
  /\ run \in [Runs -> RunRow]
  /\ receipt \in [Runs -> Receipt \cup {NoReceipt}]
  /\ attempt \in [Runs -> [Numbers -> AttemptRow]]
  /\ outbox \subseteq Event
  /\ assignments \in [Runs -> [Numbers -> Nat]]
  /\ jobs \in [Engines -> SUBSET Job]
  /\ drafts \subseteq Draft

\* The transactions that write a run without consulting the row constraints
\* (Claim, Renew, Schedule, DeferCapacity, Reject, Cancel, Retry) never leave a
\* row that one of them would refuse, whatever they interleave with.
RowsConsistent ==
  \A r \in Runs :
    IF run[r].status = NoRow
    THEN run[r] = AbsentRun
    ELSE RowChecks(run[r]) /\ run[r].version > 0

\* Fencing: no two claims in any engine's memory carry the same version of a
\* run, and a claim that carries the row's version holds its lease.  So of all
\* the workers that believe they own a run, at most one can still write it.
ClaimsFenced ==
  \A e, f \in Engines : \A j \in jobs[e], k \in jobs[f] :
    /\ j.run = k.run /\ j.version = k.version => e = f /\ j = k
    /\ j.version <= run[j.run].version
    /\ j.version = run[j.run].version =>
         run[j.run].status = "SCHEDULING" /\ run[j.run].owner = e

\* A writer's copy of a row is the row itself or an older version of it: a save
\* that passes the version condition overwrites nothing it has not seen.
DraftsFenced ==
  \A d \in drafts :
    IF d.number = 0
    THEN /\ d.version \in 1..run[d.run].version
         /\ d.version = run[d.run].version =>
              /\ d.status = run[d.run].status
              /\ d.failure = run[d.run].failure
              /\ d.attemptCount = run[d.run].attemptCount
              /\ d.cancelRequested = run[d.run].cancelRequested
    ELSE /\ d.version \in 1..attempt[d.run][d.number].version
         /\ d.version = attempt[d.run][d.number].version =>
              /\ d.status = attempt[d.run][d.number].status
              /\ d.assigned = attempt[d.run][d.number].assigned

\* Each attempt is handed off at most once, by the Schedule that assigned it: an
\* attempt number is never reused by a retry and never scheduled by two engines.
AttemptAssignedOnce ==
  \A r \in Runs, n \in Numbers :
    /\ assignments[r][n] <= 1
    /\ attempt[r][n].assigned <=> assignments[r][n] = 1
    /\ attempt[r][n].status \in {"PENDING", NoRow} => assignments[r][n] = 0

\* A run that executes has its current attempt assigned to a cluster; one that
\* waits has no workload for it yet.
WorkloadMatchesStatus ==
  \A r \in Runs :
    /\ run[r].status \in Executing => assignments[r][run[r].attemptCount] = 1
    /\ run[r].status \in Waiting => assignments[r][run[r].attemptCount] = 0

\* Attempts are numbered from 1 without gaps and none is ahead of attempt_count.
AttemptsContiguous ==
  \A r \in Runs, n \in Numbers :
    IF n <= run[r].attemptCount
    THEN attempt[r][n].status # NoRow /\ attempt[r][n].version > 0
    ELSE attempt[r][n] = AbsentAttempt

\* A run has at most one event per version, so the replay paths that look an
\* event up by aggregate version find the one of that transition.
OneEventPerVersion ==
  \A x, y \in outbox :
    /\ x.version <= run[x.run].version
    /\ x.run = y.run /\ x.version = y.version => x = y

\* A cancellation is never lost: once requested, no claim in flight and no
\* writer with an old copy of the row takes the run anywhere but to CANCELLED,
\* and none of its attempts is handed off any more.
CancellationSticks ==
  [][\A r \in Runs :
       run[r].status \in {"CANCELLING", "CANCELLED"} =>
         /\ run'[r].status \in {run[r].status, "CANCELLED"}
         /\ assignments'[r] = assignments[r]]_vars

\* While a lease is unexpired on every clock, the row is written only by the
\* engine that holds the lease or by a cancellation.
LeaseExclusive ==
  [][\A r \in Runs, e \in Engines :
       /\ run[r].owner = e
       /\ \A f \in Engines : run[r].expires > Clock(f)
       => \/ run'[r] = run[r]
          \/ run'[r].status = "CANCELLING"
          \/ jobs'[e] # jobs[e]]_vars

\* Every write of a run moves its version by exactly one: what the version
\* checks of Renew, Schedule, DeferCapacity, Reject and Save rely on.
WritesMoveVersion ==
  [][\A r \in Runs : run'[r] # run[r] => run'[r].version = run[r].version + 1]_vars

-----------------------------------------------------------------------------
(* The run contract, of the columns and the handoff intents. *)

Status == [r \in Runs |-> run[r].status]
Failure == [r \in Runs |-> run[r].failure]
Attempts == [r \in Runs |-> run[r].attemptCount]
HandedOff == [r \in Runs |-> {n \in Numbers : assignments[r][n] > 0}]

Contract == INSTANCE RunContract WITH
  status <- Status, failure <- Failure, attempts <- Attempts, handedOff <- HandedOff

\* What the transactions do to the rows is a behaviour of the run contract: the
\* SQL of Claim, Schedule, DeferCapacity and Reject writes statuses without
\* calling CanTransition, and still follows the domain's graph.
ImplementsContract == Contract!Spec
=============================================================================
