----------------------------- MODULE RunQueueSteps -----------------------------
(***************************************************************************)
(* What the steps of RunQueue do, proved for every value of its constants   *)
(* from the inductive invariant of RunQueueProofs: its action properties,   *)
(* and that each step is one of RunContract or changes nothing there.       *)
(***************************************************************************)
EXTENDS RunQueueProofs

\* The rows the transactions write: one version on, in the status they move to.
LEMMA WrittenRows ==
  ASSUME NEW x \in RunRow
  PROVE  /\ Cancelled(x).version = x.version + 1 /\ Cancelled(x).status = "CANCELLING"
         /\ Requeued(x).version = x.version + 1
         /\ \A e, t : Claimed(x, e, t).version = x.version + 1
         /\ \A t : Renewed(x, t).version = x.version + 1
         /\ \A s, f, n : Settled(x, s, f, n).version = x.version + 1
BY DEF RunRow, Cancelled, Requeued, Claimed, Renewed, Settled

\* A step that writes a row adds one to its version.
LEMMA VersionStep ==
  ASSUME QueueInv, Next, NEW r \in Runs, run'[r] # run[r]
  PROVE  run'[r].version = run[r].version + 1
<1>1. run \in [Runs -> RunRow] /\ run[r] \in RunRow
  BY DEF QueueInv, TypeOK
<1>2. ASSUME NEW q \in Runs, Create(q)
      PROVE  run'[r].version = run[r].version + 1
  <2>1. q = r
    BY <1>1, <1>2 DEF Create, CreateReplays
  <2>2. run[r].version = 0
    BY <1>2, <2>1 DEF QueueInv, RowsConsistent, Create, CreateReplays, AbsentRun
  <2>3. run'[r] = [AbsentRun EXCEPT !.status = "QUEUED", !.attemptCount = 1, !.version = 1]
    BY <1>1, <1>2, <2>1 DEF Create, CreateReplays
  <2>4. run'[r].version = 1
    BY <2>3 DEF AbsentRun
  <2>5. QED
    BY <2>2, <2>4
<1>3. ASSUME NEW q \in Runs, NEW c \in Commands, Cancel(q, c) \/ Retry(q, c)
      PROVE  run'[r].version = run[r].version + 1
  BY <1>1, <1>3, WrittenRows, Zenon DEF Cancel, Retry
<1>4. ASSUME NEW e \in Engines, Claim(e)
      PROVE  run'[r].version = run[r].version + 1
  BY <1>1, <1>4, WrittenRows DEF Claim
<1>5. ASSUME NEW e \in Engines, NEW j \in jobs[e],
             Renew(e, j) \/ Schedule(e, j) \/ DeferCapacity(e, j) \/ Reject(e, j)
      PROVE  run'[r].version = run[r].version + 1
  <2>1. CASE Renew(e, j)
    <3>1. PICK t : run' = [run EXCEPT ![j.run] = Renewed(run[j.run], t)]
      BY <2>1, Zenon DEF Renew
    <3>2. QED
      BY <1>1, <3>1, WrittenRows
  <2>2. CASE Schedule(e, j) \/ DeferCapacity(e, j) \/ Reject(e, j)
    <3>1. PICK s, f, n : run' = [run EXCEPT ![j.run] = Settled(run[j.run], s, f, n)]
      BY <2>2 DEF Schedule, DeferCapacity, Reject
    <3>2. QED
      BY <1>1, <3>1, WrittenRows
  <2>3. QED
    BY <1>5, <2>1, <2>2, Zenon
<1>6. ASSUME NEW d \in drafts, NEW target \in RunTargets, Save(d, target)
      PROVE  run'[r].version = run[r].version + 1
  <2>1. PICK failure : run' = [run EXCEPT ![d.run] =
          [run[d.run] EXCEPT !.status = target, !.failure = failure,
             !.attemptCount = d.attemptCount, !.cancelRequested = d.cancelRequested,
             !.version = @ + 1]]
    BY <1>6, Zenon DEF Save
  <2>2. QED
    BY <1>1, <2>1 DEF RunRow
<1>7. ASSUME NEW d \in drafts, CreateNextAttempt(d)
      PROVE  run'[r].version = run[r].version + 1
  <2>1. run' = [run EXCEPT ![d.run] =
          [run[d.run] EXCEPT !.status = "QUEUED", !.failure = NoFailure,
             !.attemptCount = d.attemptCount + 1, !.cancelRequested = d.cancelRequested,
             !.version = @ + 1]]
    BY <1>7 DEF CreateNextAttempt
  <2>2. QED
    BY <1>1, <2>1 DEF RunRow
<1>8. QED
  <2>1. CASE Api
    BY <1>2, <1>3, <2>1 DEF Api
  <2>2. CASE Engine
    <3>1. ASSUME NEW e \in Engines, NEW j \in jobs[e], Evaluate(e, j) \/ Abandon(e, j)
          PROVE  FALSE
      BY <3>1, Zenon DEF Evaluate, Abandon
    <3>2. ASSUME NEW e \in Engines, Crash(e)
          PROVE  FALSE
      BY <3>2 DEF Crash
    <3>3. QED
      BY <1>4, <1>5, <2>2, <3>1, <3>2 DEF Engine
  <2>3. CASE Writer
    <3>1. ASSUME NEW q \in Runs, LoadRun(q) \/ \E n \in Numbers : LoadAttempt(q, n)
          PROVE  FALSE
      BY <3>1, Zenon DEF LoadRun, LoadAttempt
    <3>2. ASSUME NEW d \in drafts, Discard(d) \/ \E t \in AttemptTargets : SaveAttempt(d, t)
          PROVE  FALSE
      BY <3>2, Zenon DEF Discard, SaveAttempt
    <3>3. QED
      BY <1>6, <1>7, <2>3, <3>1, <3>2, Zenon DEF Writer
  <2>4. CASE Tick
    BY <2>4 DEF Tick
  <2>5. QED
    BY <2>1, <2>2, <2>3, <2>4 DEF Next

\* Every write of a run, by whichever transaction, moves its version by one.
THEOREM WritesAreVersioned == Spec => WritesMoveVersion
<1>1. QueueInv /\ [Next]_vars =>
        [\A r \in Runs : run'[r] # run[r] => run'[r].version = run[r].version + 1]_vars
  BY VersionStep
<1>2. QED
  BY <1>1, QueueInvariant, PTL DEF Spec, WritesMoveVersion
-----------------------------------------------------------------------------
\* A step takes a run that is being cancelled nowhere but to its end.
LEMMA CancellationStep ==
  ASSUME QueueInv, Next, NEW r \in Runs, run[r].status \in {"CANCELLING", "CANCELLED"}
  PROVE  /\ run'[r].status \in {run[r].status, "CANCELLED"}
         /\ assignments'[r] = assignments[r]
<1> DEFINE Kept == /\ run'[r].status \in {run[r].status, "CANCELLED"}
                   /\ assignments'[r] = assignments[r]
<1>1. run \in [Runs -> RunRow] /\ run[r] \in RunRow
  BY DEF QueueInv, TypeOK
<1>2. ASSUME NEW q \in Runs, Create(q)
      PROVE  Kept
  BY <1>1, <1>2 DEF Create, CreateReplays, NoRow
<1>3. ASSUME NEW q \in Runs, NEW c \in Commands, Cancel(q, c)
      PROVE  Kept
  BY <1>1, <1>3 DEF Cancel, CancelReplays
<1>4. ASSUME NEW q \in Runs, NEW c \in Commands, Retry(q, c)
      PROVE  Kept
  <2>1. q # r
    BY <1>4 DEF Retry, RetryAllowed, CanTransition, Successors, RetryableTerminal
  <2>2. QED
    BY <1>1, <1>4, <2>1 DEF Retry
<1>5. ASSUME NEW e \in Engines, Claim(e)
      PROVE  Kept
  BY <1>1, <1>5 DEF Claim, Claimable
<1>6. ASSUME NEW e \in Engines, NEW j \in jobs[e],
             Renew(e, j) \/ Schedule(e, j) \/ DeferCapacity(e, j) \/ Reject(e, j)
      PROVE  Kept
  <2>1. j.run # r
    BY <1>6, Zenon DEF Renew, Schedule, DeferCapacity, Reject, Holds
  <2>2. run'[r] = run[r]
    BY <1>1, <1>6, <2>1, Zenon DEF Renew, Schedule, DeferCapacity, Reject
  <2>3. assignments'[r] = assignments[r]
    BY <1>6, <2>1, Zenon DEF QueueInv, TypeOK, Renew, Schedule, DeferCapacity, Reject
  <2>4. QED
    BY <2>2, <2>3
<1>7. ASSUME NEW d \in drafts, NEW target \in RunTargets, Save(d, target)
      PROVE  Kept
  <2>1. PICK failure : run' = [run EXCEPT ![d.run] =
          [run[d.run] EXCEPT !.status = target, !.failure = failure,
             !.attemptCount = d.attemptCount, !.cancelRequested = d.cancelRequested,
             !.version = @ + 1]]
    BY <1>7, Zenon DEF Save
  <2>2. CASE d.run # r
    BY <1>1, <1>7, <2>1, <2>2 DEF Save
  <2>3. CASE d.run = r
    <3>1. d.status = run[r].status
      BY <1>7, <2>3, DraftIsRow DEF Save
    <3>2. target \in {"CANCELLING", "CANCELLED"} /\ target # run[r].status
      BY <1>7, <3>1 DEF Save, CanTransition, Successors, RetryableTerminal
    <3>3. target = "CANCELLED"
      BY <1>7, <3>1, <3>2 DEF Save, CanTransition, Successors, RetryableTerminal, IsTerminal
    <3>4. run'[r].status = target
      BY <1>1, <2>1, <2>3 DEF RunRow
    <3>5. QED
      BY <1>7, <3>3, <3>4 DEF Save
  <2>4. QED
    BY <2>2, <2>3
<1>8. ASSUME NEW d \in drafts, CreateNextAttempt(d)
      PROVE  Kept
  <2>1. CASE d.run # r
    BY <1>1, <1>8, <2>1 DEF CreateNextAttempt
  <2>2. CASE d.run = r
    <3>1. d.status = run[r].status
      BY <1>8, <2>2, DraftIsRow DEF CreateNextAttempt
    <3>2. QED
      BY <1>8, <3>1 DEF CreateNextAttempt, CanTransition, Successors, RetryableTerminal
  <2>3. QED
    BY <2>1, <2>2
<1>9. ASSUME UNCHANGED <<run, assignments>>
      PROVE  Kept
  BY <1>9
<1> HIDE DEF Kept
<1>10. Kept
  <2>1. CASE Api
    BY <1>2, <1>3, <1>4, <2>1 DEF Api
  <2>2. CASE Engine
    <3>1. ASSUME NEW e \in Engines, NEW j \in jobs[e], Evaluate(e, j) \/ Abandon(e, j)
          PROVE  Kept
      BY <1>9, <3>1, Zenon DEF Evaluate, Abandon
    <3>2. ASSUME NEW e \in Engines, Crash(e)
          PROVE  Kept
      BY <1>9, <3>2 DEF Crash
    <3>3. QED
      BY <1>5, <1>6, <2>2, <3>1, <3>2 DEF Engine
  <2>3. CASE Writer
    <3>1. ASSUME NEW q \in Runs, LoadRun(q) \/ \E n \in Numbers : LoadAttempt(q, n)
          PROVE  Kept
      BY <1>9, <3>1 DEF LoadRun, LoadAttempt
    <3>2. ASSUME NEW d \in drafts, Discard(d) \/ \E t \in AttemptTargets : SaveAttempt(d, t)
          PROVE  Kept
      BY <1>9, <3>2, Zenon DEF Discard, SaveAttempt
    <3>3. QED
      BY <1>7, <1>8, <2>3, <3>1, <3>2 DEF Writer
  <2>4. CASE Tick
    BY <1>9, <2>4 DEF Tick
  <2>5. QED
    BY <2>1, <2>2, <2>3, <2>4 DEF Next
<1>11. QED
  BY <1>10 DEF Kept

\* A cancellation that was accepted is never undone by a claim in flight, a
\* retry or a writer with an old copy, and hands nothing off afterwards.
THEOREM CancellationIsFinal == Spec => CancellationSticks
<1>1. QueueInv /\ [Next]_vars =>
        [\A r \in Runs :
           run[r].status \in {"CANCELLING", "CANCELLED"} =>
             /\ run'[r].status \in {run[r].status, "CANCELLED"}
             /\ assignments'[r] = assignments[r]]_vars
  BY CancellationStep
<1>2. QED
  BY <1>1, QueueInvariant, PTL DEF Spec, CancellationSticks
-----------------------------------------------------------------------------
\* A step writes a row with a lease that no clock has seen expire only if it
\* cancels it or is of the engine that holds the lease.
LEMMA LeaseStep ==
  ASSUME QueueInv, Next, NEW r \in Runs, NEW e \in Engines, run[r].owner = e,
         \A f \in Engines : run[r].expires > Clock(f)
  PROVE  run'[r] = run[r] \/ run'[r].status = "CANCELLING" \/ jobs'[e] # jobs[e]
<1> USE RunQueueAssumption
<1> DEFINE Kept == run'[r] = run[r] \/ run'[r].status = "CANCELLING" \/ jobs'[e] # jobs[e]
<1>1. run \in [Runs -> RunRow] /\ run[r] \in RunRow /\ jobs \in [Engines -> SUBSET Job]
  BY DEF QueueInv, TypeOK
<1>2. run[r].status = "SCHEDULING"
  BY DEF QueueInv, RowsConsistent, RowChecks, AbsentRun
<1>3. ASSUME NEW q \in Runs, Create(q)
      PROVE  Kept
  BY <1>1, <1>2, <1>3 DEF Create, CreateReplays, NoRow
<1>4. ASSUME NEW q \in Runs, NEW c \in Commands, Cancel(q, c)
      PROVE  Kept
  BY <1>1, <1>4, WrittenRows, Zenon DEF Cancel
<1>5. ASSUME NEW q \in Runs, NEW c \in Commands, Retry(q, c)
      PROVE  Kept
  <2>1. q # r
    BY <1>2, <1>5
       DEF Retry, RetryAllowed, CanRetry, IsTerminal, Failing, RetryableTerminal
  <2>2. QED
    BY <1>1, <1>5, <2>1 DEF Retry
<1>6. ASSUME NEW f \in Engines, Claim(f)
      PROVE  Kept
  <2>1. PICK t \in Readings(f), due \in SUBSET Runs :
          /\ \A q \in due : Claimable(q, t)
          /\ run' = [q \in Runs |-> IF q \in due THEN Claimed(run[q], f, t) ELSE run[q]]
    BY <1>6 DEF Claim
  <2>2. ~(run[r].expires <= t)
    <3>1. now \in Nat /\ Skew[f] \in Nat /\ run[r].expires \in Int
      BY <1>1 DEF QueueInv, TypeOK, RunRow, Times
    <3>2. t <= Clock(f) /\ t \in Nat /\ Clock(f) \in Nat
      BY <3>1 DEF Readings, Clock
    <3>3. QED
      BY <3>1, <3>2
  <2>3. r \notin due
    BY <1>2, <2>1, <2>2 DEF Claimable
  <2>4. QED
    BY <2>1, <2>3
<1>7. ASSUME NEW f \in Engines, NEW j \in jobs[f], Renew(f, j)
      PROVE  Kept
  <2>1. PICK t : /\ Holds(f, j, t)
                 /\ run' = [run EXCEPT ![j.run] = Renewed(run[j.run], t)]
                 /\ \E k : Replace(f, j, k) /\ k = [j EXCEPT !.stage = "renewed", !.at = t,
                      !.next = DeferUntil(j, t), !.version = Renewed(run[j.run], t).version]
    BY <1>7, Zenon DEF Renew
  <2>2. CASE j.run # r
    BY <1>1, <2>1, <2>2
  <2>3. CASE j.run = r
    <3>1. f = e
      BY <2>1, <2>3 DEF Holds
    <3>2. PICK k : Replace(e, j, k) /\ k = [j EXCEPT !.stage = "renewed", !.at = t,
                     !.next = DeferUntil(j, t), !.version = Renewed(run[j.run], t).version]
      BY <2>1, <3>1
    <3>3. k # j
      <4>1. j.stage = "evaluated" /\ j \in Job
        BY <1>1, <1>7 DEF Renew
      <4>2. k.stage = "renewed"
        BY <3>2, <4>1 DEF Job
      <4>3. QED
        BY <4>1, <4>2
    <3>4. j \notin jobs'[e]
      BY <1>1, <3>2, <3>3 DEF Replace
    <3>5. QED
      BY <3>1, <3>4
  <2>4. QED
    BY <2>2, <2>3
<1>8. ASSUME NEW f \in Engines, NEW j \in jobs[f],
             Schedule(f, j) \/ DeferCapacity(f, j) \/ Reject(f, j)
      PROVE  Kept
  <2>1. CASE j.run # r
    BY <1>1, <1>8, <2>1 DEF Schedule, DeferCapacity, Reject
  <2>2. CASE j.run = r
    <3>1. f = e
      BY <1>8, <2>2 DEF Schedule, DeferCapacity, Reject, Holds
    <3>2. j \notin jobs'[e]
      BY <1>1, <1>8, <3>1 DEF Schedule, DeferCapacity, Reject, Finish
    <3>3. QED
      BY <3>1, <3>2
  <2>3. QED
    BY <2>1, <2>2
<1>9. ASSUME NEW d \in drafts, NEW target \in RunTargets, Save(d, target)
      PROVE  Kept
  <2>1. PICK row : /\ RowChecks(row) /\ run' = [run EXCEPT ![d.run] = row]
                   /\ \E failure : row = [run[d.run] EXCEPT !.status = target,
                        !.failure = failure, !.attemptCount = d.attemptCount,
                        !.cancelRequested = d.cancelRequested, !.version = @ + 1]
    BY <1>9, Zenon DEF Save
  <2>2. CASE d.run # r
    BY <1>1, <2>1, <2>2
  <2>3. CASE d.run = r
    <3>1. target # "SCHEDULING"
      BY <1>2, <1>9, <2>3, DraftIsRow DEF Save
    <3>2. row.status = target /\ row.owner = e
      BY <1>1, <2>1, <2>3 DEF RunRow
    <3>3. QED
      BY <2>1, <3>1, <3>2 DEF RowChecks
  <2>4. QED
    BY <2>2, <2>3
<1>10. ASSUME NEW d \in drafts, CreateNextAttempt(d)
      PROVE  Kept
  <2>1. CASE d.run # r
    BY <1>1, <1>10, <2>1 DEF CreateNextAttempt
  <2>2. CASE d.run = r
    <3>1. d.status = "SCHEDULING"
      BY <1>2, <1>10, <2>2, DraftIsRow DEF CreateNextAttempt
    <3>2. QED
      BY <1>10, <3>1 DEF CreateNextAttempt, CanTransition, Successors, RetryableTerminal
  <2>3. QED
    BY <2>1, <2>2
<1>11. ASSUME UNCHANGED run
      PROVE  Kept
  BY <1>11
<1> HIDE DEF Kept
<1>12. Kept
  <2>1. CASE Api
    BY <1>3, <1>4, <1>5, <2>1 DEF Api
  <2>2. CASE Engine
    <3>1. ASSUME NEW f \in Engines, NEW j \in jobs[f], Evaluate(f, j) \/ Abandon(f, j)
          PROVE  Kept
      BY <1>11, <3>1, Zenon DEF Evaluate, Abandon
    <3>2. ASSUME NEW f \in Engines, Crash(f)
          PROVE  Kept
      BY <1>11, <3>2 DEF Crash
    <3>3. QED
      BY <1>6, <1>7, <1>8, <2>2, <3>1, <3>2, Zenon DEF Engine
  <2>3. CASE Writer
    <3>1. ASSUME NEW q \in Runs, LoadRun(q) \/ \E n \in Numbers : LoadAttempt(q, n)
          PROVE  Kept
      BY <1>11, <3>1 DEF LoadRun, LoadAttempt
    <3>2. ASSUME NEW d \in drafts, Discard(d) \/ \E t \in AttemptTargets : SaveAttempt(d, t)
          PROVE  Kept
      BY <1>11, <3>2, Zenon DEF Discard, SaveAttempt
    <3>3. QED
      BY <1>9, <1>10, <2>3, <3>1, <3>2 DEF Writer
  <2>4. CASE Tick
    BY <1>11, <2>4 DEF Tick
  <2>5. QED
    BY <2>1, <2>2, <2>3, <2>4 DEF Next
<1>13. QED
  BY <1>12 DEF Kept

\* Whatever the skew of the engines' clocks and the delay of their requests, a
\* lease that is unexpired on every clock is not stolen: only its engine or a
\* cancellation writes the run.
THEOREM LeasesAreExclusive == Spec => LeaseExclusive
<1>1. QueueInv /\ [Next]_vars =>
        [\A r \in Runs, e \in Engines :
           /\ run[r].owner = e
           /\ \A f \in Engines : run[r].expires > Clock(f)
           => \/ run'[r] = run[r]
              \/ run'[r].status = "CANCELLING"
              \/ jobs'[e] # jobs[e]]_vars
  BY LeaseStep
<1>2. QED
  BY <1>1, QueueInvariant, PTL DEF Spec, LeaseExclusive

-----------------------------------------------------------------------------
(* RunQueue implements RunContract. *)

contractVars == <<Status, Failure, Attempts, HandedOff>>

\* One row is written.
LEMMA RowMapped ==
  ASSUME TypeOK, NEW q \in Runs, NEW row, run' = [run EXCEPT ![q] = row]
  PROVE  /\ Status' = [Status EXCEPT ![q] = row.status]
         /\ Failure' = [Failure EXCEPT ![q] = row.failure]
         /\ Attempts' = [Attempts EXCEPT ![q] = row.attemptCount]
BY Zenon DEF TypeOK, Status, Failure, Attempts

\* No attempt is handed off by a step that inserts no intent.
LEMMA NoneHandedOff ==
  ASSUME UNCHANGED assignments
  PROVE  HandedOff' = HandedOff
BY DEF HandedOff

\* The columns of a run, as the contract sees them.
LEMMA Columns ==
  ASSUME QueueInv, NEW q \in Runs
  PROVE  /\ Status[q] = run[q].status /\ Failure[q] = run[q].failure
         /\ Attempts[q] = run[q].attemptCount
         /\ run[q].status \in Statuses \cup {NoRow}
         /\ run[q].status # NoRow /\ run[q].status \notin Failing => run[q].failure = NoFailure
BY DEF QueueInv, TypeOK, RunRow, RowsConsistent, RowChecks, Status, Failure, Attempts

\* Create inserts the row of a run that had none.
LEMMA CreateMapped ==
  ASSUME QueueInv, NEW q \in Runs, Create(q)
  PROVE  Contract!Accept(q)
<1> DEFINE row == [AbsentRun EXCEPT !.status = "QUEUED", !.attemptCount = 1, !.version = 1]
<1>1. run[q].status = NoRow /\ run[q] = AbsentRun
  BY DEF Create, CreateReplays, QueueInv, RowsConsistent
<1>2. row.status = "QUEUED" /\ row.attemptCount = 1 /\ row.failure = NoFailure
  BY DEF AbsentRun
<1>3. run' = [run EXCEPT ![q] = row]
  BY DEF Create
<1> HIDE DEF row
<1>4. /\ Status' = [Status EXCEPT ![q] = "QUEUED"]
      /\ Failure' = [Failure EXCEPT ![q] = NoFailure]
      /\ Attempts' = [Attempts EXCEPT ![q] = 1]
  <2>1. TypeOK
    BY DEF QueueInv
  <2>2. /\ Status' = [Status EXCEPT ![q] = row.status]
        /\ Failure' = [Failure EXCEPT ![q] = row.failure]
        /\ Attempts' = [Attempts EXCEPT ![q] = row.attemptCount]
    BY <1>3, <2>1, RowMapped, Zenon
  <2> QED BY <1>2, <2>2
<1>5. Failure' = Failure
  <2>1. Failure[q] = NoFailure
    BY <1>1 DEF Failure, AbsentRun
  <2> QED BY <1>4, <2>1, Zenon DEF Failure
<1>6. HandedOff' = HandedOff
  BY NoneHandedOff DEF Create
<1> QED BY <1>1, <1>4, <1>5, <1>6, Columns DEF Contract!Accept, Contract!NoRow, NoRow

\* The contract and the queue speak of one graph.
LEMMA SameGraph ==
  ASSUME NEW s, NEW f, NEW n, NEW t
  PROVE  /\ Contract!CanTransition(s, f, n, MaxAttempts, t) = CanTransition(s, f, n, MaxAttempts, t)
         /\ Contract!FailureFor(t) = FailureFor(t)
         /\ Contract!Statuses = Statuses /\ Contract!NoRow = NoRow /\ Contract!NoFailure = NoFailure
BY DEF Contract!CanTransition, CanTransition, Contract!Successors, Successors, Contract!IsTerminal,
       IsTerminal, Contract!CanRetry, CanRetry, Contract!RetryableTerminal, RetryableTerminal,
       Contract!Failing, Failing, Contract!FailureFor, FailureFor, Contract!FailureCategories,
       FailureCategories, Contract!NoFailure, NoFailure, Contract!NoRow, NoRow, Contract!Statuses,
       Statuses, Contract!Waiting, Waiting, Contract!Executing, Executing

\* Writes along an edge that is neither the handoff nor a retry.
LEMMA MoveMapped ==
  ASSUME QueueInv, NEW q \in Runs, NEW row, run' = [run EXCEPT ![q] = row], UNCHANGED assignments,
         run[q].status # NoRow, row.status \notin {run[q].status, "QUEUED", "PROVISIONING"},
         CanTransition(run[q].status, run[q].failure, run[q].attemptCount, MaxAttempts, row.status),
         row.failure \in FailureFor(row.status), row.attemptCount = run[q].attemptCount
  PROVE  Contract!Move(q, row.status)
<1>1. /\ Status' = [Status EXCEPT ![q] = row.status]
      /\ Failure' = [Failure EXCEPT ![q] = row.failure]
      /\ Attempts' = [Attempts EXCEPT ![q] = row.attemptCount]
  BY RowMapped, Zenon DEF QueueInv
<1>2. Status[q] = run[q].status /\ Failure[q] = run[q].failure /\ Attempts[q] = run[q].attemptCount
  BY Columns
<1>3. Attempts' = Attempts
  BY <1>1, <1>2 DEF Attempts
<1>4. HandedOff' = HandedOff
  BY NoneHandedOff
<1>5. /\ Contract!CanTransition(Status[q], Failure[q], Attempts[q], MaxAttempts, row.status)
      /\ row.failure \in Contract!FailureFor(row.status)
      /\ Status[q] # Contract!NoRow
  BY <1>2, SameGraph
<1> QED BY <1>1, <1>2, <1>3, <1>4, <1>5, Zenon DEF Contract!Move

\* Writes that take a failed run back to the queue.
LEMMA AgainMapped ==
  ASSUME QueueInv, NEW q \in Runs, NEW row, run' = [run EXCEPT ![q] = row], UNCHANGED assignments,
         run[q].status # "QUEUED",
         CanTransition(run[q].status, run[q].failure, run[q].attemptCount, MaxAttempts, "QUEUED"),
         row.status = "QUEUED", row.failure = NoFailure, row.attemptCount = run[q].attemptCount + 1
  PROVE  Contract!Again(q)
<1>1. /\ Status' = [Status EXCEPT ![q] = row.status]
      /\ Failure' = [Failure EXCEPT ![q] = row.failure]
      /\ Attempts' = [Attempts EXCEPT ![q] = row.attemptCount]
  BY RowMapped, Zenon DEF QueueInv
<1>2. Status[q] = run[q].status /\ Failure[q] = run[q].failure /\ Attempts[q] = run[q].attemptCount
  BY Columns
<1>3. HandedOff' = HandedOff
  BY NoneHandedOff
<1>4. /\ Contract!CanTransition(Status[q], Failure[q], Attempts[q], MaxAttempts, "QUEUED")
      /\ Contract!NoFailure = NoFailure
  BY <1>2, SameGraph
<1> QED BY <1>1, <1>2, <1>3, <1>4 DEF Contract!Again

-----------------------------------------------------------------------------
(* The API. *)

\* Cancel, in the contract.
LEMMA CancelMapped ==
  ASSUME QueueInv, NEW q \in Runs, NEW c \in Commands, Cancel(q, c)
  PROVE  Contract!Move(q, "CANCELLING")
<1> DEFINE row == Cancelled(run[q])
<1>1. run[q] \in RunRow
  BY DEF QueueInv, TypeOK
<1>2. /\ row.status = "CANCELLING" /\ row.failure = run[q].failure
      /\ row.attemptCount = run[q].attemptCount
  BY <1>1 DEF Cancelled, RunRow
<1>3. /\ run[q].status # NoRow /\ run[q].status # "CANCELLING" /\ ~IsTerminal(run[q].status)
      /\ run' = [run EXCEPT ![q] = row] /\ UNCHANGED assignments
  BY DEF Cancel, CancelReplays
<1>4. run[q].failure = NoFailure
  BY <1>3, Columns DEF IsTerminal
<1>5. NoFailure \in FailureFor("CANCELLING")
  BY DEF FailureFor, Failing, RetryableTerminal
<1> HIDE DEF row
<1>6. CanTransition(run[q].status, run[q].failure, run[q].attemptCount, MaxAttempts, "CANCELLING")
  BY <1>3 DEF CanTransition
<1>7. Contract!Move(q, row.status)
  BY <1>2, <1>3, <1>4, <1>5, <1>6, MoveMapped, Zenon
<1> QED BY <1>2, <1>7

\* Retry, in the contract.
LEMMA RetryMapped ==
  ASSUME QueueInv, NEW q \in Runs, NEW c \in Commands, Retry(q, c)
  PROVE  Contract!Again(q)
<1> DEFINE row == Requeued(run[q])
<1>1. run[q] \in RunRow
  BY DEF QueueInv, TypeOK
<1>2. /\ row.status = "QUEUED" /\ row.failure = NoFailure
      /\ row.attemptCount = run[q].attemptCount + 1
  BY <1>1 DEF Requeued, RunRow
<1>3. /\ run' = [run EXCEPT ![q] = row] /\ UNCHANGED assignments
      /\ CanTransition(run[q].status, run[q].failure, run[q].attemptCount, MaxAttempts, "QUEUED")
      /\ IsTerminal(run[q].status)
  BY DEF Retry, RetryAllowed, CanRetry
<1>4. run[q].status # "QUEUED"
  BY <1>3 DEF IsTerminal, Failing, RetryableTerminal
<1> HIDE DEF row
<1> QED BY <1>2, <1>3, <1>4, AgainMapped, Zenon

-----------------------------------------------------------------------------
(* Engines. *)

\* The runs of a claim that were not under a lease move at once.
LEMMA ClaimMapped ==
  ASSUME QueueInv, NEW e \in Engines, Claim(e)
  PROVE  \E moved \in SUBSET Runs : Contract!MoveAll(moved)
<1>1. PICK t \in Readings(e), due \in SUBSET Runs :
         /\ \A r \in due : Claimable(r, t)
         /\ run' = [r \in Runs |-> IF r \in due THEN Claimed(run[r], e, t) ELSE run[r]]
         /\ UNCHANGED assignments
  BY DEF Claim
<1> DEFINE moved == {r \in due : run[r].status \in {"QUEUED", "CAPACITY_WAIT"}}
<1>2. \A r \in Runs : run[r] \in RunRow
  BY DEF QueueInv, TypeOK
<1>3. \A r \in Runs :
        /\ r \in due => run'[r] = Claimed(run[r], e, t)
        /\ r \notin due => run'[r] = run[r]
  BY <1>1
<1>4. \A r \in Runs : LET row == Claimed(run[r], e, t) IN
        /\ row.status = "SCHEDULING" /\ row.failure = run[r].failure
        /\ row.attemptCount = run[r].attemptCount
  BY <1>2 DEF Claimed, RunRow
<1>5. \A r \in due : run[r].status \in {"QUEUED", "CAPACITY_WAIT", "SCHEDULING"}
  BY <1>1 DEF Claimable
<1>6. \A r \in Runs : /\ run'[r].status = IF r \in moved THEN "SCHEDULING" ELSE run[r].status
                      /\ run'[r].failure = run[r].failure
                      /\ run'[r].attemptCount = run[r].attemptCount
  BY <1>3, <1>4, <1>5
<1>7. \A r \in moved : run[r].status \in {"QUEUED", "CAPACITY_WAIT"} /\ r \in Runs
  OBVIOUS
<1> HIDE DEF moved
<1>8. Status' = [r \in Runs |-> IF r \in moved THEN "SCHEDULING" ELSE Status[r]]
  BY <1>6 DEF Status
<1>9. Failure' = Failure /\ Attempts' = Attempts
  BY <1>6 DEF Failure, Attempts
<1>10. HandedOff' = HandedOff
  BY <1>1, NoneHandedOff
<1>11. \A r \in moved : Status[r] \in {"QUEUED", "CAPACITY_WAIT"}
  BY <1>7 DEF Status
<1>12. Contract!MoveAll(moved)
  BY <1>8, <1>9, <1>10, <1>11 DEF Contract!MoveAll
<1> QED BY <1>7, <1>12

\* Renew, in the contract.
LEMMA RenewMapped ==
  ASSUME QueueInv, NEW e \in Engines, NEW j \in jobs[e], Renew(e, j)
  PROVE  UNCHANGED contractVars
<1>1. PICK t \in Readings(e) : run' = [run EXCEPT ![j.run] = Renewed(run[j.run], t)]
  BY Zenon DEF Renew
<1>2. \A r \in Runs : run[r] \in RunRow
  BY DEF QueueInv, TypeOK
<1>3. \A r \in Runs : /\ run'[r].status = run[r].status /\ run'[r].failure = run[r].failure
                      /\ run'[r].attemptCount = run[r].attemptCount
  BY <1>1, <1>2 DEF QueueInv, TypeOK, Renewed, RunRow
<1>4. Status' = Status /\ Failure' = Failure /\ Attempts' = Attempts
  BY <1>3 DEF Status, Failure, Attempts
<1>5. HandedOff' = HandedOff
  BY NoneHandedOff DEF Renew
<1> QED BY <1>4, <1>5 DEF contractVars

\* Schedule, in the contract.
LEMMA ScheduleMapped ==
  ASSUME QueueInv, NEW e \in Engines, NEW j \in jobs[e], Schedule(e, j)
  PROVE  Contract!HandOff(j.run)
<1> DEFINE q == j.run
           row == Settled(run[q], "PROVISIONING", run[q].failure, 0)
<1>1. Holds(e, j, j.at) /\ AttemptPending(j)
  BY DEF Schedule
<1>2. j \in Job /\ q \in Runs /\ j.attempt \in Numbers /\ run[q] \in RunRow
  BY DEF QueueInv, TypeOK, Job
<1>3. /\ row.status = "PROVISIONING" /\ row.failure = run[q].failure
      /\ row.attemptCount = run[q].attemptCount
  BY <1>2 DEF Settled, RunRow
<1>4. run' = [run EXCEPT ![q] = row]
  BY DEF Schedule
<1>5. assignments' = [assignments EXCEPT ![q][j.attempt] = @ + 1]
  BY DEF Schedule
<1>6. assignments[q][j.attempt] = 0 /\ run[q].attemptCount = j.attempt /\ run[q].status = "SCHEDULING"
  BY <1>1, <1>2 DEF AttemptPending, Holds, QueueInv, AttemptAssignedOnce
<1>7. assignments \in [Runs -> [Numbers -> Nat]]
  BY DEF QueueInv, TypeOK
<1> HIDE DEF row, q
<1>8. /\ Status' = [Status EXCEPT ![q] = row.status]
      /\ Failure' = [Failure EXCEPT ![q] = row.failure]
      /\ Attempts' = [Attempts EXCEPT ![q] = row.attemptCount]
  BY <1>2, <1>4, RowMapped, Zenon DEF QueueInv
<1>9. Status[q] = run[q].status /\ Failure[q] = run[q].failure /\ Attempts[q] = j.attempt
  BY <1>2, <1>6, Columns
<1>10. Failure' = Failure /\ Attempts' = Attempts
  BY <1>3, <1>6, <1>8, <1>9 DEF Failure, Attempts
<1>11. HandedOff' = [HandedOff EXCEPT ![q] = @ \cup {j.attempt}]
  <2>1. \A r \in Runs, n \in Numbers :
          assignments'[r][n] > 0 <=> assignments[r][n] > 0 \/ (r = q /\ n = j.attempt)
    BY <1>2, <1>5, <1>6, <1>7
  <2> QED BY <1>2, <2>1, Zenon DEF HandedOff
<1>12. j.attempt \notin HandedOff[q]
  BY <1>2, <1>6 DEF HandedOff
<1>13. Contract!HandOff(q)
  BY <1>3, <1>6, <1>8, <1>9, <1>10, <1>11, <1>12 DEF Contract!HandOff
<1> QED BY <1>13 DEF q

\* DeferCapacity, in the contract.
LEMMA DeferCapacityMapped ==
  ASSUME QueueInv, NEW e \in Engines, NEW j \in jobs[e], DeferCapacity(e, j)
  PROVE  Contract!Move(j.run, "CAPACITY_WAIT")
<1> DEFINE q == j.run
           row == Settled(run[q], "CAPACITY_WAIT", run[q].failure, j.next)
<1>1. j \in Job /\ q \in Runs /\ run[q] \in RunRow /\ run[q].status = "SCHEDULING"
  BY DEF QueueInv, TypeOK, Job, DeferCapacity, Holds
<1>2. /\ row.status = "CAPACITY_WAIT" /\ row.failure = run[q].failure
      /\ row.attemptCount = run[q].attemptCount
  BY <1>1 DEF Settled, RunRow
<1>3. run' = [run EXCEPT ![q] = row] /\ UNCHANGED assignments
  BY Zenon DEF DeferCapacity
<1> HIDE DEF row, q
<1>4. "SCHEDULING" # NoRow /\ "SCHEDULING" \notin Failing
  BY DEF NoRow, Failing, RetryableTerminal
<1>5. run[q].failure = NoFailure
  BY <1>1, <1>4, Columns
<1>6. NoFailure \in FailureFor("CAPACITY_WAIT")
  BY DEF FailureFor, Failing, RetryableTerminal
<1>7. CanTransition(run[q].status, run[q].failure, run[q].attemptCount, MaxAttempts, "CAPACITY_WAIT")
  BY <1>1 DEF CanTransition, Successors
<1>8. Contract!Move(q, row.status)
  BY <1>1, <1>2, <1>3, <1>4, <1>5, <1>6, <1>7, MoveMapped, Zenon
<1> QED BY <1>2, <1>8 DEF q

\* Reject, in the contract.
LEMMA RejectMapped ==
  ASSUME QueueInv, NEW e \in Engines, NEW j \in jobs[e], Reject(e, j)
  PROVE  Contract!Move(j.run, "POLICY_REJECTED")
<1> DEFINE q == j.run
           row == Settled(run[q], "POLICY_REJECTED", "POLICY", 0)
<1>1. j \in Job /\ q \in Runs /\ run[q] \in RunRow /\ run[q].status = "SCHEDULING"
  BY DEF QueueInv, TypeOK, Job, Reject, Holds
<1>2. /\ row.status = "POLICY_REJECTED" /\ row.failure = "POLICY"
      /\ row.attemptCount = run[q].attemptCount
  BY <1>1 DEF Settled, RunRow
<1>3. run' = [run EXCEPT ![q] = row] /\ UNCHANGED assignments
  BY DEF Reject
<1> HIDE DEF row, q
<1>4. "SCHEDULING" # NoRow
  BY DEF NoRow
<1>5. "POLICY" \in FailureFor("POLICY_REJECTED")
  BY DEF FailureFor, Failing, FailureCategories
<1>6. CanTransition(run[q].status, run[q].failure, run[q].attemptCount, MaxAttempts, "POLICY_REJECTED")
  BY <1>1 DEF CanTransition, Successors
<1>7. Contract!Move(q, row.status)
  BY <1>1, <1>2, <1>3, <1>4, <1>5, <1>6, MoveMapped, Zenon
<1> QED BY <1>2, <1>7 DEF q

-----------------------------------------------------------------------------
(* Workflow writers. *)

\* A save never takes a run into PROVISIONING: only SCHEDULING leads there, and
\* the lease columns keep a save from leaving that.
LEMMA SaveMapped ==
  ASSUME QueueInv, NEW d \in drafts, NEW target \in RunTargets, Save(d, target)
  PROVE  Contract!Move(d.run, target)
<1> DEFINE q == d.run
<1>1. PICK failure \in FailureFor(target) :
        LET row == [run[q] EXCEPT !.status = target, !.failure = failure,
                                  !.attemptCount = d.attemptCount,
                                  !.cancelRequested = d.cancelRequested, !.version = @ + 1]
        IN RowChecks(row) /\ run' = [run EXCEPT ![q] = row]
  BY Zenon DEF Save
<1> DEFINE row == [run[q] EXCEPT !.status = target, !.failure = failure,
                                 !.attemptCount = d.attemptCount,
                                 !.cancelRequested = d.cancelRequested, !.version = @ + 1]
<1>2. d.number = 0 /\ Unmodified(d) /\ target # "QUEUED" /\ target # d.status
      /\ CanTransition(d.status, d.failure, d.attemptCount, MaxAttempts, target)
      /\ UNCHANGED assignments
  BY DEF Save
<1>3. /\ q \in Runs /\ run[q] \in RunRow /\ run[q].status # NoRow /\ RowChecks(run[q])
      /\ d.status = run[q].status /\ d.failure = run[q].failure
      /\ d.attemptCount = run[q].attemptCount
  BY <1>2, DraftIsRow
<1>4. /\ row.status = target /\ row.failure = failure /\ row.attemptCount = run[q].attemptCount
      /\ row.owner = run[q].owner
  BY <1>3 DEF RunRow
<1>5. RowChecks(row) /\ run' = [run EXCEPT ![q] = row]
  BY <1>1
<1> HIDE DEF row, q
<1>6. target # "PROVISIONING"
  <2>1. ASSUME target = "PROVISIONING" PROVE FALSE
    <3>1. "PROVISIONING" \in Successors(run[q].status)
      BY <1>2, <1>3, <2>1 DEF CanTransition
    <3>2. run[q].status = "SCHEDULING"
      BY <1>3, <3>1 DEF Successors, RunRow, Statuses, Waiting, Executing, Failing,
                        RetryableTerminal
    <3>3. row.owner # NoOwner /\ row.status # "SCHEDULING"
      BY <1>3, <1>4, <2>1, <3>2 DEF RowChecks
    <3> QED BY <1>5, <3>3 DEF RowChecks
  <2> QED BY <2>1
<1>7. Contract!Move(q, row.status)
  BY <1>1, <1>2, <1>3, <1>4, <1>5, <1>6, MoveMapped, Zenon
<1> QED BY <1>4, <1>7 DEF q

\* CreateNextAttempt, in the contract.
LEMMA CreateNextAttemptMapped ==
  ASSUME QueueInv, NEW d \in drafts, CreateNextAttempt(d)
  PROVE  Contract!Again(d.run)
<1> DEFINE q == d.run
           row == [run[q] EXCEPT !.status = "QUEUED", !.failure = NoFailure,
                                 !.attemptCount = d.attemptCount + 1,
                                 !.cancelRequested = d.cancelRequested, !.version = @ + 1]
<1>1. d.number = 0 /\ Unmodified(d) /\ d.status # "QUEUED"
      /\ CanTransition(d.status, d.failure, d.attemptCount, MaxAttempts, "QUEUED")
      /\ UNCHANGED assignments /\ run' = [run EXCEPT ![q] = row]
  BY DEF CreateNextAttempt
<1>2. /\ q \in Runs /\ run[q] \in RunRow
      /\ d.status = run[q].status /\ d.failure = run[q].failure
      /\ d.attemptCount = run[q].attemptCount
  BY <1>1, DraftIsRow
<1>3. row.status = "QUEUED" /\ row.failure = NoFailure /\ row.attemptCount = run[q].attemptCount + 1
  BY <1>2 DEF RunRow
<1> HIDE DEF row, q
<1>4. Contract!Again(q)
  BY <1>1, <1>2, <1>3, AgainMapped, Zenon
<1> QED BY <1>4 DEF q

-----------------------------------------------------------------------------
\* The contract starts where the queue does.
LEMMA InitMapped == Init => Contract!Init
<1> SUFFICES ASSUME Init PROVE Contract!Init
  OBVIOUS
<1>1. /\ Status = [r \in Runs |-> NoRow] /\ Failure = [r \in Runs |-> NoFailure]
      /\ Attempts = [r \in Runs |-> 0]
  BY DEF Init, AbsentRun, Status, Failure, Attempts
<1>2. HandedOff = [r \in Runs |-> {}]
  BY DEF Init, HandedOff
<1> QED BY <1>1, <1>2, SameGraph DEF Contract!Init

\* Every step is one of the contract, or none.
LEMMA NextMapped == QueueInv /\ [Next]_vars => [Contract!Next]_contractVars
<1> SUFFICES ASSUME QueueInv, [Next]_vars PROVE Contract!Next \/ UNCHANGED contractVars
  OBVIOUS
<1>0. ASSUME UNCHANGED <<run, assignments>> PROVE UNCHANGED contractVars
  BY <1>0 DEF contractVars, Status, Failure, Attempts, HandedOff
<1>1. ASSUME NEW q \in Runs, Contract!Accept(q) \/ Contract!HandOff(q) \/ Contract!Again(q)
      PROVE  Contract!Next
  BY <1>1 DEF Contract!Next
<1>2. ASSUME NEW q \in Runs, NEW target \in Statuses, Contract!Move(q, target)
      PROVE  Contract!Next
  <2>1. target \in Contract!Statuses
    BY SameGraph
  <2> QED BY <1>2, <2>1 DEF Contract!Next
<1>3. \A e \in Engines : \A j \in jobs[e] : j.run \in Runs
  BY DEF QueueInv, TypeOK, Job
<1>4. \A d \in drafts : d.run \in Runs
  BY DEF QueueInv, TypeOK, Draft
<1>5. RunTargets \subseteq Statuses /\ {"CANCELLING", "CAPACITY_WAIT", "POLICY_REJECTED"} \subseteq Statuses
  BY RunQueueAssumption DEF Statuses, Waiting, Failing
<1>6. CASE Api
  BY <1>1, <1>2, <1>5, <1>6, CreateMapped, CancelMapped, RetryMapped DEF Api
<1>7. CASE Engine
  <2>1. ASSUME NEW e \in Engines, Claim(e) PROVE Contract!Next
    BY <2>1, ClaimMapped DEF Contract!Next
  <2>2. ASSUME NEW e \in Engines, Crash(e) \/ \E j \in jobs[e] : Evaluate(e, j) \/ Abandon(e, j)
        PROVE  UNCHANGED <<run, assignments>>
    BY <2>2, Zenon DEF Crash, Evaluate, Abandon
  <2>3. ASSUME NEW e \in Engines, NEW j \in jobs[e],
               Schedule(e, j) \/ DeferCapacity(e, j) \/ Reject(e, j)
        PROVE  Contract!Next
    BY <1>1, <1>2, <1>3, <1>5, <2>3, ScheduleMapped, DeferCapacityMapped, RejectMapped
  <2> QED BY <1>0, <1>7, <2>1, <2>2, <2>3, RenewMapped DEF Engine
<1>8. CASE Writer
  <2>1. ASSUME NEW r \in Runs, LoadRun(r) \/ \E n \in Numbers : LoadAttempt(r, n)
        PROVE  UNCHANGED <<run, assignments>>
    BY <2>1 DEF LoadRun, LoadAttempt
  <2>2. ASSUME NEW d \in drafts, Discard(d) \/ \E t \in AttemptTargets : SaveAttempt(d, t)
        PROVE  UNCHANGED <<run, assignments>>
    BY <2>2, Zenon DEF Discard, SaveAttempt
  <2>3. ASSUME NEW d \in drafts, CreateNextAttempt(d) \/ \E t \in RunTargets : Save(d, t)
        PROVE  Contract!Next
    BY <1>1, <1>2, <1>4, <1>5, <2>3, CreateNextAttemptMapped, SaveMapped
  <2> QED BY <1>0, <1>8, <2>1, <2>2, <2>3 DEF Writer
<1>9. CASE Tick \/ UNCHANGED vars
  BY <1>0, <1>9 DEF Tick, vars
<1> QED BY <1>6, <1>7, <1>8, <1>9 DEF Next

\* The transactions on agent_runs implement the run contract: statuses move only
\* along the lifecycle graph, attempts are numbered one after the other, and each
\* is handed off at most once, when its run enters PROVISIONING.
THEOREM QueueImplementsContract == Spec => ImplementsContract
<1>1. QueueInv /\ [Next]_vars => [Contract!Next]_(Contract!contract)
  BY NextMapped DEF Contract!contract, contractVars
<1> QED BY <1>1, InitMapped, QueueInvariant, PTL DEF Spec, ImplementsContract, Contract!Spec
=============================================================================
