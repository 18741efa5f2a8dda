---------------------------- MODULE RunQueueProofs ----------------------------
(***************************************************************************)
(* RunQueue for every set of runs, engines and commands and every value of  *)
(* its bounds: the safety properties of the run queue, proved from one      *)
(* inductive invariant.                                                     *)
(***************************************************************************)
EXTENDS RunQueue, TLAPS

\* The inductive invariant.  Rows, claims, drafts and events are fenced by the
\* row version; attempts and assignments are tied to the status by the row.
QueueInv ==
  /\ TypeOK
  /\ RowsConsistent
  /\ ClaimsFenced
  /\ DraftsFenced
  /\ AttemptAssignedOnce
  /\ WorkloadMatchesStatus
  /\ AttemptsContiguous
  /\ OneEventPerVersion

-----------------------------------------------------------------------------
(* What a step does to the versions is all the fencing invariants need. *)

\* Every row a step changes gets a newer version.
RunsMoveForward ==
  \A r \in Runs : run'[r] = run[r] \/ run'[r].version > run[r].version
AttemptsMoveForward ==
  \A r \in Runs, n \in Numbers :
    attempt'[r][n] = attempt[r][n] \/ attempt'[r][n].version > attempt[r][n].version

\* Claims stay fenced when a step hands out none: a claim whose run was written
\* is behind the row, and can no longer write it.
LEMMA ClaimsStayFenced ==
  ASSUME TypeOK, TypeOK', ClaimsFenced, RunsMoveForward,
         \A e \in Engines : jobs'[e] \subseteq jobs[e]
  PROVE  ClaimsFenced'
<1> SUFFICES ASSUME NEW e \in Engines, NEW f \in Engines, NEW j \in jobs'[e], NEW k \in jobs'[f]
             PROVE  /\ j.run = k.run /\ j.version = k.version => e = f /\ j = k
                    /\ j.version <= run'[j.run].version
                    /\ j.version = run'[j.run].version =>
                         run'[j.run].status = "SCHEDULING" /\ run'[j.run].owner = e
  BY DEF ClaimsFenced
<1>1. j \in jobs[e] /\ k \in jobs[f]
  OBVIOUS
<1>2. j \in Job /\ j.run \in Runs /\ j.version \in Nat
  BY <1>1 DEF TypeOK, Job, Versions
<1>3. run[j.run].version \in Nat /\ run'[j.run].version \in Nat
  BY <1>2 DEF TypeOK, RunRow, Versions
<1>4. QED
  BY <1>1, <1>2, <1>3 DEF ClaimsFenced, RunsMoveForward

\* Drafts stay fenced when a step loads none.
LEMMA DraftsStayFenced ==
  ASSUME TypeOK, TypeOK', DraftsFenced, RunsMoveForward, AttemptsMoveForward,
         drafts' \subseteq drafts
  PROVE  DraftsFenced'
<1> SUFFICES ASSUME NEW d \in drafts'
             PROVE  DraftsFenced!(d)'
  BY DEF DraftsFenced
<1>1. d \in drafts /\ d \in Draft
  BY DEF TypeOK
<1>2. d.run \in Runs /\ d.version \in Nat /\ d.number \in 0..MaxAttempts
  BY <1>1 DEF Draft, Versions
<1>3. CASE d.number = 0
  <2>1. run[d.run].version \in Nat /\ run'[d.run].version \in Nat
    BY <1>2 DEF TypeOK, RunRow, Versions
  <2>2. QED
    BY <1>1, <1>2, <1>3, <2>1 DEF DraftsFenced, RunsMoveForward
<1>4. CASE d.number # 0
  <2>1. d.number \in Numbers
    BY <1>2, <1>4 DEF Numbers
  <2>2. /\ attempt[d.run][d.number].version \in Nat
        /\ attempt'[d.run][d.number].version \in Nat
    BY <1>2, <2>1 DEF TypeOK, AttemptRow, Versions
  <2>3. QED
    BY <1>1, <1>2, <1>4, <2>1, <2>2 DEF DraftsFenced, AttemptsMoveForward
<1>5. QED
  BY <1>3, <1>4

\* Events stay unique when a step adds none, or adds the event of a row it wrote.
LEMMA EventsStayUnique ==
  ASSUME TypeOK, TypeOK', OneEventPerVersion, RunsMoveForward,
         NEW r \in Runs, NEW type,
         \/ outbox' = outbox
         \/ /\ outbox' = outbox \cup {EventOf(r, type)}
            /\ run'[r].version > run[r].version
  PROVE  OneEventPerVersion'
<1>1. \A q \in Runs : /\ run[q].version \in Nat /\ run'[q].version \in Nat
                      /\ run[q].version <= run'[q].version
  <2>1. \A q \in Runs : run[q].version \in Nat /\ run'[q].version \in Nat
    BY DEF TypeOK, RunRow, Versions
  <2>2. QED
    BY <2>1 DEF RunsMoveForward
<1>2. \A x \in outbox : x.run \in Runs /\ x.version \in Nat /\ x.version <= run[x.run].version
  BY DEF TypeOK, Event, Versions, OneEventPerVersion
<1>3. CASE outbox' = outbox
  BY <1>1, <1>2, <1>3 DEF OneEventPerVersion
<1>4. CASE /\ outbox' = outbox \cup {EventOf(r, type)}
           /\ run'[r].version > run[r].version
  BY <1>1, <1>2, <1>4 DEF OneEventPerVersion, EventOf
<1>5. QED
  BY <1>3, <1>4
-----------------------------------------------------------------------------
(* The invariant is preserved by every action. *)

\* Constants the row definitions are built from.
LEMMA StatusFacts ==
  /\ NoRow \notin Statuses
  /\ NoRow \notin AttemptStatuses
  /\ Waiting \cap Executing = {}
  /\ \A s \in Statuses : s \in Waiting \cup Executing => s \notin Failing
BY DEF NoRow, Statuses, AttemptStatuses, Waiting, Executing, Failing, RetryableTerminal

\* A step that writes one row, with a newer version and within the constraints,
\* keeps everything that is fenced by versions.
LEMMA RowWritten ==
  ASSUME QueueInv, TypeOK', AttemptsMoveForward, drafts' \subseteq drafts,
         NEW r \in Runs, NEW row \in RunRow, NEW type,
         row.status # NoRow, RowChecks(row), row.version = run[r].version + 1,
         \A q \in Runs : run'[q] = IF q = r THEN row ELSE run[q],
         outbox' = outbox \/ outbox' = outbox \cup {EventOf(r, type)}
  PROVE  RunsMoveForward /\ RowsConsistent' /\ DraftsFenced' /\ OneEventPerVersion'
<1>1. run[r].version \in Nat
  BY DEF QueueInv, TypeOK, RunRow, Versions
<1>2. RunsMoveForward /\ run'[r].version > run[r].version
  BY <1>1 DEF RunsMoveForward
<1>3. RowsConsistent'
  BY <1>1 DEF QueueInv, RowsConsistent, RowChecks
<1>4. DraftsFenced'
  BY <1>2, DraftsStayFenced DEF QueueInv
<1>5. OneEventPerVersion'
  BY <1>2, EventsStayUnique DEF QueueInv
<1>6. QED
  BY <1>2, <1>3, <1>4, <1>5

\* The numbers a row can take next.
LEMMA RowNumbers ==
  /\ 0 \in Times
  /\ 0 \in Versions /\ 1 \in Versions
  /\ \A v \in Versions : v + 1 \in Versions
  /\ \A x \in RunRow : x.version \in Versions /\ x.version + 1 \in Versions
BY DEF Times, Versions, RunRow

\* Create keeps the invariant.
LEMMA CreateStep ==
  ASSUME QueueInv, NEW r \in Runs, Create(r)
  PROVE  QueueInv'
<1> USE RunQueueAssumption
<1>1. run[r] = AbsentRun
  BY DEF QueueInv, RowsConsistent, Create, CreateReplays
<1> DEFINE row == [AbsentRun EXCEPT !.status = "QUEUED", !.attemptCount = 1, !.version = 1]
<1>2. \A q \in Runs : run'[q] = IF q = r THEN row ELSE run[q]
  BY DEF QueueInv, TypeOK, Create, CreateReplays
<1>3. /\ row.status = "QUEUED" /\ row.failure = NoFailure /\ row.attemptCount = 1
      /\ row.version = 1 /\ row.owner = NoOwner /\ row.cancelRequested = FALSE
      /\ row \in RunRow
  <2>1. AbsentRun \in RunRow
    BY RowNumbers, RunQueueAssumption DEF AbsentRun, RunRow
  <2>2. "QUEUED" \in Statuses /\ 1 \in 0..MaxAttempts
    BY DEF Statuses, Waiting
  <2>3. row \in RunRow
    BY <2>1, <2>2, RowNumbers, Zenon DEF RunRow
  <2>4. QED
    BY <2>3 DEF AbsentRun
<1> HIDE DEF row
<1>4. /\ 1 \in Numbers
      /\ \A q \in Runs, n \in Numbers :
           attempt'[q][n] = IF q = r /\ n = 1 THEN PendingAttempt ELSE attempt[q][n]
  BY <1>2, <1>3 DEF QueueInv, TypeOK, Create, CreateReplays, InsertAttempt, Numbers
<1>5. \A n \in Numbers : attempt[r][n] = AbsentAttempt
  BY <1>1 DEF QueueInv, AttemptsContiguous, AbsentRun, Numbers
<1>6. TypeOK'
  <2>1. run' \in [Runs -> RunRow]
    BY <1>3 DEF QueueInv, TypeOK, Create, CreateReplays, row
  <2>2. attempt' \in [Runs -> [Numbers -> AttemptRow]]
    <3>1. PendingAttempt \in AttemptRow
      BY RowNumbers DEF PendingAttempt, AttemptRow, AttemptStatuses
    <3>2. QED
      BY <3>1, Zenon DEF QueueInv, TypeOK, Create, CreateReplays, InsertAttempt
  <2>3. EventOf(r, "Requested") \in Event
    BY <1>2, <1>3, <1>4, RowNumbers DEF EventOf, Event, EventTypes
  <2>4. QED
    BY <2>1, <2>2, <2>3 DEF QueueInv, TypeOK, Create, CreateReplays
<1>7. RunsMoveForward /\ run'[r].version > run[r].version
  BY <1>1, <1>2, <1>3 DEF RunsMoveForward, AbsentRun
<1>8. AttemptsMoveForward
  BY <1>4, <1>5 DEF AttemptsMoveForward, AbsentAttempt, PendingAttempt
<1>9. RowsConsistent'
  BY <1>2, <1>3, <1>4 DEF QueueInv, RowsConsistent, RowChecks, NoRow, Failing, RetryableTerminal
<1>10. ClaimsFenced'
  BY <1>6, <1>7, ClaimsStayFenced DEF QueueInv, Create, CreateReplays
<1>11. DraftsFenced'
  BY <1>6, <1>7, <1>8, DraftsStayFenced DEF QueueInv, Create, CreateReplays
<1>12. AttemptAssignedOnce'
  BY <1>4, <1>5 DEF QueueInv, AttemptAssignedOnce, Create, CreateReplays, PendingAttempt, AbsentAttempt
<1>13. WorkloadMatchesStatus'
  BY <1>2, <1>3, <1>4, <1>5 DEF QueueInv, WorkloadMatchesStatus, AttemptAssignedOnce, Create, CreateReplays,
                                AbsentAttempt, Executing
<1>14. AttemptsContiguous'
  BY <1>1, <1>2, <1>3, <1>4, <1>5
     DEF QueueInv, AttemptsContiguous, AbsentRun, PendingAttempt, NoRow, Numbers
<1>15. OneEventPerVersion'
  BY <1>6, <1>7, EventsStayUnique DEF QueueInv, Create, CreateReplays
<1>16. QED
  BY <1>6, <1>9, <1>10, <1>11, <1>12, <1>13, <1>14, <1>15 DEF QueueInv

\* Cancel keeps the invariant.
LEMMA CancelStep ==
  ASSUME QueueInv, NEW r \in Runs, NEW c \in Commands, Cancel(r, c)
  PROVE  QueueInv'
<1> USE RunQueueAssumption
<1> DEFINE row == Cancelled(run[r])
<1>1. run[r] \in RunRow /\ run[r].status # NoRow /\ RowChecks(run[r])
  BY DEF QueueInv, TypeOK, RowsConsistent, Cancel
<1>2. \A q \in Runs : run'[q] = IF q = r THEN row ELSE run[q]
  BY DEF QueueInv, TypeOK, Cancel
<1>3. /\ row \in RunRow
      /\ row.status = "CANCELLING" /\ row.failure = run[r].failure
      /\ row.attemptCount = run[r].attemptCount /\ row.version = run[r].version + 1
      /\ row.owner = NoOwner /\ row.cancelRequested = TRUE
  <2>1. "CANCELLING" \in Statuses
    BY DEF Statuses
  <2>2. row \in RunRow
    BY <1>1, <2>1, RowNumbers, Zenon DEF Cancelled, RunRow
  <2>3. QED
    BY <1>1, <2>2 DEF Cancelled, RunRow, Versions
<1> HIDE DEF row
<1>4. RowChecks(row) /\ row.status # NoRow
  BY <1>1, <1>3 DEF RowChecks, Cancel, IsTerminal, Failing, RetryableTerminal, NoRow
<1>5. TypeOK'
  <2>1. run' \in [Runs -> RunRow]
    BY <1>3 DEF QueueInv, TypeOK, Cancel, row
  <2>2. EventOf(r, "CancelRequested") \in Event
    BY <1>2, <1>3, <1>4 DEF EventOf, Event, EventTypes, RunRow, RowChecks
  <2>3. ReceiptOf(r, "CANCEL", c) \in Receipt
    BY <1>2, <1>3, <1>4 DEF ReceiptOf, Receipt, RunRow, RowChecks
  <2>4. QED
    BY <2>1, <2>2, <2>3 DEF QueueInv, TypeOK, Cancel
<1>6. AttemptsMoveForward
  BY DEF AttemptsMoveForward, Cancel
<1>7. RunsMoveForward /\ RowsConsistent' /\ DraftsFenced' /\ OneEventPerVersion'
  BY <1>2, <1>3, <1>4, <1>5, <1>6, RowWritten DEF Cancel
<1>8. ClaimsFenced'
  BY <1>5, <1>7, ClaimsStayFenced DEF QueueInv, Cancel
<1>9. AttemptAssignedOnce'
  BY DEF QueueInv, AttemptAssignedOnce, Cancel
<1>10. WorkloadMatchesStatus'
  BY <1>2, <1>3 DEF QueueInv, WorkloadMatchesStatus, Cancel, Executing, Waiting
<1>11. AttemptsContiguous'
  BY <1>2, <1>3 DEF QueueInv, AttemptsContiguous, Cancel
<1>12. QED
  BY <1>5, <1>7, <1>8, <1>9, <1>10, <1>11 DEF QueueInv

\* Retry keeps the invariant.
LEMMA RetryStep ==
  ASSUME QueueInv, NEW r \in Runs, NEW c \in Commands, Retry(r, c)
  PROVE  QueueInv'
<1> USE RunQueueAssumption
<1> DEFINE row == Requeued(run[r])
           m == run[r].attemptCount + 1
<1>1. /\ run[r] \in RunRow /\ run[r].status # NoRow /\ RowChecks(run[r])
      /\ IsTerminal(run[r].status) /\ run[r].attemptCount < MaxAttempts
      /\ run[r].status \in RetryableTerminal
  BY DEF QueueInv, TypeOK, RowsConsistent, Retry, RetryAllowed, CanRetry, CanTransition,
         IsTerminal, NoRow, Failing, RetryableTerminal, Successors
<1>2. \A q \in Runs : run'[q] = IF q = r THEN row ELSE run[q]
  BY DEF QueueInv, TypeOK, Retry
<1>3. m \in Numbers
  BY <1>1 DEF RunRow, Numbers
<1>4. /\ row \in RunRow
      /\ row.status = "QUEUED" /\ row.failure = NoFailure
      /\ row.attemptCount = m /\ row.version = run[r].version + 1
      /\ row.owner = NoOwner /\ row.cancelRequested = run[r].cancelRequested
  <2>1. "QUEUED" \in Statuses /\ m \in 0..MaxAttempts
    BY <1>3 DEF Statuses, Waiting, Numbers
  <2>2. row \in RunRow
    BY <1>1, <2>1, RowNumbers, Zenon DEF Requeued, RunRow
  <2>3. QED
    BY <1>1, <2>2 DEF Requeued, RunRow, Versions
<1> HIDE DEF row
<1>5. RowChecks(row) /\ row.status # NoRow
  BY <1>1, <1>3, <1>4 DEF RowChecks, Failing, RetryableTerminal, NoRow
<1>6. \A q \in Runs, n \in Numbers :
        attempt'[q][n] = IF q = r /\ n = m THEN PendingAttempt ELSE attempt[q][n]
  BY <1>2, <1>3, <1>4 DEF QueueInv, TypeOK, Retry, InsertAttempt
<1>7. attempt[r][m] = AbsentAttempt
  BY <1>1, <1>3 DEF QueueInv, AttemptsContiguous, RunRow, Versions
<1>8. TypeOK'
  <2>1. run' \in [Runs -> RunRow]
    BY <1>4 DEF QueueInv, TypeOK, Retry, row
  <2>2. EventOf(r, "RetryRequested") \in Event
    BY <1>2, <1>4, <1>5 DEF EventOf, Event, EventTypes, RunRow, RowChecks
  <2>3. ReceiptOf(r, "RETRY", c) \in Receipt
    BY <1>2, <1>4, <1>5 DEF ReceiptOf, Receipt, RunRow, RowChecks
  <2>4. attempt' \in [Runs -> [Numbers -> AttemptRow]]
    <3>1. PendingAttempt \in AttemptRow
      BY RowNumbers DEF PendingAttempt, AttemptRow, AttemptStatuses
    <3>2. QED
      BY <3>1, Zenon DEF QueueInv, TypeOK, Retry, InsertAttempt
  <2>5. QED
    BY <2>1, <2>2, <2>3, <2>4 DEF QueueInv, TypeOK, Retry
<1>9. AttemptsMoveForward
  BY <1>6, <1>7 DEF AttemptsMoveForward, AbsentAttempt, PendingAttempt
<1>10. RunsMoveForward /\ RowsConsistent' /\ DraftsFenced' /\ OneEventPerVersion'
  BY <1>2, <1>4, <1>5, <1>8, <1>9, RowWritten DEF Retry
<1>11. ClaimsFenced'
  BY <1>8, <1>10, ClaimsStayFenced DEF QueueInv, Retry
<1>12. AttemptAssignedOnce'
  BY <1>6, <1>7 DEF QueueInv, AttemptAssignedOnce, Retry, PendingAttempt, AbsentAttempt
<1>13. WorkloadMatchesStatus'
  BY <1>2, <1>3, <1>4, <1>7 DEF QueueInv, WorkloadMatchesStatus, AttemptAssignedOnce, Retry,
                                AbsentAttempt, Executing
<1>14. AttemptsContiguous'
  BY <1>1, <1>2, <1>3, <1>4, <1>6
     DEF QueueInv, AttemptsContiguous, PendingAttempt, NoRow, Numbers, RunRow, Versions
<1>15. QED
  BY <1>8, <1>10, <1>11, <1>12, <1>13, <1>14 DEF QueueInv
-----------------------------------------------------------------------------
\* A step that writes no row and hands out no claim keeps the invariant if it
\* keeps the drafts fenced.
LEMMA NothingWritten ==
  ASSUME QueueInv, TypeOK', DraftsFenced', UNCHANGED <<run, attempt, outbox, assignments>>,
         \A e \in Engines : jobs'[e] \subseteq jobs[e]
  PROVE  QueueInv'
<1>1. RunsMoveForward
  BY DEF RunsMoveForward
<1>2. ClaimsFenced'
  BY <1>1, ClaimsStayFenced DEF QueueInv
<1>3. RowsConsistent' /\ OneEventPerVersion'
  BY DEF QueueInv, RowsConsistent, OneEventPerVersion
<1>4. AttemptAssignedOnce' /\ WorkloadMatchesStatus' /\ AttemptsContiguous'
  BY DEF QueueInv, AttemptAssignedOnce, WorkloadMatchesStatus, AttemptsContiguous
<1>5. QED
  BY <1>2, <1>3, <1>4 DEF QueueInv

\* Drafts that were fenced stay so while no row is written.
LEMMA DraftsUntouched ==
  ASSUME DraftsFenced, UNCHANGED <<run, attempt>>, drafts' \subseteq drafts
  PROVE  DraftsFenced'
BY DEF DraftsFenced

\* Tick keeps the invariant.
LEMMA TickStep ==
  ASSUME QueueInv, Tick
  PROVE  QueueInv'
<1>1. TypeOK'
  BY DEF QueueInv, TypeOK, Tick
<1>2. DraftsFenced'
  BY DraftsUntouched DEF QueueInv, Tick
<1>3. QED
  BY <1>1, <1>2, NothingWritten DEF Tick

\* Discard keeps the invariant.
LEMMA DiscardStep ==
  ASSUME QueueInv, NEW d \in drafts, Discard(d)
  PROVE  QueueInv'
<1>1. TypeOK'
  BY DEF QueueInv, TypeOK, Discard
<1>2. DraftsFenced'
  BY DraftsUntouched DEF QueueInv, Discard
<1>3. QED
  BY <1>1, <1>2, NothingWritten DEF Discard

\* Abandon keeps the invariant.
LEMMA AbandonStep ==
  ASSUME QueueInv, NEW e \in Engines, NEW j \in jobs[e], Abandon(e, j)
  PROVE  QueueInv'
<1>1. TypeOK'
  BY DEF QueueInv, TypeOK, Abandon, Finish
<1>2. DraftsFenced'
  BY DraftsUntouched DEF QueueInv, Abandon
<1>3. \A f \in Engines : jobs'[f] \subseteq jobs[f]
  BY DEF QueueInv, TypeOK, Abandon, Finish
<1>4. QED
  BY <1>1, <1>2, <1>3, NothingWritten DEF Abandon

\* Crash keeps the invariant.
LEMMA CrashStep ==
  ASSUME QueueInv, NEW e \in Engines, Crash(e)
  PROVE  QueueInv'
<1>1. TypeOK'
  BY DEF QueueInv, TypeOK, Crash
<1>2. DraftsFenced'
  BY DraftsUntouched DEF QueueInv, Crash
<1>3. \A f \in Engines : jobs'[f] \subseteq jobs[f]
  BY DEF QueueInv, TypeOK, Crash
<1>4. QED
  BY <1>1, <1>2, <1>3, NothingWritten DEF Crash

\* LoadRun keeps the invariant.
LEMMA LoadRunStep ==
  ASSUME QueueInv, NEW r \in Runs, LoadRun(r)
  PROVE  QueueInv'
<1> DEFINE draft == [run |-> r, number |-> 0, status |-> run[r].status,
                     failure |-> run[r].failure, attemptCount |-> run[r].attemptCount,
                     version |-> run[r].version, assigned |-> FALSE,
                     cancelRequested |-> run[r].cancelRequested]
<1>1. run[r] \in RunRow /\ run[r].status # NoRow /\ RowChecks(run[r]) /\ run[r].version > 0
  BY DEF QueueInv, TypeOK, RowsConsistent, LoadRun
<1>2. draft \in Draft
  BY <1>1, RunQueueAssumption DEF Draft, RunRow, RowChecks
<1>3. TypeOK'
  BY <1>2, Zenon DEF QueueInv, TypeOK, LoadRun
<1>4. run[r].version \in 1..run[r].version
  BY <1>1 DEF RunRow, Versions
<1>5. DraftsFenced'
  BY <1>4 DEF QueueInv, DraftsFenced, LoadRun
<1>6. QED
  BY <1>3, <1>5, NothingWritten DEF LoadRun

\* LoadAttempt keeps the invariant.
LEMMA LoadAttemptStep ==
  ASSUME QueueInv, NEW r \in Runs, NEW n \in Numbers, LoadAttempt(r, n)
  PROVE  QueueInv'
<1> DEFINE draft == [run |-> r, number |-> n, status |-> attempt[r][n].status,
                     failure |-> NoFailure, attemptCount |-> n,
                     version |-> attempt[r][n].version,
                     assigned |-> attempt[r][n].assigned, cancelRequested |-> FALSE]
<1>1. /\ attempt[r][n] \in AttemptRow /\ attempt[r][n].status # NoRow
      /\ attempt[r][n].version > 0
  BY DEF QueueInv, TypeOK, AttemptsContiguous, LoadAttempt, AbsentAttempt
<1>2. n \in 0..MaxAttempts /\ n # 0
  BY RunQueueAssumption DEF Numbers
<1>3. draft \in Draft
  BY <1>1, <1>2 DEF Draft, AttemptRow
<1>4. TypeOK'
  BY <1>3, Zenon DEF QueueInv, TypeOK, LoadAttempt
<1>5. attempt[r][n].version \in 1..attempt[r][n].version
  BY <1>1 DEF AttemptRow, Versions
<1>6. DraftsFenced'
  BY <1>2, <1>5 DEF QueueInv, DraftsFenced, LoadAttempt
<1>7. QED
  BY <1>4, <1>6, NothingWritten DEF LoadAttempt
-----------------------------------------------------------------------------
(* Claims. *)

\* A step that writes runs and hands one engine claims on rows it has just
\* leased to it, one claim a run, keeps the claims fenced.
LEMMA ClaimsHandedOut ==
  ASSUME TypeOK, TypeOK', ClaimsFenced, RunsMoveForward, NEW e \in Engines,
         NEW fresh \in SUBSET Job,
         \A f \in Engines : jobs'[f] \subseteq jobs[f] \cup (IF f = e THEN fresh ELSE {}),
         \A k, l \in fresh : k.run = l.run => k = l,
         \A k \in fresh : /\ k.version = run'[k.run].version
                          /\ run'[k.run].version > run[k.run].version
                          /\ run'[k.run].status = "SCHEDULING"
                          /\ run'[k.run].owner = e
  PROVE  ClaimsFenced'
<1>1. \A f \in Engines : \A j \in jobs[f] : j.run \in Runs /\ j.version \in Nat
  BY DEF TypeOK, Job, Versions
<1>2. \A j \in fresh : j.run \in Runs /\ j.version \in Nat
  BY DEF Job, Versions
<1>3. \A r \in Runs : run[r].version \in Nat /\ run'[r].version \in Nat
  BY DEF TypeOK, RunRow, Versions
<1>4. \A r \in Runs : run[r].version <= run'[r].version
  BY <1>3 DEF RunsMoveForward
<1>5. \A f \in Engines : \A j \in jobs[f] : j.version <= run[j.run].version
  BY DEF ClaimsFenced
<1> SUFFICES ASSUME NEW g \in Engines, NEW f \in Engines, NEW j \in jobs'[g], NEW k \in jobs'[f]
             PROVE  /\ j.run = k.run /\ j.version = k.version => g = f /\ j = k
                    /\ j.version <= run'[j.run].version
                    /\ j.version = run'[j.run].version =>
                         run'[j.run].status = "SCHEDULING" /\ run'[j.run].owner = g
  BY DEF ClaimsFenced
<1>6. /\ j \in jobs[g] \/ (g = e /\ j \in fresh)
      /\ k \in jobs[f] \/ (f = e /\ k \in fresh)
  OBVIOUS
<1>7. j.version <= run'[j.run].version
  BY <1>1, <1>2, <1>3, <1>4, <1>5, <1>6
<1>8. ASSUME j.version = run'[j.run].version
      PROVE  run'[j.run].status = "SCHEDULING" /\ run'[j.run].owner = g
  <2>1. CASE g = e /\ j \in fresh
    BY <2>1
  <2>2. CASE j \in jobs[g]
    <3>1. run'[j.run] = run[j.run]
      BY <1>1, <1>3, <1>5, <1>8, <2>2 DEF RunsMoveForward
    <3>2. QED
      BY <1>8, <2>2, <3>1 DEF ClaimsFenced
  <2>3. QED
    BY <1>6, <2>1, <2>2
<1>9. ASSUME j.run = k.run, j.version = k.version
      PROVE  g = f /\ j = k
  <2>1. CASE j \in jobs[g] /\ k \in jobs[f]
    BY <1>9, <2>1 DEF ClaimsFenced
  <2>2. CASE j \in fresh /\ k \in fresh /\ g = e /\ f = e
    BY <1>9, <2>2
  <2>3. CASE j \in fresh /\ k \in jobs[f]
    BY <1>1, <1>2, <1>3, <1>5, <1>9, <2>3
  <2>4. CASE j \in jobs[g] /\ k \in fresh
    BY <1>1, <1>2, <1>3, <1>5, <1>9, <2>4
  <2>5. QED
    BY <1>6, <2>1, <2>2, <2>3, <2>4
<1>10. QED
  BY <1>7, <1>8, <1>9

\* Evaluate keeps the invariant.
LEMMA EvaluateStep ==
  ASSUME QueueInv, NEW e \in Engines, NEW j \in jobs[e], Evaluate(e, j)
  PROVE  QueueInv'
<1>1. PICK t \in Readings(e), decision \in {"ELIGIBLE", "DEFER", "REJECT"} :
        Replace(e, j, [j EXCEPT !.stage = "evaluated", !.decision = decision, !.at = t])
  BY Zenon DEF Evaluate
<1> DEFINE k == [j EXCEPT !.stage = "evaluated", !.decision = decision, !.at = t]
<1>2. j \in Job /\ t \in Times
  BY DEF QueueInv, TypeOK, Readings, Times
<1>3. k \in Job /\ k.run = j.run /\ k.version = j.version
  BY <1>2, Zenon DEF Job
<1> HIDE DEF k
<1>4. \A f \in Engines : jobs'[f] = IF f = e THEN (jobs[e] \ {j}) \cup {k} ELSE jobs[f]
  BY <1>1 DEF QueueInv, TypeOK, Replace, k
<1>5. jobs' \in [Engines -> SUBSET Job]
  BY <1>1, <1>3 DEF QueueInv, TypeOK, Replace, k
<1>6. TypeOK'
  BY <1>5 DEF QueueInv, TypeOK, Evaluate
<1>7. ClaimsFenced'
  BY <1>3, <1>4 DEF QueueInv, ClaimsFenced, Evaluate
<1>8. DraftsFenced'
  BY DraftsUntouched DEF QueueInv, Evaluate
<1>9. RowsConsistent' /\ OneEventPerVersion'
  BY DEF QueueInv, RowsConsistent, OneEventPerVersion, Evaluate
<1>10. AttemptAssignedOnce' /\ WorkloadMatchesStatus' /\ AttemptsContiguous'
  BY DEF QueueInv, AttemptAssignedOnce, WorkloadMatchesStatus, AttemptsContiguous, Evaluate
<1>11. QED
  BY <1>6, <1>7, <1>8, <1>9, <1>10 DEF QueueInv

\* Renew keeps the invariant.
LEMMA RenewStep ==
  ASSUME QueueInv, NEW e \in Engines, NEW j \in jobs[e], Renew(e, j)
  PROVE  QueueInv'
<1> USE RunQueueAssumption
<1> DEFINE r == j.run
<1>1. PICK t \in Readings(e) :
        /\ Holds(e, j, t)
        /\ run' = [run EXCEPT ![r] = Renewed(@, t)]
        /\ Replace(e, j, [j EXCEPT !.stage = "renewed", !.at = t, !.next = DeferUntil(j, t),
                                   !.version = Renewed(run[r], t).version])
  BY Zenon DEF Renew
<1> DEFINE row == Renewed(run[r], t)
           k == [j EXCEPT !.stage = "renewed", !.at = t, !.next = DeferUntil(j, t),
                          !.version = row.version]
<1>2. j \in Job /\ r \in Runs /\ t \in Times /\ t + LeaseDuration \in Times
  BY DEF QueueInv, TypeOK, Readings, Times, Job
<1>3. run[r] \in RunRow /\ run[r].status = "SCHEDULING" /\ run[r].owner = e
  BY <1>1, <1>2 DEF QueueInv, TypeOK, Holds
<1>4. /\ row \in RunRow
      /\ row.status = "SCHEDULING" /\ row.failure = run[r].failure
      /\ row.attemptCount = run[r].attemptCount /\ row.version = run[r].version + 1
      /\ row.owner = e /\ row.cancelRequested = run[r].cancelRequested
  <2>1. row \in RunRow
    BY <1>2, <1>3, RowNumbers, Zenon DEF Renewed, RunRow
  <2>2. QED
    BY <1>3, <2>1 DEF Renewed, RunRow
<1>5. DeferUntil(j, t) \in Times
  BY <1>2 DEF DeferUntil, Times, Job
<1>6. k \in Job /\ k.run = r /\ k.version = row.version
  <2>1. row.version \in Versions
    BY <1>4 DEF RunRow
  <2> HIDE DEF row
  <2>2. QED
    BY <1>2, <1>5, <2>1, Zenon DEF Job
<1> HIDE DEF row, k
<1>7. \A q \in Runs : run'[q] = IF q = r THEN row ELSE run[q]
  BY <1>1, <1>2 DEF QueueInv, TypeOK, row
<1>8. \A f \in Engines : jobs'[f] = IF f = e THEN (jobs[e] \ {j}) \cup {k} ELSE jobs[f]
  BY <1>1 DEF QueueInv, TypeOK, Replace, k, row
<1>9. TypeOK'
  <2>1. run' \in [Runs -> RunRow]
    BY <1>1, <1>4, Zenon DEF QueueInv, TypeOK, row
  <2>2. jobs' \in [Engines -> SUBSET Job]
    BY <1>1, <1>6 DEF QueueInv, TypeOK, Replace, k, row
  <2>3. QED
    BY <2>1, <2>2 DEF QueueInv, TypeOK, Renew
<1>10. AttemptsMoveForward
  BY DEF AttemptsMoveForward, Renew
<1>11. RowChecks(row) /\ row.status # NoRow
  BY <1>2, <1>3, <1>4 DEF QueueInv, RowsConsistent, RowChecks, NoRow
<1>12. RunsMoveForward /\ RowsConsistent' /\ DraftsFenced' /\ OneEventPerVersion'
  BY <1>2, <1>4, <1>7, <1>9, <1>10, <1>11, RowWritten DEF Renew
<1>13. ClaimsFenced'
  <2>1. run'[r].version > run[r].version
    BY <1>2, <1>3, <1>4, <1>7 DEF RunRow, Versions
  <2>2. \A f \in Engines : jobs'[f] \subseteq jobs[f] \cup (IF f = e THEN {k} ELSE {})
    BY <1>8
  <2>3. {k} \in SUBSET Job /\ \A x, y \in {k} : x.run = y.run => x = y
    BY <1>6
  <2>4. \A x \in {k} : /\ x.version = run'[x.run].version
                       /\ run'[x.run].version > run[x.run].version
                       /\ run'[x.run].status = "SCHEDULING"
                       /\ run'[x.run].owner = e
    BY <1>2, <1>4, <1>6, <1>7, <2>1
  <2>5. QED
    BY <1>9, <1>12, <2>2, <2>3, <2>4, ClaimsHandedOut, Zenon DEF QueueInv
<1>14. AttemptAssignedOnce'
  BY DEF QueueInv, AttemptAssignedOnce, Renew
<1>15. WorkloadMatchesStatus'
  BY <1>3, <1>4, <1>7 DEF QueueInv, WorkloadMatchesStatus, Renew
<1>16. AttemptsContiguous'
  BY <1>4, <1>7 DEF QueueInv, AttemptsContiguous, Renew
<1>17. QED
  BY <1>9, <1>12, <1>13, <1>14, <1>15, <1>16 DEF QueueInv

\* Claim keeps the invariant.
LEMMA ClaimStep ==
  ASSUME QueueInv, NEW e \in Engines, Claim(e)
  PROVE  QueueInv'
<1> USE RunQueueAssumption
<1>1. PICK t \in Readings(e), due \in SUBSET Runs :
        /\ \A r \in due : Claimable(r, t)
        /\ run' = [r \in Runs |-> IF r \in due THEN Claimed(run[r], e, t) ELSE run[r]]
        /\ jobs' = [jobs EXCEPT ![e] = @ \cup {NewJob(r, e, t) : r \in due}]
  BY Zenon DEF Claim
<1>2. t \in Times /\ t + LeaseDuration \in Times
  BY DEF Readings, Times
<1>3. \A r \in due : /\ run[r] \in RunRow /\ run[r].status \in Waiting
                     /\ RowChecks(run[r]) /\ run[r].version > 0
  <2>1. \A r \in due : run[r].status \in Waiting /\ run[r].status # NoRow
    BY <1>1 DEF Claimable, Waiting, NoRow
  <2>2. QED
    BY <2>1 DEF QueueInv, TypeOK, RowsConsistent
<1>4. \A r \in due :
        /\ Claimed(run[r], e, t) \in RunRow
        /\ Claimed(run[r], e, t).status = "SCHEDULING"
        /\ Claimed(run[r], e, t).failure = run[r].failure
        /\ Claimed(run[r], e, t).attemptCount = run[r].attemptCount
        /\ Claimed(run[r], e, t).version = run[r].version + 1
        /\ Claimed(run[r], e, t).owner = e
        /\ Claimed(run[r], e, t).cancelRequested = run[r].cancelRequested
  <2> TAKE r \in due
  <2>1. "SCHEDULING" \in Statuses
    BY DEF Statuses, Waiting
  <2>2. Claimed(run[r], e, t) \in RunRow
    BY <1>2, <1>3, <2>1, RowNumbers, Zenon DEF Claimed, RunRow
  <2>3. QED
    BY <1>3, <2>2 DEF Claimed, RunRow
<1>5. \A r \in due : /\ NewJob(r, e, t) \in Job /\ NewJob(r, e, t).run = r
                     /\ NewJob(r, e, t).version = Claimed(run[r], e, t).version
  <2> TAKE r \in due
  <2>1. run[r].attemptCount \in Numbers
    BY <1>3 DEF RowChecks
  <2>2. attempt[r][run[r].attemptCount].version \in Versions
    BY <2>1 DEF QueueInv, TypeOK, AttemptRow
  <2>3. Claimed(run[r], e, t).version \in Versions
    BY <1>4 DEF RunRow
  <2>4. QED
    BY <1>2, <2>1, <2>2, <2>3, RowNumbers DEF NewJob, Job
<1>6. \A q \in Runs : run'[q] = IF q \in due THEN Claimed(run[q], e, t) ELSE run[q]
  BY <1>1
<1> DEFINE fresh == {NewJob(r, e, t) : r \in due}
<1>7. fresh \in SUBSET Job
  BY <1>5
<1>8. TypeOK'
  <2>1. run' \in [Runs -> RunRow]
    BY <1>1, <1>4 DEF QueueInv, TypeOK
  <2>2. jobs' \in [Engines -> SUBSET Job]
    BY <1>1, <1>7 DEF QueueInv, TypeOK
  <2>3. QED
    BY <2>1, <2>2 DEF QueueInv, TypeOK, Claim
<1>9. \A r \in due : run'[r].version > run[r].version
  BY <1>3, <1>4, <1>6 DEF RunRow, Versions
<1>10. RunsMoveForward /\ AttemptsMoveForward
  BY <1>6, <1>9 DEF RunsMoveForward, AttemptsMoveForward, Claim
<1>11. RowsConsistent'
  <2>1. \A r \in due : Claimed(run[r], e, t).version > 0
    BY <1>3, <1>4 DEF RunRow, Versions
  <2>2. \A r \in due : RowChecks(Claimed(run[r], e, t))
    <3> TAKE r \in due
    <3>1. /\ RowChecks(run[r]) /\ run[r].failure = NoFailure
          /\ run[r].cancelRequested = FALSE
      BY <1>3 DEF RowChecks, RunRow, Waiting, Failing, RetryableTerminal
    <3>2. "SCHEDULING" \notin Failing /\ e # NoOwner
      BY DEF Failing, RetryableTerminal
    <3>3. QED
      BY <1>4, <3>1, <3>2 DEF RowChecks
  <2>3. QED
    BY <1>4, <1>6, <2>1, <2>2 DEF QueueInv, RowsConsistent, NoRow
<1>12. DraftsFenced'
  BY <1>8, <1>10, DraftsStayFenced DEF QueueInv, Claim
<1>13. ClaimsFenced'
  <2>1. \A f \in Engines : jobs'[f] \subseteq jobs[f] \cup (IF f = e THEN fresh ELSE {})
    BY <1>1 DEF QueueInv, TypeOK
  <2>2. \A k, l \in fresh : k.run = l.run => k = l
    BY <1>5
  <2>3. \A k \in fresh : /\ k.version = run'[k.run].version
                         /\ run'[k.run].version > run[k.run].version
                         /\ run'[k.run].status = "SCHEDULING"
                         /\ run'[k.run].owner = e
    BY <1>4, <1>5, <1>6, <1>9
  <2> HIDE DEF fresh
  <2>4. QED
    BY <1>7, <1>8, <1>10, <2>1, <2>2, <2>3, ClaimsHandedOut DEF QueueInv
<1>14. AttemptAssignedOnce'
  BY DEF QueueInv, AttemptAssignedOnce, Claim
<1>15. WorkloadMatchesStatus'
  BY <1>3, <1>4, <1>6 DEF QueueInv, WorkloadMatchesStatus, Claim, Waiting, Executing
<1>16. AttemptsContiguous'
  BY <1>4, <1>6 DEF QueueInv, AttemptsContiguous, Claim
<1>17. OneEventPerVersion'
  <2>1. outbox' = outbox
    BY DEF Claim
  <2>2. CASE due = {}
    BY <1>6, <2>1, <2>2 DEF QueueInv, OneEventPerVersion, TypeOK, Event
  <2>3. CASE due # {}
    BY <1>8, <1>10, <2>1, <2>3, EventsStayUnique DEF QueueInv
  <2>4. QED
    BY <2>2, <2>3
<1>18. QED
  BY <1>8, <1>11, <1>12, <1>13, <1>14, <1>15, <1>16, <1>17 DEF QueueInv
-----------------------------------------------------------------------------
(* The three outcomes of a claim. *)

\* The row of a held claim and the row an outcome makes of it.
LEMMA SettledRow ==
  ASSUME QueueInv, NEW e \in Engines, NEW j \in jobs[e], Holds(e, j, j.at),
         NEW status \in {"PROVISIONING", "CAPACITY_WAIT", "POLICY_REJECTED"},
         NEW failure \in FailureCategories \cup {NoFailure}, NEW next \in Times,
         status = "POLICY_REJECTED" <=> failure # NoFailure
  PROVE  LET row == Settled(run[j.run], status, failure, next) IN
         /\ j \in Job /\ j.run \in Runs /\ j.attempt \in Numbers
         /\ run[j.run] \in RunRow /\ run[j.run].status = "SCHEDULING"
         /\ RowChecks(run[j.run]) /\ run[j.run].failure = NoFailure
         /\ row \in RunRow /\ RowChecks(row) /\ row.status = status /\ row.failure = failure
         /\ row.attemptCount = run[j.run].attemptCount
         /\ row.version = run[j.run].version + 1
<1> DEFINE row == Settled(run[j.run], status, failure, next)
<1>1. j \in Job /\ j.run \in Runs /\ j.attempt \in Numbers
  BY DEF QueueInv, TypeOK, Job
<1>2. run[j.run] \in RunRow /\ run[j.run].status = "SCHEDULING"
  BY <1>1 DEF QueueInv, TypeOK, Holds
<1>3. RowChecks(run[j.run])
  BY <1>1, <1>2 DEF QueueInv, RowsConsistent, NoRow
<1>4. run[j.run].failure = NoFailure /\ run[j.run].cancelRequested = FALSE
  BY <1>2, <1>3 DEF RowChecks, RunRow, Failing, RetryableTerminal
<1>5. row \in RunRow
  <2>1. status \in Statuses
    BY DEF Statuses, Waiting, Executing, Failing
  <2>2. QED
    BY <1>2, <2>1, RowNumbers, Zenon DEF Settled, RunRow
<1>6. /\ row.status = status /\ row.failure = failure
      /\ row.attemptCount = run[j.run].attemptCount /\ row.version = run[j.run].version + 1
      /\ row.owner = NoOwner /\ row.cancelRequested = FALSE
  BY <1>2, <1>4, <1>5 DEF Settled, RunRow
<1> HIDE DEF row
<1>7. status \in Failing <=> status = "POLICY_REJECTED"
  BY DEF Failing, RetryableTerminal
<1>8. RowChecks(row)
  BY <1>3, <1>6, <1>7 DEF RowChecks
<1>9. QED
  BY <1>1, <1>2, <1>3, <1>4, <1>5, <1>6, <1>8 DEF row

\* DeferCapacity keeps the invariant.
LEMMA DeferCapacityStep ==
  ASSUME QueueInv, NEW e \in Engines, NEW j \in jobs[e], DeferCapacity(e, j)
  PROVE  QueueInv'
<1> DEFINE r == j.run
           row == Settled(run[r], "CAPACITY_WAIT", run[r].failure, j.next)
<1>1. j.next \in Times /\ Holds(e, j, j.at)
  BY DEF QueueInv, TypeOK, Job, DeferCapacity
<1>2. /\ r \in Runs /\ run[r] \in RunRow /\ run[r].failure = NoFailure
      /\ run[r].status = "SCHEDULING"
  <2>1. r \in Runs /\ run[r] \in RunRow /\ run[r].status = "SCHEDULING"
    BY <1>1 DEF QueueInv, TypeOK, Job, Holds
  <2>2. QED
    BY <2>1 DEF QueueInv, RowsConsistent, RowChecks, NoRow, Failing, RetryableTerminal
<1>3. /\ row \in RunRow /\ RowChecks(row) /\ row.status = "CAPACITY_WAIT"
      /\ row.attemptCount = run[r].attemptCount /\ row.version = run[r].version + 1
  BY <1>1, <1>2, SettledRow
<1>4. \A q \in Runs : run'[q] = IF q = r THEN row ELSE run[q]
  BY <1>2 DEF QueueInv, TypeOK, DeferCapacity
<1>5. \A f \in Engines : jobs'[f] \subseteq jobs[f]
  BY DEF QueueInv, TypeOK, DeferCapacity, Finish
<1>6. TypeOK'
  <2>1. run' \in [Runs -> RunRow]
    BY <1>3, Zenon DEF QueueInv, TypeOK, DeferCapacity
  <2>2. jobs' \in [Engines -> SUBSET Job]
    BY DEF QueueInv, TypeOK, DeferCapacity, Finish
  <2> HIDE DEF row
  <2>3. EventOf(r, "CapacityWait") \in Event
    BY <1>2, <1>3, <1>4 DEF EventOf, Event, EventTypes, RunRow, RowChecks
  <2>4. QED
    BY <2>1, <2>2, <2>3 DEF QueueInv, TypeOK, DeferCapacity
<1> HIDE DEF row
<1>7. AttemptsMoveForward
  BY DEF AttemptsMoveForward, DeferCapacity
<1>8. RunsMoveForward /\ RowsConsistent' /\ DraftsFenced' /\ OneEventPerVersion'
  BY <1>2, <1>3, <1>4, <1>6, <1>7, RowWritten, Zenon DEF DeferCapacity, NoRow
<1>9. ClaimsFenced'
  BY <1>5, <1>6, <1>8, ClaimsStayFenced DEF QueueInv
<1>10. AttemptAssignedOnce'
  BY DEF QueueInv, AttemptAssignedOnce, DeferCapacity
<1>11. WorkloadMatchesStatus'
  BY <1>2, <1>3, <1>4
     DEF QueueInv, WorkloadMatchesStatus, DeferCapacity, Executing, Waiting
<1>12. AttemptsContiguous'
  BY <1>3, <1>4 DEF QueueInv, AttemptsContiguous, DeferCapacity
<1>13. QED
  BY <1>6, <1>8, <1>9, <1>10, <1>11, <1>12 DEF QueueInv

\* Schedule keeps the invariant.
LEMMA ScheduleStep ==
  ASSUME QueueInv, NEW e \in Engines, NEW j \in jobs[e], Schedule(e, j)
  PROVE  QueueInv'
<1> DEFINE r == j.run
           m == j.attempt
           row == Settled(run[r], "PROVISIONING", run[r].failure, 0)
           started == Started(attempt[r][m])
<1>1. Holds(e, j, j.at) /\ AttemptPending(j)
  BY DEF Schedule
<1>2. /\ r \in Runs /\ run[r] \in RunRow /\ run[r].failure = NoFailure
      /\ run[r].status = "SCHEDULING" /\ m \in Numbers /\ run[r].attemptCount = m
  <2>1. /\ r \in Runs /\ run[r] \in RunRow /\ run[r].status = "SCHEDULING"
        /\ m \in Numbers /\ run[r].attemptCount = m
    BY <1>1 DEF QueueInv, TypeOK, Job, Holds, AttemptPending
  <2>2. QED
    BY <2>1 DEF QueueInv, RowsConsistent, RowChecks, NoRow, Failing, RetryableTerminal
<1>3. /\ row \in RunRow /\ RowChecks(row) /\ row.status = "PROVISIONING"
      /\ row.attemptCount = m /\ row.version = run[r].version + 1
  BY <1>1, <1>2, SettledRow, RowNumbers
<1>4. \A q \in Runs : run'[q] = IF q = r THEN row ELSE run[q]
  BY <1>2, Zenon DEF QueueInv, TypeOK, Schedule
<1>5. \A f \in Engines : jobs'[f] \subseteq jobs[f]
  BY DEF QueueInv, TypeOK, Schedule, Finish
<1>6. attempt[r][m] \in AttemptRow /\ attempt[r][m].status = "PENDING"
  BY <1>1, <1>2 DEF QueueInv, TypeOK, AttemptPending
<1>7. /\ started \in AttemptRow /\ started.status = "STARTING" /\ started.assigned = TRUE
      /\ started.version = attempt[r][m].version + 1
  <2>1. attempt[r][m].version + 1 \in Versions /\ "STARTING" \in AttemptStatuses
    BY <1>6, RowNumbers DEF AttemptRow, AttemptStatuses
  <2>2. QED
    BY <1>6, <2>1, Zenon DEF AttemptRow, Started
<1>8. \A q \in Runs, n \in Numbers :
        attempt'[q][n] = IF q = r /\ n = m THEN started ELSE attempt[q][n]
  BY <1>2 DEF QueueInv, TypeOK, Schedule
<1>9. assignments[r][m] = 0
  BY <1>2, <1>6 DEF QueueInv, AttemptAssignedOnce
<1>10. \A q \in Runs, n \in Numbers :
         assignments'[q][n] = IF q = r /\ n = m THEN 1 ELSE assignments[q][n]
  BY <1>2, <1>9 DEF QueueInv, TypeOK, Schedule
<1>11. TypeOK'
  <2>1. run' \in [Runs -> RunRow]
    BY <1>3, Zenon DEF QueueInv, TypeOK, Schedule
  <2>2. jobs' \in [Engines -> SUBSET Job]
    BY DEF QueueInv, TypeOK, Schedule, Finish
  <2>3. attempt' \in [Runs -> [Numbers -> AttemptRow]]
    BY <1>7, Zenon DEF QueueInv, TypeOK, Schedule
  <2>4. assignments' \in [Runs -> [Numbers -> Nat]]
    BY <1>2, <1>9 DEF QueueInv, TypeOK, Schedule
  <2> HIDE DEF row, started
  <2>5. EventOf(r, "Scheduled") \in Event
    BY <1>2, <1>3, <1>4 DEF EventOf, Event, EventTypes, RunRow, RowChecks
  <2>6. QED
    BY <2>1, <2>2, <2>3, <2>4, <2>5 DEF QueueInv, TypeOK, Schedule
<1> HIDE DEF row, started
<1>12. AttemptsMoveForward
  <2>1. attempt[r][m].version \in Nat
    BY <1>6 DEF AttemptRow, Versions
  <2>2. QED
    BY <1>2, <1>7, <1>8, <2>1 DEF AttemptsMoveForward
<1>13. RunsMoveForward /\ RowsConsistent' /\ DraftsFenced' /\ OneEventPerVersion'
  BY <1>2, <1>3, <1>4, <1>11, <1>12, RowWritten DEF Schedule, NoRow
<1>14. ClaimsFenced'
  BY <1>5, <1>11, <1>13, ClaimsStayFenced DEF QueueInv
<1>15. AttemptAssignedOnce'
  BY <1>2, <1>7, <1>8, <1>10 DEF QueueInv, AttemptAssignedOnce, NoRow
<1>16. WorkloadMatchesStatus'
  <2>1. \A q \in Runs : run[q].status \in Executing \cup Waiting => run[q].attemptCount \in Numbers
    BY DEF QueueInv, RowsConsistent, RowChecks, NoRow, Executing, Waiting
  <2>2. "PROVISIONING" \notin Waiting
    BY DEF Waiting
  <2>3. QED
    BY <1>2, <1>3, <1>4, <1>10, <2>1, <2>2 DEF QueueInv, WorkloadMatchesStatus
<1>17. AttemptsContiguous'
  <2>1. attempt[r][m].version \in Nat
    BY <1>6 DEF AttemptRow, Versions
  <2>2. m <= run[r].attemptCount
    BY <1>2 DEF Numbers
  <2>3. QED
    BY <1>2, <1>3, <1>4, <1>7, <1>8, <2>1, <2>2 DEF QueueInv, AttemptsContiguous, NoRow
<1>18. QED
  BY <1>11, <1>13, <1>14, <1>15, <1>16, <1>17 DEF QueueInv

\* Reject keeps the invariant.
LEMMA RejectStep ==
  ASSUME QueueInv, NEW e \in Engines, NEW j \in jobs[e], Reject(e, j)
  PROVE  QueueInv'
<1> DEFINE r == j.run
           m == j.attempt
           row == Settled(run[r], "POLICY_REJECTED", "POLICY", 0)
           ended == Stopped(attempt[r][m])
<1>1. Holds(e, j, j.at) /\ AttemptPending(j)
  BY DEF Reject
<1>2. /\ r \in Runs /\ run[r] \in RunRow /\ run[r].status = "SCHEDULING"
      /\ m \in Numbers /\ run[r].attemptCount = m
  BY <1>1 DEF QueueInv, TypeOK, Job, Holds, AttemptPending
<1>3. /\ row \in RunRow /\ RowChecks(row) /\ row.status = "POLICY_REJECTED"
      /\ row.attemptCount = m /\ row.version = run[r].version + 1
  <2>1. "POLICY" \in FailureCategories /\ "POLICY" # NoFailure
    BY DEF FailureCategories, NoFailure
  <2>2. QED
    BY <1>1, <1>2, <2>1, SettledRow, RowNumbers
<1>4. \A q \in Runs : run'[q] = IF q = r THEN row ELSE run[q]
  BY <1>2, Zenon DEF QueueInv, TypeOK, Reject
<1>5. \A f \in Engines : jobs'[f] \subseteq jobs[f]
  BY DEF QueueInv, TypeOK, Reject, Finish
<1>6. attempt[r][m] \in AttemptRow /\ attempt[r][m].status = "PENDING"
  BY <1>1, <1>2, Zenon DEF QueueInv, TypeOK, AttemptPending
<1>7. /\ ended \in AttemptRow /\ ended.status = "CANCELLED"
      /\ ended.assigned = attempt[r][m].assigned
      /\ ended.version = attempt[r][m].version + 1
  <2>1. attempt[r][m].version + 1 \in Versions /\ "CANCELLED" \in AttemptStatuses
    BY <1>6, RowNumbers DEF AttemptRow, AttemptStatuses
  <2>2. QED
    BY <1>6, <2>1, Zenon DEF AttemptRow, Stopped
<1>8. \A q \in Runs, n \in Numbers :
        attempt'[q][n] = IF q = r /\ n = m THEN ended ELSE attempt[q][n]
  BY <1>2 DEF QueueInv, TypeOK, Reject
<1>9. TypeOK'
  <2>1. run' \in [Runs -> RunRow]
    BY <1>3, Zenon DEF QueueInv, TypeOK, Reject
  <2>2. jobs' \in [Engines -> SUBSET Job]
    BY DEF QueueInv, TypeOK, Reject, Finish
  <2>3. attempt' \in [Runs -> [Numbers -> AttemptRow]]
    BY <1>7, Zenon DEF QueueInv, TypeOK, Reject
  <2> HIDE DEF row, ended
  <2>4. EventOf(r, "Failed") \in Event
    BY <1>2, <1>3, <1>4 DEF EventOf, Event, EventTypes, RunRow, RowChecks
  <2>5. QED
    BY <2>1, <2>2, <2>3, <2>4 DEF QueueInv, TypeOK, Reject
<1> HIDE DEF row, ended
<1>10. AttemptsMoveForward
  <2>1. attempt[r][m].version \in Nat
    BY <1>6 DEF AttemptRow, Versions
  <2>2. QED
    BY <1>2, <1>7, <1>8, <2>1 DEF AttemptsMoveForward
<1>11. RunsMoveForward /\ RowsConsistent' /\ DraftsFenced' /\ OneEventPerVersion'
  BY <1>2, <1>3, <1>4, <1>9, <1>10, RowWritten DEF Reject, NoRow
<1>12. ClaimsFenced'
  BY <1>5, <1>9, <1>11, ClaimsStayFenced DEF QueueInv
<1>13. AttemptAssignedOnce'
  BY <1>2, <1>6, <1>7, <1>8 DEF QueueInv, AttemptAssignedOnce, Reject, NoRow
<1>14. WorkloadMatchesStatus'
  BY <1>2, <1>3, <1>4 DEF QueueInv, WorkloadMatchesStatus, Reject, Executing, Waiting
<1>15. AttemptsContiguous'
  <2>1. attempt[r][m].version \in Nat
    BY <1>6 DEF AttemptRow, Versions
  <2>2. m <= run[r].attemptCount
    BY <1>2 DEF Numbers
  <2>3. QED
    BY <1>2, <1>3, <1>4, <1>7, <1>8, <2>1, <2>2 DEF QueueInv, AttemptsContiguous, NoRow
<1>16. QED
  BY <1>9, <1>11, <1>12, <1>13, <1>14, <1>15 DEF QueueInv
-----------------------------------------------------------------------------
(* Workflow writers. *)

\* A draft that passes the version condition is the row.
LEMMA DraftIsRow ==
  ASSUME QueueInv, NEW d \in drafts, d.number = 0, Unmodified(d)
  PROVE  /\ d \in Draft /\ d.run \in Runs /\ run[d.run] \in RunRow
         /\ run[d.run].status # NoRow /\ RowChecks(run[d.run])
         /\ d.status = run[d.run].status /\ d.failure = run[d.run].failure
         /\ d.attemptCount = run[d.run].attemptCount
         /\ d.cancelRequested = run[d.run].cancelRequested
<1>1. d \in Draft /\ d.run \in Runs /\ run[d.run] \in RunRow
  BY DEF QueueInv, TypeOK, Draft
<1>2. run[d.run].version >= 1
  BY <1>1 DEF QueueInv, DraftsFenced, Unmodified, RunRow, Versions
<1>3. run[d.run].status # NoRow
  BY <1>1, <1>2 DEF QueueInv, RowsConsistent, AbsentRun
<1>4. QED
  BY <1>1, <1>3 DEF QueueInv, RowsConsistent, DraftsFenced, Unmodified

\* Save keeps the invariant.
LEMMA SaveStep ==
  ASSUME QueueInv, NEW d \in drafts, NEW target \in RunTargets, Save(d, target)
  PROVE  QueueInv'
<1> USE RunQueueAssumption
<1> DEFINE r == d.run
           Row(failure) == [run[r] EXCEPT !.status = target, !.failure = failure,
                                          !.attemptCount = d.attemptCount,
                                          !.cancelRequested = d.cancelRequested,
                                          !.version = @ + 1]
<1>1. PICK failure \in FailureFor(target) :
        RowChecks(Row(failure)) /\ run' = [run EXCEPT ![r] = Row(failure)]
  BY Zenon DEF Save
<1> DEFINE row == Row(failure)
<1>2. /\ d \in Draft /\ r \in Runs /\ run[r] \in RunRow
      /\ run[r].status # NoRow /\ RowChecks(run[r]) /\ d.status = run[r].status
      /\ d.attemptCount = run[r].attemptCount /\ d.cancelRequested = run[r].cancelRequested
  BY DraftIsRow DEF Save
<1>3. target \in Statuses /\ failure \in FailureCategories \cup {NoFailure}
  BY DEF FailureFor
<1>4. /\ row \in RunRow
      /\ row.status = target /\ row.attemptCount = run[r].attemptCount
      /\ row.version = run[r].version + 1 /\ row.owner = run[r].owner
  <2>1. d.attemptCount \in 0..MaxAttempts /\ d.cancelRequested \in BOOLEAN
    BY <1>2 DEF RunRow
  <2>2. row \in RunRow
    BY <1>2, <1>3, <2>1, RowNumbers, Zenon DEF RunRow
  <2>3. QED
    BY <1>2, <2>2 DEF RunRow
<1>5. RowChecks(row) /\ row.status # NoRow
  BY <1>1, <1>3, <1>4, StatusFacts
<1>6. \A q \in Runs : run'[q] = IF q = r THEN row ELSE run[q]
  BY <1>1, <1>2 DEF QueueInv, TypeOK
<1>7. TypeOK'
  <2>1. run' \in [Runs -> RunRow]
    BY <1>1, <1>4, Zenon DEF QueueInv, TypeOK
  <2>2. QED
    BY <2>1 DEF QueueInv, TypeOK, Save
<1> HIDE DEF row
<1>8. AttemptsMoveForward
  BY DEF AttemptsMoveForward, Save
<1>9. RunsMoveForward /\ RowsConsistent' /\ DraftsFenced' /\ OneEventPerVersion'
  BY <1>2, <1>4, <1>5, <1>6, <1>7, <1>8, RowWritten DEF Save
<1>10. ClaimsFenced'
  BY <1>7, <1>9, ClaimsStayFenced DEF QueueInv, Save
<1>11. AttemptAssignedOnce'
  BY DEF QueueInv, AttemptAssignedOnce, Save
<1>12. target \notin Waiting /\ (target \in Executing => run[r].status \in Executing)
  <2>1. run[r].status = "SCHEDULING" <=> target = "SCHEDULING"
    BY <1>2, <1>4, <1>5 DEF RowChecks
  <2>2. target # run[r].status /\ target # "QUEUED"
    BY <1>2 DEF Save
  <2>3. target = "CANCELLING" \/ target \in Successors(run[r].status)
    BY <1>2, <2>2 DEF Save, CanTransition
  <2>4. QED
    BY <1>2, <2>1, <2>2, <2>3
       DEF RunRow, Successors, Statuses, Waiting, Executing, Failing, RetryableTerminal
<1>13. UNCHANGED <<attempt, assignments>>
  BY DEF Save
<1>14. WorkloadMatchesStatus' /\ AttemptsContiguous'
  BY <1>4, <1>6, <1>12, <1>13 DEF QueueInv, WorkloadMatchesStatus, AttemptsContiguous
<1>15. QED
  BY <1>7, <1>9, <1>10, <1>11, <1>14 DEF QueueInv

\* CreateNextAttempt keeps the invariant.
LEMMA CreateNextAttemptStep ==
  ASSUME QueueInv, NEW d \in drafts, CreateNextAttempt(d)
  PROVE  QueueInv'
<1> USE RunQueueAssumption
<1> DEFINE r == d.run
           m == d.attemptCount + 1
           row == [run[r] EXCEPT !.status = "QUEUED", !.failure = NoFailure,
                                 !.attemptCount = m, !.cancelRequested = d.cancelRequested,
                                 !.version = @ + 1]
<1>1. /\ d \in Draft /\ r \in Runs /\ run[r] \in RunRow
      /\ run[r].status # NoRow /\ RowChecks(run[r]) /\ d.status = run[r].status
      /\ d.attemptCount = run[r].attemptCount /\ d.cancelRequested = run[r].cancelRequested
      /\ d.failure = run[r].failure
  BY DraftIsRow DEF CreateNextAttempt
<1>2. run[r].attemptCount < MaxAttempts
  <2>1. CanTransition(run[r].status, run[r].failure, run[r].attemptCount, MaxAttempts, "QUEUED")
        /\ run[r].status # "QUEUED"
    BY <1>1 DEF CreateNextAttempt
  <2>2. "QUEUED" \notin Successors(run[r].status)
    BY DEF Successors
  <2>3. QED
    BY <2>1, <2>2 DEF CanTransition, CanRetry
<1>3. m \in Numbers /\ m \in 0..MaxAttempts /\ m = run[r].attemptCount + 1
  BY <1>1, <1>2 DEF RunRow, Numbers
<1>4. /\ row \in RunRow
      /\ row.status = "QUEUED" /\ row.attemptCount = m /\ row.version = run[r].version + 1
  <2>1. "QUEUED" \in Statuses /\ d.cancelRequested \in BOOLEAN
    BY <1>1 DEF Statuses, Waiting, RunRow
  <2> HIDE DEF m
  <2>2. row \in RunRow
    BY <1>1, <1>3, <2>1, RowNumbers, Zenon DEF RunRow
  <2>3. QED
    BY <1>1, <2>2 DEF RunRow
<1>5. RowChecks(row) /\ row.status # NoRow
  BY <1>4 DEF CreateNextAttempt, NoRow
<1>6. \A q \in Runs : run'[q] = IF q = r THEN row ELSE run[q]
  BY <1>1 DEF QueueInv, TypeOK, CreateNextAttempt
<1>7. run' \in [Runs -> RunRow]
  BY <1>4, Zenon DEF QueueInv, TypeOK, CreateNextAttempt
<1> HIDE DEF row
<1>8. \A q \in Runs, n \in Numbers :
        attempt'[q][n] = IF q = r /\ n = m THEN PendingAttempt ELSE attempt[q][n]
  BY <1>1, <1>3, <1>4, <1>6 DEF QueueInv, TypeOK, CreateNextAttempt, InsertAttempt
<1>9. attempt[r][m] = AbsentAttempt
  BY <1>1, <1>2, <1>3 DEF QueueInv, AttemptsContiguous, RunRow
<1>10. TypeOK'
  <2>1. attempt' \in [Runs -> [Numbers -> AttemptRow]]
    <3>1. PendingAttempt \in AttemptRow
      BY RowNumbers DEF PendingAttempt, AttemptRow, AttemptStatuses
    <3>2. QED
      BY <3>1, Zenon DEF QueueInv, TypeOK, CreateNextAttempt, InsertAttempt
  <2>2. QED
    BY <1>7, <2>1 DEF QueueInv, TypeOK, CreateNextAttempt
<1>11. AttemptsMoveForward
  BY <1>8, <1>9 DEF AttemptsMoveForward, AbsentAttempt, PendingAttempt
<1>12. RunsMoveForward /\ RowsConsistent' /\ DraftsFenced' /\ OneEventPerVersion'
  BY <1>1, <1>4, <1>5, <1>6, <1>10, <1>11, RowWritten DEF CreateNextAttempt
<1>13. ClaimsFenced'
  BY <1>10, <1>12, ClaimsStayFenced DEF QueueInv, CreateNextAttempt
<1>14. AttemptAssignedOnce'
  BY <1>8, <1>9
     DEF QueueInv, AttemptAssignedOnce, CreateNextAttempt, PendingAttempt, AbsentAttempt
<1>15. WorkloadMatchesStatus'
  BY <1>1, <1>3, <1>4, <1>6, <1>9
     DEF QueueInv, WorkloadMatchesStatus, AttemptAssignedOnce, CreateNextAttempt,
         AbsentAttempt, Executing
<1>16. AttemptsContiguous'
  BY <1>1, <1>3, <1>4, <1>6, <1>8
     DEF QueueInv, AttemptsContiguous, PendingAttempt, NoRow, Numbers, RunRow
<1>17. QED
  BY <1>10, <1>12, <1>13, <1>14, <1>15, <1>16 DEF QueueInv

\* SaveAttempt keeps the invariant.
LEMMA SaveAttemptStep ==
  ASSUME QueueInv, NEW d \in drafts, NEW target \in AttemptTargets, SaveAttempt(d, target)
  PROVE  QueueInv'
<1> USE RunQueueAssumption
<1> DEFINE r == d.run
           m == d.number
           row == [status |-> target, version |-> d.version + 1, assigned |-> d.assigned]
<1>1. d \in Draft /\ r \in Runs /\ m \in Numbers
  BY DEF QueueInv, TypeOK, Draft, SaveAttempt, Numbers
<1>2. attempt[r][m] \in AttemptRow /\ attempt[r][m].version = d.version /\ d.version >= 1
  <2>1. attempt[r][m] \in AttemptRow
    BY <1>1 DEF QueueInv, TypeOK
  <2>2. attempt[r][m].version = d.version /\ m # 0
    BY <1>1 DEF SaveAttempt, Numbers
  <2>3. attempt[r][m].version \in Nat
    BY <2>1 DEF AttemptRow, Versions
  <2>4. d.version \in 1..attempt[r][m].version
    BY <2>2 DEF QueueInv, DraftsFenced
  <2>5. QED
    BY <2>1, <2>2, <2>3, <2>4
<1>3. attempt[r][m].assigned = d.assigned
  BY <1>1, <1>2 DEF QueueInv, DraftsFenced, SaveAttempt
<1>4. m <= run[r].attemptCount
  BY <1>1, <1>2 DEF QueueInv, AttemptsContiguous, AbsentAttempt
<1>5. target \in AttemptStatuses /\ target # "PENDING" /\ target # NoRow
  BY StatusFacts
<1>6. row \in AttemptRow
  BY <1>1, <1>5, RowNumbers DEF AttemptRow, Draft
<1>7. \A q \in Runs, n \in Numbers :
        attempt'[q][n] = IF q = r /\ n = m THEN row ELSE attempt[q][n]
  BY <1>1 DEF QueueInv, TypeOK, SaveAttempt
<1>8. TypeOK'
  <2>1. attempt' \in [Runs -> [Numbers -> AttemptRow]]
    BY <1>6, Zenon DEF QueueInv, TypeOK, SaveAttempt
  <2>2. QED
    BY <2>1 DEF QueueInv, TypeOK, SaveAttempt
<1>9. row.version > attempt[r][m].version
  BY <1>1, <1>2 DEF Draft, Versions
<1>10. RunsMoveForward /\ AttemptsMoveForward
  BY <1>7, <1>9 DEF RunsMoveForward, AttemptsMoveForward, SaveAttempt
<1>11. ClaimsFenced' /\ DraftsFenced'
  BY <1>8, <1>10, ClaimsStayFenced, DraftsStayFenced DEF QueueInv, SaveAttempt
<1>12. RowsConsistent' /\ OneEventPerVersion' /\ WorkloadMatchesStatus'
  BY DEF QueueInv, RowsConsistent, OneEventPerVersion, WorkloadMatchesStatus, SaveAttempt
<1>13. AttemptAssignedOnce'
  BY <1>3, <1>5, <1>7 DEF QueueInv, AttemptAssignedOnce, SaveAttempt
<1>14. AttemptsContiguous'
  <2>1. row.version > 0 /\ row.status # NoRow
    BY <1>1, <1>2, <1>5 DEF Draft, Versions
  <2> HIDE DEF row
  <2>2. QED
    BY <1>4, <1>7, <2>1 DEF QueueInv, AttemptsContiguous, SaveAttempt
<1>15. QED
  BY <1>8, <1>11, <1>12, <1>13, <1>14 DEF QueueInv
-----------------------------------------------------------------------------
(* The theorems. *)

\* The invariant holds at first.
LEMMA InitQueueInv == Init => QueueInv
<1> SUFFICES ASSUME Init PROVE QueueInv
  OBVIOUS
<1> USE RunQueueAssumption
<1>1. AbsentRun \in RunRow /\ AbsentRun.status = NoRow /\ AbsentRun.attemptCount = 0
  BY RowNumbers DEF AbsentRun, RunRow
<1>2. AbsentAttempt \in AttemptRow /\ AbsentAttempt.status = NoRow
      /\ AbsentAttempt.assigned = FALSE
  BY RowNumbers DEF AbsentAttempt, AttemptRow
<1>3. TypeOK
  BY <1>1, <1>2 DEF Init, TypeOK
<1>4. RowsConsistent /\ ClaimsFenced /\ DraftsFenced /\ OneEventPerVersion
  BY <1>1 DEF Init, RowsConsistent, ClaimsFenced, DraftsFenced, OneEventPerVersion
<1>5. AttemptAssignedOnce
  BY <1>2 DEF Init, AttemptAssignedOnce
<1>6. WorkloadMatchesStatus
  BY <1>1 DEF Init, WorkloadMatchesStatus, NoRow, Executing, Waiting
<1>7. AttemptsContiguous
  BY <1>1 DEF Init, AttemptsContiguous, Numbers
<1>8. QED
  BY <1>3, <1>4, <1>5, <1>6, <1>7 DEF QueueInv

\* Every step keeps the invariant.
LEMMA NextQueueInv == QueueInv /\ [Next]_vars => QueueInv'
<1> SUFFICES ASSUME QueueInv, [Next]_vars PROVE QueueInv'
  OBVIOUS
<1>1. CASE Api
  BY <1>1, CreateStep, CancelStep, RetryStep DEF Api
<1>2. CASE Engine
  BY <1>2, ClaimStep, CrashStep, EvaluateStep, RenewStep, ScheduleStep, DeferCapacityStep,
     RejectStep, AbandonStep DEF Engine
<1>3. CASE Writer
  BY <1>3, LoadRunStep, LoadAttemptStep, SaveStep, CreateNextAttemptStep, SaveAttemptStep,
     DiscardStep DEF Writer
<1>4. CASE Tick
  BY <1>4, TickStep
<1>5. CASE UNCHANGED vars
  <2>1. TypeOK' /\ RowsConsistent'
    BY <1>5 DEF vars, QueueInv, TypeOK, RowsConsistent
  <2>2. ClaimsFenced'
    BY <1>5 DEF vars, QueueInv, ClaimsFenced
  <2>3. DraftsFenced'
    BY <1>5 DEF vars, QueueInv, DraftsFenced
  <2>4. AttemptAssignedOnce' /\ WorkloadMatchesStatus'
    BY <1>5 DEF vars, QueueInv, AttemptAssignedOnce, WorkloadMatchesStatus
  <2>5. AttemptsContiguous' /\ OneEventPerVersion'
    BY <1>5 DEF vars, QueueInv, AttemptsContiguous, OneEventPerVersion
  <2>6. QED
    BY <2>1, <2>2, <2>3, <2>4, <2>5 DEF QueueInv
<1>6. QED
  BY <1>1, <1>2, <1>3, <1>4, <1>5 DEF Next

\* QueueInv is an inductive invariant of the run queue.
THEOREM QueueInvariant == Spec => []QueueInv
BY InitQueueInv, NextQueueInv, PTL DEF Spec

\* The rows, claims and drafts have their types: attempt_count never passes
\* max_attempts, whoever retries.
THEOREM TypeCorrect == Spec => []TypeOK
BY QueueInvariant, PTL DEF QueueInv

\* No transaction leaves a row of agent_runs that its constraints would refuse.
THEOREM RowsStayConsistent == Spec => []RowsConsistent
BY QueueInvariant, PTL DEF QueueInv

\* For any number of engines, whatever their clocks show and however late their
\* requests arrive, at most one claim on a run can still pass the version check
\* of Renew, Schedule, DeferCapacity and Reject, and its engine owns the lease.
THEOREM ClaimsAreFenced == Spec => []ClaimsFenced
BY QueueInvariant, PTL DEF QueueInv

\* A writer that passes the version check of updateRun or SaveAttempt has seen
\* the row it overwrites.
THEOREM DraftsAreFenced == Spec => []DraftsFenced
BY QueueInvariant, PTL DEF QueueInv

\* An attempt is handed off at most once.
THEOREM AttemptsAssignedOnce == Spec => []AttemptAssignedOnce
BY QueueInvariant, PTL DEF QueueInv

\* An executing run has its current attempt handed off and a waiting one has not.
THEOREM WorkloadsMatchStatus == Spec => []WorkloadMatchesStatus
BY QueueInvariant, PTL DEF QueueInv

\* Attempts are numbered from 1 to attempt_count without gaps.
THEOREM AttemptsAreContiguous == Spec => []AttemptsContiguous
BY QueueInvariant, PTL DEF QueueInv

\* A run never has two events at one version.
THEOREM EventsAreUnique == Spec => []OneEventPerVersion
BY QueueInvariant, PTL DEF QueueInv
=============================================================================
