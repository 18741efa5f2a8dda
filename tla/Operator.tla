------------------------------ MODULE Operator ------------------------------
(***************************************************************************)
(* The Kubernetes operator: one AgentRun object, the Jobs and retained     *)
(* workspaces of its attempts, and the reconciler that drives them.  The   *)
(* work queue never runs two reconciliations of one key at a time, so one  *)
(* pass `me` is enough; it reads informer caches that may lag behind the   *)
(* API server, and writes the AgentRun under an optimistic lock.           *)
(***************************************************************************)
EXTENDS Integers, FiniteSets, FiniteSetsExt

CONSTANTS
    MaxAttempts,    \* spec.retryPolicy.maxAttempts; spec.attempt is 1
    Retryable,      \* spec.retryPolicy.retryableFailureCategories
    Retain,         \* spec.workspace.retentionPolicy = Retain
    Validity,       \* the verdicts validateAgentRun may give on the spec
    Requests,       \* what the callers may ask: "cancel", "delete"
    Lagging,        \* the child informers that may be behind: "jobs", "pvcs"
    FaultKinds,     \* classes of API errors: "transient", "permanent"
    MaxFaults       \* bound on API errors, restarts and deletions by others

ASSUME OperatorConstants ==
    /\ MaxAttempts \in Nat \ {0}
    /\ Retain \in BOOLEAN
    /\ Validity \subseteq BOOLEAN
    /\ Requests \subseteq {"cancel", "delete"}
    /\ Lagging \subseteq {"jobs", "pvcs"}
    /\ FaultKinds \subseteq {"transient", "permanent"}
    /\ MaxFaults \in Nat

VARIABLES
    obj,        \* the AgentRun in the API server
    cache,      \* the AgentRun in the operator's informer
    fresh,      \* the informer holds the latest resourceVersion
    jobs,       \* the Job of each attempt
    jobCache,   \* the Jobs in the informer (used when it may lag)
    pvcs,       \* the retained workspace of each attempt
    pvcCache,   \* the workspaces in the informer (used when it may lag)
    me,         \* the reconciliation in progress
    queued,     \* the key is in the work queue
    overdue,    \* deadlines that have passed
    ready,      \* external prerequisites that exist
    evidence,   \* attempts whose Job completed with valid result evidence
    faults      \* API errors, restarts and foreign deletions so far

vars == <<obj, cache, fresh, jobs, jobCache, pvcs, pvcCache, me, queued,
          overdue, ready, evidence, faults>>
kube == <<obj, fresh, jobs, pvcs>>
outside == <<cache, jobCache, pvcCache, overdue, ready, evidence>>

Attempts == 1..MaxAttempts
NoFailure == ""
NoEntry == [phase |-> "", failure |-> NoFailure]

\* AgentRunStatus: job is 0 or the attempt whose Job status.jobName names;
\* completed: completionTime is set; cancelling and backoff: the conditions
\* CancellationComplete=False and RetryReady=False; cleanup: CleanupPending.
NewStatus == [phase |-> "", attempt |-> 0, job |-> 0, failure |-> NoFailure,
              completed |-> FALSE, cancelling |-> FALSE, backoff |-> FALSE,
              observed |-> 0, cleanup |-> "",
              history |-> [a \in Attempts |-> NoEntry]]

\* What a Job is doing.  The Pod of an unpullable or rejected Job waits; a
\* terminating Job has a deletion timestamp and its Pod may still run, a
\* killed one has lost its Pods, a deleted one is gone.
NoJob == {"absent", "deleted"}
Ending == {"terminating", "killed"}
Live == {"pending", "unpullable", "rejected", "running", "terminating"}
Finished == {"complete", "unproven", "failed", "evicted"}
JobStates == NoJob \union Ending \union Live \union Finished

Idle == [pc |-> "idle"]

Init ==
    /\ \E valid \in Validity :
        obj = [exists |-> TRUE, desired |-> "Running", deleting |-> FALSE,
               finalizer |-> FALSE, generation |-> 1, valid |-> valid,
               status |-> NewStatus]
    /\ cache = [obj EXCEPT !.exists = FALSE]
    /\ fresh = FALSE
    /\ jobs = [a \in Attempts |-> "absent"]
    /\ jobCache = jobs
    /\ pvcs = [a \in Attempts |-> "absent"]
    /\ pvcCache = pvcs
    /\ me = Idle
    /\ queued = FALSE
    /\ overdue = {}
    /\ ready = {}
    /\ evidence = {}
    /\ faults = 0

-----------------------------------------------------------------------------
(* The pure parts of the reconciler: functions of an AgentRun status. *)

ReadJob(a) == IF "jobs" \in Lagging THEN jobCache[a] ELSE jobs[a]
ReadPvc(a) == IF "pvcs" \in Lagging THEN pvcCache[a] ELSE pvcs[a]

CurrentAttempt(s) == Max({s.attempt, 1})

AttemptTerminal(s) ==
    /\ s.attempt = CurrentAttempt(s)
    /\ s.phase \in {"Succeeded", "Failed", "Cancelled"}

Upsert(s) ==
    [s EXCEPT !.history[CurrentAttempt(s)] =
        [phase |-> s.phase, failure |-> s.failure]]

Observation(phase, failure, completed) ==
    [phase |-> phase, failure |-> failure, completed |-> completed]

Waiting == Observation("Provisioning", NoFailure, FALSE)

\* An implementation that takes completion of the Job for success.
TrustExitCode(state) ==
    CASE state \in {"complete", "unproven"} ->
            {Observation("Succeeded", NoFailure, TRUE), Waiting}
      [] OTHER -> {Waiting}

\* observeLifecycle: the Pod list may or may not contain the Job's Pod yet.
Observe(state) ==
    CASE state = "pending" -> {Waiting}
      [] state = "unpullable" ->
            {Observation("Failed", "TRANSIENT_DEPENDENCY", FALSE), Waiting}
      [] state = "rejected" -> {Observation("Failed", "POLICY", FALSE), Waiting}
      [] state \in {"running"} \union Ending ->
            {Observation("Running", NoFailure, FALSE), Waiting}
      [] state = "complete" ->
            {Observation("Succeeded", NoFailure, TRUE), Waiting}
      [] state = "unproven" ->
            {Observation("Failed", "EXECUTION", TRUE), Waiting}
      [] state = "failed" -> {Observation("Failed", "EXECUTION", TRUE)}
      [] state = "evicted" ->
            {Observation("Failed", "TRANSIENT_DEPENDENCY", TRUE),
             Observation("Failed", "EXECUTION", TRUE)}

\* A projection that does not record the attempt in the history.
ProjectedOnly(s, o) ==
    [s EXCEPT !.phase = o.phase, !.failure = o.failure, !.completed = o.completed]

ProjectLifecycle(s, o) == Upsert(ProjectedOnly(s, o))

RetryAllowed(s) ==
    /\ s.phase = "Failed"
    /\ s.attempt = CurrentAttempt(s)
    /\ s.attempt < MaxAttempts
    /\ s.failure \in {"TRANSIENT_DEPENDENCY", "INTERNAL"} \intersect Retryable

ReconcileRetry(s, generation) ==
    IF "backoff" \in overdue /\ (s.completed \/ s.backoff)
    THEN Upsert([s EXCEPT !.attempt = @ + 1, !.phase = "Pending", !.job = 0,
                          !.completed = FALSE, !.failure = NoFailure,
                          !.observed = generation, !.backoff = FALSE])
    ELSE [s EXCEPT !.backoff = TRUE]

\* initializeCancellationStatus; initializeAcceptedStatus also clears the
\* failure of the previous pass.
Initialized(run) ==
    [run.status EXCEPT !.phase = IF @ = "" THEN "Pending" ELSE @,
                       !.attempt = CurrentAttempt(run.status),
                       !.observed = run.generation]

Accepted(run) == [Initialized(run) EXCEPT !.failure = NoFailure]

\* validateAgentRun: the spec is immutable, so its verdict is a field of the run.
ValidateAgentRun(run) == run.valid

Invalid(run) ==
    [run.status EXCEPT !.phase = "Failed", !.observed = run.generation,
                       !.attempt = 1, !.failure = "VALIDATION"]

Deleting(run) ==
    [run.status EXCEPT !.observed = run.generation,
                       !.cleanup = IF @ = "" THEN "pending" ELSE @]

Refreshed(run) == [run.status EXCEPT !.observed = run.generation]

Cancelled(s) == Upsert([s EXCEPT !.phase = "Cancelled", !.completed = TRUE,
                                 !.cancelling = FALSE])

Cancelling(s) == Upsert([s EXCEPT !.phase = "Cancelling", !.cancelling = TRUE])

-----------------------------------------------------------------------------
(* Writes to the AgentRun and the ends of a pass. *)

Write(o) == obj' = o /\ fresh' = (fresh /\ o = obj)
NoWrite == UNCHANGED <<obj, fresh>>

End(requeue) == me' = Idle /\ queued' = (queued \/ requeue)
Goto(pass) == me' = pass /\ UNCHANGED queued

With(pc, s, requeue) ==
    [me EXCEPT !.pc = pc, !.run.status = s, !.requeue = requeue]

Into(pass, pc, s, requeue) ==
    [pass EXCEPT !.pc = pc, !.run.status = s, !.requeue = requeue]

\* A terminal attempt is left alone; any other is cancelled or provided for.
Continue(pass) ==
    LET run == pass.run
    IN IF AttemptTerminal(run.status) THEN Into(pass, "patch", Refreshed(run), FALSE)
       ELSE IF run.desired = "Cancelled" THEN Into(pass, "cancel", Initialized(run), FALSE)
       ELSE Into(pass, "prepare", Accepted(run), FALSE)

\* A reconciler that starts a new attempt before its number is saved.
DispatchUnsaved(pass) ==
    LET s == ReconcileRetry(pass.run.status, pass.run.generation)
    IN IF AttemptTerminal(pass.run.status) /\ RetryAllowed(pass.run.status)
       THEN Into(pass, IF s.phase = "Pending" THEN "prepare" ELSE "patch", s, TRUE)
       ELSE Continue(pass)

\* Reconcile once the finalizer is in place.
Dispatch(pass) ==
    LET run == pass.run
    IN IF /\ AttemptTerminal(run.status)
          /\ run.desired = "Running"
          /\ RetryAllowed(run.status)
       THEN Into(pass, "patch", ReconcileRetry(run.status, run.generation), TRUE)
       ELSE Continue(pass)

-----------------------------------------------------------------------------
(* Reconcile *)

Loaded == [pc |-> "patch", run |-> cache, before |-> cache.status,
           fresh |-> fresh, requeue |-> FALSE, at |-> 1]

Nothing(run) == ~run.exists \/ (run.deleting /\ ~run.finalizer)

FetchNothing ==
    /\ me = Idle
    /\ queued
    /\ Nothing(cache)
    /\ queued' = FALSE
    /\ UNCHANGED <<kube, outside, me, faults>>

Fetch ==
    /\ me = Idle
    /\ queued
    /\ ~Nothing(cache)
    /\ queued' = FALSE
    /\ me' =
        CASE cache.deleting ->
                [Loaded EXCEPT !.pc = "cleanup", !.run.status = Deleting(cache)]
          [] ~cache.deleting /\ ~ValidateAgentRun(cache) ->
                [Loaded EXCEPT !.run.status = Invalid(cache)]
          [] ~cache.deleting /\ ValidateAgentRun(cache) /\ Retain /\ ~cache.finalizer ->
                [Loaded EXCEPT !.pc = "finalizer"]
          [] OTHER -> Dispatch(Loaded)
    /\ UNCHANGED <<kube, outside, faults>>

AddFinalizer ==
    /\ me.pc = "finalizer"
    /\ \/ /\ me.fresh
          /\ Write([obj EXCEPT !.finalizer = TRUE])
          /\ Goto(Dispatch([me EXCEPT !.run.finalizer = TRUE]))
       \/ ~me.fresh /\ NoWrite /\ End(TRUE)
    /\ UNCHANGED <<jobs, pvcs, outside, faults>>

\* recordPrerequisiteFailure for an API error of the given class.
PrerequisiteFailed(kind) ==
    LET s == me.run.status
    IN IF kind = "permanent"
       THEN With("patch", [s EXCEPT !.phase = "Failed", !.failure = "POLICY"], FALSE)
       ELSE With("patch", [s EXCEPT !.phase = "Provisioning",
                                    !.failure = "TRANSIENT_DEPENDENCY"], TRUE)

Provisioning == With("patch", [me.run.status EXCEPT !.phase = "Provisioning"], TRUE)

\* The end of reconcilePrerequisites without an error.
Projected(s) ==
    IF RetryAllowed(s)
    THEN With("patch", ReconcileRetry(s, me.run.generation), TRUE)
    ELSE With("patch", s, s.phase \in {"Provisioning", "Running"})

Here == me.run.status.attempt

Claim(a) ==
    pvcs' = IF Retain /\ pvcs[a] = "absent"
            THEN [pvcs EXCEPT ![a] = "retained"] ELSE pvcs

\* configurationReferencesReady, and a workspace that is bound or whose class
\* binds it to its first consumer.
ConfigurationReferencesReady == "configuration" \in ready
WorkspaceReady == "storage" \in ready

\* The claim just applied is read back from the informer.
ClaimUnseen(a) == "pvcs" \in Lagging /\ Retain /\ pvcCache[a] = "absent"

Prepare ==
    /\ me.pc = "prepare"
    /\ \/ ~ConfigurationReferencesReady /\ Goto(Provisioning) /\ UNCHANGED pvcs
       \/ /\ ConfigurationReferencesReady
          /\ Claim(Here)
          /\ Goto(IF ClaimUnseen(Here) THEN PrerequisiteFailed("transient")
                  ELSE IF ~WorkspaceReady THEN Provisioning
                  ELSE [me EXCEPT !.pc = "job"])
    /\ UNCHANGED <<obj, fresh, jobs, outside, faults>>

\* A check for a missing Job that does not ask whether one was created.
JobMissingAlways ==
    /\ me.pc = "job"
    /\ ReadJob(Here) \in NoJob \union Ending
    /\ Goto(Projected(ProjectLifecycle(me.run.status,
                Observation("Failed", "INTERNAL", me.run.status.completed))))
    /\ UNCHANGED <<kube, outside, faults>>

JobMissing ==
    /\ me.pc = "job"
    /\ me.run.status.job # 0
    /\ ReadJob(Here) \in NoJob \union Ending
    /\ Goto(Projected(ProjectLifecycle(me.run.status,
                Observation("Failed", "INTERNAL", me.run.status.completed))))
    /\ UNCHANGED <<kube, outside, faults>>

\* The server-side apply of the Job creates it when it is not there.
Apply(a) ==
    jobs' = IF ReadJob(a) \in NoJob /\ jobs[a] \in NoJob
            THEN [jobs EXCEPT ![a] = "pending"] ELSE jobs

EnsureJob ==
    /\ me.pc = "job"
    /\ me.run.status.job = 0 \/ ReadJob(Here) \notin NoJob \union Ending
    /\ Apply(Here)
    /\ Goto([me EXCEPT !.pc = "observe", !.run.status.job = Here])
    /\ UNCHANGED <<obj, fresh, pvcs, outside, faults>>

ObserveJob ==
    /\ me.pc = "observe"
    /\ \/ /\ ReadJob(Here) \in NoJob
          /\ Goto(PrerequisiteFailed("transient"))
       \/ /\ ReadJob(Here) \notin NoJob
          /\ \E o \in Observe(ReadJob(Here)) :
                Goto(Projected(ProjectLifecycle(me.run.status, o)))
    /\ UNCHANGED <<kube, outside, faults>>

-----------------------------------------------------------------------------
(* reconcileCancellation *)

CancelAbsent ==
    /\ me.pc = "cancel"
    /\ me.run.status.job = 0 \/ ReadJob(Here) \in NoJob
    /\ Goto(With("patch", Cancelled(me.run.status), FALSE))
    /\ UNCHANGED <<kube, outside, faults>>

\* A deletion that never becomes forced.
DeleteGraceful(a, forced) ==
    jobs' = IF jobs[a] \in NoJob \union Ending THEN jobs
            ELSE [jobs EXCEPT ![a] = "terminating"]

\* A Job already seen terminating is only deleted again by force.
Delete(a, forced) ==
    jobs' = IF jobs[a] \in NoJob THEN jobs
            ELSE IF forced THEN [jobs EXCEPT ![a] = "killed"]
            ELSE IF {jobs[a], ReadJob(a)} \intersect Ending # {} THEN jobs
            ELSE [jobs EXCEPT ![a] = "terminating"]

\* A terminal outcome of the Job wins the cancellation; otherwise the Job is
\* deleted, with its Pods once the cancellation deadline has passed.
CancelPresent ==
    /\ me.pc = "cancel"
    /\ me.run.status.job # 0
    /\ ReadJob(Here) \notin NoJob
    /\ \E o \in Observe(ReadJob(Here)) :
        LET terminal == /\ ReadJob(Here) \notin Ending
                        /\ o.phase \in {"Succeeded", "Failed"}
            forced == me.run.status.cancelling /\ "cancellation" \in overdue
        IN \/ /\ terminal
              /\ Goto(With("patch", ProjectLifecycle(me.run.status, o), FALSE))
              /\ UNCHANGED jobs
           \/ /\ ~terminal
              /\ Goto(With("patch", Cancelling(me.run.status), TRUE))
              /\ Delete(Here, forced)
    /\ UNCHANGED <<obj, fresh, pvcs, outside, faults>>

\* recordCancellationError
CancelFailed(kind) ==
    With("patch",
         [Cancelling(me.run.status) EXCEPT
            !.failure = IF kind = "permanent" THEN "POLICY"
                        ELSE "TRANSIENT_DEPENDENCY"],
         kind = "transient")

-----------------------------------------------------------------------------
(* reconcileCleanup: one workspace at a time, then the status, then the      *)
(* finalizer.                                                                *)

Cleaned(state) == With("patch", [me.run.status EXCEPT !.cleanup = state], TRUE)

CleanupFailed == Cleaned(IF "cleanup" \in overdue THEN "escalated" ELSE "pending")

CleanupNext ==
    /\ me.pc = "cleanup"
    /\ me.at <= CurrentAttempt(me.run.status)
    /\ LET seen == ReadPvc(me.at)
           next == [me EXCEPT !.at = @ + 1]
       IN \/ seen # "retained" /\ Goto(next) /\ UNCHANGED pvcs
          \/ /\ seen = "retained" /\ pvcs[me.at] = seen
             /\ pvcs' = [pvcs EXCEPT ![me.at] = "released"]
             /\ Goto(next)
          \/ /\ seen = "retained" /\ pvcs[me.at] # seen
             /\ Goto(CleanupFailed)
             /\ UNCHANGED pvcs
    /\ UNCHANGED <<obj, fresh, jobs, outside, faults>>

\* A clean-up that stops one attempt short.
CleanupShort ==
    /\ me.pc = "cleanup"
    /\ me.at >= CurrentAttempt(me.run.status)
    /\ Goto(Cleaned("complete"))
    /\ UNCHANGED <<kube, outside, faults>>

CleanupDone ==
    /\ me.pc = "cleanup"
    /\ me.at > CurrentAttempt(me.run.status)
    /\ Goto(Cleaned("complete"))
    /\ UNCHANGED <<kube, outside, faults>>

-----------------------------------------------------------------------------
(* patchStatusIfChanged and what each branch does after it *)

\* A clean-up that is not polled after a failure.
AfterPatchOnce ==
    IF me.run.deleting
    THEN IF me.run.status.cleanup \in {"complete", "escalated"}
         THEN Goto([me EXCEPT !.pc = "release"])
         ELSE End(FALSE)
    ELSE End(me.requeue)

AfterPatch ==
    IF me.run.deleting
    THEN IF me.run.status.cleanup \in {"complete", "escalated"}
         THEN Goto([me EXCEPT !.pc = "release"])
         ELSE End(TRUE)
    ELSE End(me.requeue)

ResetBackoff ==
    overdue' = IF obj'.status.attempt # obj.status.attempt
               THEN overdue \ {"backoff"} ELSE overdue

\* The patch of an implementation without the optimistic lock.
PatchUnlocked ==
    /\ me.pc = "patch"
    /\ Write([obj EXCEPT !.status = me.run.status])
    /\ AfterPatch
    /\ ResetBackoff
    /\ UNCHANGED <<jobs, pvcs, cache, jobCache, pvcCache, ready, evidence, faults>>

Patch ==
    /\ me.pc = "patch"
    /\ LET changed == me.run.status # me.before
       IN \/ ~changed /\ NoWrite /\ AfterPatch
          \/ /\ changed /\ me.fresh
             /\ Write([obj EXCEPT !.status = me.run.status])
             /\ AfterPatch
          \/ changed /\ ~me.fresh /\ NoWrite /\ End(TRUE)
    /\ ResetBackoff
    /\ UNCHANGED <<jobs, pvcs, cache, jobCache, pvcCache, ready, evidence, faults>>

RemoveFinalizer ==
    /\ me.pc = "release"
    /\ \/ /\ me.fresh
          /\ Write([obj EXCEPT !.finalizer = FALSE, !.exists = FALSE])
          /\ End(FALSE)
       \/ ~me.fresh /\ NoWrite /\ End(TRUE)
    /\ UNCHANGED <<jobs, pvcs, outside, faults>>

-----------------------------------------------------------------------------
(* Errors of the API server, and restarts of the operator *)

Fault == faults < MaxFaults /\ faults' = faults + 1

\* A call fails.  A call that timed out may have been carried out.
CallFails ==
    /\ Fault
    /\ \E kind \in FaultKinds, done \in BOOLEAN :
        /\ done => kind = "transient"
        /\ \/ /\ me.pc = "prepare"
              /\ Goto(PrerequisiteFailed(kind)) /\ NoWrite /\ UNCHANGED jobs
              /\ IF done /\ ConfigurationReferencesReady THEN Claim(Here)
                 ELSE UNCHANGED pvcs
           \/ /\ me.pc \in {"job", "observe"}
              /\ Goto(PrerequisiteFailed(kind)) /\ NoWrite /\ UNCHANGED pvcs
              /\ IF done /\ me.run.status.job = 0 THEN Apply(Here) ELSE UNCHANGED jobs
           \/ /\ me.pc = "cancel" /\ me.run.status.job # 0
              /\ Goto(CancelFailed(kind)) /\ NoWrite /\ UNCHANGED pvcs
              /\ IF done /\ ReadJob(Here) \notin NoJob THEN Delete(Here, FALSE)
                 ELSE UNCHANGED jobs
           \/ /\ me.pc = "cleanup" /\ me.at <= CurrentAttempt(me.run.status)
              /\ Goto(CleanupFailed) /\ NoWrite /\ UNCHANGED jobs
              /\ pvcs' = IF done /\ ReadPvc(me.at) = "retained"
                         THEN [pvcs EXCEPT ![me.at] = "released"] ELSE pvcs
           \/ /\ me.pc = "finalizer"
              /\ End(kind = "transient") /\ UNCHANGED <<jobs, pvcs>>
              /\ IF done /\ me.fresh THEN Write([obj EXCEPT !.finalizer = TRUE])
                 ELSE NoWrite
           \/ /\ me.pc = "patch" /\ me.run.status # me.before
              /\ End(kind = "transient" \/ me.run.deleting)
              /\ UNCHANGED <<jobs, pvcs>>
              /\ IF done /\ me.fresh THEN Write([obj EXCEPT !.status = me.run.status])
                 ELSE NoWrite
           \/ /\ me.pc = "release"
              /\ End(TRUE) /\ UNCHANGED <<jobs, pvcs>>
              /\ \/ NoWrite
                 \/ me.fresh /\ Write([obj EXCEPT !.status.cleanup = "pending"])
    /\ ResetBackoff
    /\ UNCHANGED <<cache, jobCache, pvcCache, ready, evidence>>

\* The new process lists every object and enqueues every AgentRun.
Restart ==
    /\ Fault
    /\ me' = Idle
    /\ cache' = obj /\ fresh' = TRUE
    /\ jobCache' = jobs
    /\ pvcCache' = pvcs
    /\ queued' = obj.exists
    /\ UNCHANGED <<obj, jobs, pvcs, overdue, ready, evidence>>

-----------------------------------------------------------------------------
(* The informers *)

Wakes(before, after) ==
    /\ after.exists
    /\ \/ ~before.exists
       \/ before.generation # after.generation
       \/ after.deleting /\ ~before.deleting

SyncRun ==
    /\ ~fresh
    /\ cache' = obj
    /\ fresh' = TRUE
    /\ queued' = (queued \/ Wakes(cache, obj))
    /\ UNCHANGED <<obj, jobs, jobCache, pvcs, pvcCache, me, overdue, ready,
                   evidence, faults>>

SyncChildren ==
    /\ \/ /\ "jobs" \in Lagging /\ jobCache # jobs
          /\ jobCache' = jobs /\ UNCHANGED pvcCache
       \/ /\ "pvcs" \in Lagging /\ pvcCache # pvcs
          /\ pvcCache' = pvcs /\ UNCHANGED jobCache
    /\ queued' = TRUE
    /\ UNCHANGED <<kube, cache, me, overdue, ready, evidence, faults>>

-----------------------------------------------------------------------------
(* The cluster: the spec's writers, the Job controller, the clock *)

Written(o) ==
    /\ Write(o)
    /\ me' = IF me = Idle THEN me ELSE [me EXCEPT !.fresh = FALSE]
    /\ UNCHANGED <<jobs, pvcs, outside, queued, faults>>

RequestCancel ==
    /\ "cancel" \in Requests
    /\ obj.exists
    /\ obj.desired = "Running"
    /\ Written([obj EXCEPT !.desired = "Cancelled", !.generation = @ + 1])

RequestDelete ==
    /\ "delete" \in Requests
    /\ obj.exists /\ ~obj.deleting
    /\ Written([obj EXCEPT !.deleting = TRUE, !.exists = obj.finalizer,
                           !.generation = @ + 1])

Becomes(a, states) ==
    /\ \E state \in states : jobs' = [jobs EXCEPT ![a] = state]
    /\ evidence' = IF jobs'[a] = "complete" THEN evidence \union {a} ELSE evidence
    /\ queued' = (queued \/ "jobs" \notin Lagging)
    /\ UNCHANGED <<obj, cache, fresh, jobCache, pvcs, pvcCache, me, overdue, ready>>

\* The kubelet and the Job controller, with the Job's active deadline.
JobRuns(a) ==
    /\ \/ jobs[a] = "pending"
          /\ Becomes(a, {"unpullable", "rejected", "running", "failed"})
       \/ jobs[a] = "unpullable" /\ Becomes(a, {"running", "failed"})
       \/ jobs[a] = "rejected" /\ Becomes(a, {"failed"})
       \/ jobs[a] = "running" /\ Becomes(a, Finished)
    /\ UNCHANGED faults

\* Pods of a terminating Job stop when they stop; killed ones are gone.
JobStops(a) == jobs[a] = "terminating" /\ Becomes(a, {"deleted"}) /\ UNCHANGED faults
JobGone(a) == jobs[a] = "killed" /\ Becomes(a, {"deleted"}) /\ UNCHANGED faults

\* Someone else deletes the Job; with its owner gone, the garbage collector.
JobRemoved(a) ==
    /\ jobs[a] \in JobStates \ (NoJob \union Ending)
    /\ Becomes(a, {"terminating"})
    /\ IF obj.exists THEN Fault ELSE UNCHANGED faults

Available(what) ==
    /\ what \notin ready
    /\ ready' = ready \union {what}
    /\ UNCHANGED <<kube, cache, jobCache, pvcCache, me, queued, overdue,
                   evidence, faults>>

\* Each deadline runs from a persisted time: the first condition of the
\* cancellation, the completion or RetryReady condition, the deletion.
Running(deadline) ==
    CASE deadline = "cancellation" -> obj.status.cancelling
      [] deadline = "backoff" ->
            \/ obj.status.backoff
            \/ jobs[CurrentAttempt(obj.status)] \in Finished
      [] deadline = "cleanup" -> obj.deleting

Elapse(deadline) ==
    /\ deadline \notin overdue
    /\ Running(deadline)
    /\ overdue' = overdue \union {deadline}
    /\ UNCHANGED <<kube, cache, jobCache, pvcCache, me, queued, ready,
                   evidence, faults>>

-----------------------------------------------------------------------------
Reconciler ==
    \/ FetchNothing \/ Fetch \/ AddFinalizer
    \/ Prepare \/ JobMissing \/ EnsureJob \/ ObserveJob
    \/ CancelAbsent \/ CancelPresent
    \/ CleanupNext \/ CleanupDone
    \/ Patch \/ RemoveFinalizer

Deadlines == {"cancellation", "backoff", "cleanup"}

Next ==
    \/ Reconciler
    \/ CallFails \/ Restart
    \/ SyncRun \/ SyncChildren
    \/ RequestCancel \/ RequestDelete
    \/ \E a \in Attempts : JobRuns(a) \/ JobStops(a) \/ JobGone(a) \/ JobRemoved(a)
    \/ \E what \in {"configuration", "storage"} : Available(what)
    \/ \E deadline \in Deadlines : Elapse(deadline)

Spec == Init /\ [][Next]_vars

\* The operator keeps working and its informers keep up, time passes, and
\* the API server removes what has no Pods left.  A graceful termination, a
\* running Job and the callers owe nothing.
Fairness ==
    /\ WF_vars(Reconciler)
    /\ WF_vars(SyncRun)
    /\ WF_vars(SyncChildren)
    /\ WF_vars(\E a \in Attempts : JobGone(a))
    /\ \A deadline \in Deadlines : WF_vars(Elapse(deadline))

FairSpec == Spec /\ Fairness

-----------------------------------------------------------------------------
\* No Job and no workspace exists for an attempt beyond the current one of the
\* AgentRun's status, which is 1 until one is recorded: Reconcile saves a retry
\* before it creates its Job, so a conflict, a lost reply or a restart cannot
\* start an uncommitted attempt.
AttemptsCommitted ==
    \A a \in Attempts :
        jobs[a] # "absent" \/ pvcs[a] # "absent" => a <= CurrentAttempt(obj.status)

\* A new attempt starts only after a failure that the retry policy and the
\* platform both allow to retry, and that failure stays in status.attempts.
FailedAttemptsKept ==
    \A a \in 1..(obj.status.attempt - 1) :
        /\ obj.status.history[a].phase = "Failed"
        /\ obj.status.history[a].failure \in Retryable \ {"EXECUTION", "POLICY"}

\* Succeeded is only reported for an attempt whose Job completed with valid
\* result evidence.
SuccessIsProven ==
    \A a \in Attempts :
        obj.status.history[a].phase = "Succeeded" => a \in evidence

\* An attempt is failed as INTERNAL/JobMissing only if its Job was deleted.
MissingJobIsGone ==
    \A a \in Attempts :
        obj.status.history[a].failure = "INTERNAL" => jobs[a] \in Ending \union {"deleted"}

\* "Execution Job is absent after cancellation": a Cancelled run has no Job
\* whose Pod may still run.
CancelledJobAbsent ==
    obj.status.phase = "Cancelled" => \A a \in Attempts : jobs[a] \notin Live

\* Once a deleted AgentRun is gone, every workspace it retained was handed
\* over, unless the cleanup deadline passed and the clean-up was escalated.
WorkspacesHandedOver ==
    ~obj.exists /\ obj.status.cleanup # "escalated" =>
        \A a \in Attempts : pvcs[a] # "retained"

\* A terminal phase is final for its attempt: stale passes never overwrite it,
\* and only a Failed attempt is followed by another one.
OutcomeFinal ==
    [][AttemptTerminal(obj.status) =>
        \/ obj'.status.phase = obj.status.phase
           /\ obj'.status.attempt = obj.status.attempt
        \/ /\ obj.status.phase = "Failed"
           /\ obj'.status.attempt = obj.status.attempt + 1]_obj

\* A requested cancellation ends in a terminal phase even if the graceful
\* termination never finishes, unless the object is deleted first.
CancellationCompletes ==
    obj.desired = "Cancelled" ~> (AttemptTerminal(obj.status) \/ obj.deleting \/ ~obj.exists)

\* A deleted AgentRun goes away: its finalizer never blocks it for ever.
DeletionCompletes == obj.deleting ~> ~obj.exists
=============================================================================
