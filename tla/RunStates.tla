------------------------------ MODULE RunStates ------------------------------
(***************************************************************************)
(* The lifecycle graph of an AgentRun and of its attempts, as the domain    *)
(* package defines it.  Pure definitions: the modules that own the database *)
(* rows (RunQueue) and the contract they implement (RunContract) share it.  *)
(***************************************************************************)
EXTENDS Naturals

NoFailure == "NO_FAILURE"

\* Only TRANSIENT_DEPENDENCY is told apart by the code (CanRetry); the nine
\* other categories are two representatives, the one the scheduler writes and
\* one for the rest.
FailureCategories == {"TRANSIENT_DEPENDENCY", "POLICY", "EXECUTION"}

Waiting == {"QUEUED", "SCHEDULING", "CAPACITY_WAIT"}

Executing == {"PROVISIONING", "RUNNING", "TESTING", "BUILDING", "SCANNING",
              "READY_TO_DEPLOY", "DEPLOYING"}

RetryableTerminal == {"PROVISIONING_FAILED", "EXECUTION_FAILED", "BUILD_FAILED",
                      "DEPLOYMENT_FAILED", "TIMED_OUT"}

\* The terminal statuses that carry a failure category.
Failing == RetryableTerminal \cup {"POLICY_REJECTED"}

IsTerminal(status) == status \in Failing \cup {"SUCCEEDED", "CANCELLED"}

Statuses == Waiting \cup Executing \cup Failing
            \cup {"CANCELLING", "SUCCEEDED", "CANCELLED"}

\* A run that has not been created yet has no row.
NoRow == "NO_ROW"

\* Mutant of CanRetry: one attempt too many.
CanRetryOnceMore(status, failure, attemptCount, maxAttempts) ==
  /\ IsTerminal(status)
  /\ attemptCount <= maxAttempts
  /\ failure = "TRANSIENT_DEPENDENCY"

CanRetry(status, failure, attemptCount, maxAttempts) ==
  /\ IsTerminal(status)
  /\ attemptCount < maxAttempts
  /\ failure = "TRANSIENT_DEPENDENCY"

\* The targets of the graph that do not depend on the retry exception.
Successors(status) ==
  CASE status = "QUEUED"          -> {"SCHEDULING"}
    [] status = "SCHEDULING"      -> {"CAPACITY_WAIT", "PROVISIONING", "POLICY_REJECTED", "TIMED_OUT"}
    [] status = "CAPACITY_WAIT"   -> {"SCHEDULING", "TIMED_OUT"}
    [] status = "PROVISIONING"    -> {"RUNNING", "PROVISIONING_FAILED", "TIMED_OUT"}
    [] status = "RUNNING"         -> {"TESTING", "EXECUTION_FAILED", "TIMED_OUT"}
    [] status = "TESTING"         -> {"BUILDING", "EXECUTION_FAILED", "TIMED_OUT"}
    [] status = "BUILDING"        -> {"SCANNING", "BUILD_FAILED", "TIMED_OUT"}
    [] status = "SCANNING"        -> {"READY_TO_DEPLOY", "POLICY_REJECTED", "TIMED_OUT"}
    [] status = "READY_TO_DEPLOY" -> {"DEPLOYING"}
    [] status = "DEPLOYING"       -> {"SUCCEEDED", "DEPLOYMENT_FAILED", "TIMED_OUT"}
    [] status = "CANCELLING"      -> {"CANCELLED"}
    [] OTHER                      -> {}

CanTransition(status, failure, attemptCount, maxAttempts, target) ==
  \/ status = target
  \/ target = "CANCELLING" /\ ~IsTerminal(status)
  \/ target \in Successors(status)
  \/ /\ status \in RetryableTerminal
     /\ target = "QUEUED"
     /\ CanRetry(status, failure, attemptCount, maxAttempts)

\* Transition demands a valid failure category exactly for the failing statuses.
FailureFor(target) == IF target \in Failing THEN FailureCategories ELSE {NoFailure}

-----------------------------------------------------------------------------
AttemptStatuses == {"PENDING", "STARTING", "ACTIVE", "COMPLETED", "FAILED",
                    "CANCELLED", "TIMED_OUT"}

AttemptSuccessors(status) ==
  CASE status = "PENDING"  -> {"STARTING", "CANCELLED", "TIMED_OUT"}
    [] status = "STARTING" -> {"ACTIVE", "FAILED", "CANCELLED", "TIMED_OUT"}
    [] status = "ACTIVE"   -> {"COMPLETED", "FAILED", "CANCELLED", "TIMED_OUT"}
    [] OTHER               -> {}
=============================================================================
