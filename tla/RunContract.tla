----------------------------- MODULE RunContract -----------------------------
(***************************************************************************)
(* What the control plane promises of a run: its status moves only along    *)
(* the lifecycle graph, its attempts are numbered one after the other, and  *)
(* an attempt is handed off to execution exactly when its run enters        *)
(* PROVISIONING, once.  No leases, versions, engines or clocks.             *)
(***************************************************************************)
EXTENDS RunStates

CONSTANTS Runs, MaxAttempts

VARIABLES
  status,    \* status of each run, NoRow before it is accepted
  failure,   \* failure category of each run
  attempts,  \* attempts the run has had, the current one included
  handedOff  \* handedOff[r]: numbers of the attempts handed to execution

contract == <<status, failure, attempts, handedOff>>

Init ==
  /\ status = [r \in Runs |-> NoRow]
  /\ failure = [r \in Runs |-> NoFailure]
  /\ attempts = [r \in Runs |-> 0]
  /\ handedOff = [r \in Runs |-> {}]

Accept(r) ==
  /\ status[r] = NoRow
  /\ status' = [status EXCEPT ![r] = "QUEUED"]
  /\ attempts' = [attempts EXCEPT ![r] = 1]
  /\ UNCHANGED <<failure, handedOff>>

\* Any edge of the graph but the two below.
Move(r, target) ==
  /\ status[r] # NoRow
  /\ target \notin {status[r], "QUEUED", "PROVISIONING"}
  /\ CanTransition(status[r], failure[r], attempts[r], MaxAttempts, target)
  /\ \E f \in FailureFor(target) :
       /\ status' = [status EXCEPT ![r] = target]
       /\ failure' = [failure EXCEPT ![r] = f]
  /\ UNCHANGED <<attempts, handedOff>>

HandOff(r) ==
  /\ status[r] = "SCHEDULING"
  /\ attempts[r] \notin handedOff[r]
  /\ status' = [status EXCEPT ![r] = "PROVISIONING"]
  /\ handedOff' = [handedOff EXCEPT ![r] = @ \cup {attempts[r]}]
  /\ UNCHANGED <<failure, attempts>>

Again(r) ==
  /\ CanTransition(status[r], failure[r], attempts[r], MaxAttempts, "QUEUED")
  /\ status[r] # "QUEUED"
  /\ status' = [status EXCEPT ![r] = "QUEUED"]
  /\ failure' = [failure EXCEPT ![r] = NoFailure]
  /\ attempts' = [attempts EXCEPT ![r] = @ + 1]
  /\ UNCHANGED handedOff

\* One database transaction may claim several runs: a set of runs moves at once.
MoveAll(moved) ==
  /\ \A r \in moved : status[r] \in {"QUEUED", "CAPACITY_WAIT"}
  /\ status' = [r \in Runs |-> IF r \in moved THEN "SCHEDULING" ELSE status[r]]
  /\ UNCHANGED <<failure, attempts, handedOff>>

Next ==
  \/ \E r \in Runs :
       \/ Accept(r)
       \/ \E target \in Statuses : Move(r, target)
       \/ HandOff(r)
       \/ Again(r)
  \/ \E moved \in SUBSET Runs : MoveAll(moved)

Spec == Init /\ [][Next]_contract
=============================================================================
