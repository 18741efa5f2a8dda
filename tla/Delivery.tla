------------------------------ MODULE Delivery ------------------------------
(***************************************************************************)
(* From a committed outbox row to an AgentRun object in a cluster: relays   *)
(* that claim and publish outbox rows, the lifecycle topic and its retry    *)
(* tiers, and the replicas of the handoff consumer, which create the        *)
(* objects, mark the event processed, route what fails and acknowledge.     *)
(*                                                                          *)
(* There is no clock: a claim may run out and a back-off or not-before time *)
(* may pass at any moment.  A topic is one partition, the one that carries  *)
(* the key.  Everything that goes wrong (a crash, a lost answer, an outage, *)
(* a lease that was too short, a rebalance) takes one of MaxFaults.         *)
(***************************************************************************)
EXTENDS Naturals, Sequences, FiniteSets

CONSTANTS
  Events,       \* outbox events
  Kind,         \* of each event: "scheduled", "other" or "invalid" (does not decode)
  RunOf, Version,  \* aggregate and aggregate_version of each event
  Refused,      \* scheduled events whose intent, cluster or object conflicts
  Unpublishable,\* events the broker rejects for good
  Relays, Replicas,
  None,
  BatchSize,
  Tiers,        \* number of retry topics
  MaxFaults

ASSUME DeliveryAssumption ==
  /\ Kind \in [Events -> {"scheduled", "other", "invalid"}]
  /\ Version \in [Events -> Nat]
  /\ Refused \subseteq Events /\ Unpublishable \subseteq Events
  /\ BatchSize \in Nat \ {0} /\ Tiers \in Nat /\ MaxFaults \in Nat
  /\ None \notin Relays

VARIABLES
  outbox,     \* rows of outbox_events
  relay,      \* what each relay is doing
  log,        \* log[0] the lifecycle topic, log[i] the i-th retry topic
  committed,  \* offsets acknowledged by the consumer group
  owner,      \* the replica each topic is assigned to
  consumer,   \* consumer[c][i]: what replica c is doing with topic i
  objects,    \* the tenant's namespace and the AgentRuns in the cluster
  creations,  \* how often the AgentRun of an event was created
  marked,     \* processed_events of the handoff
  dlq,        \* events with a record on the dead-letter topic
  failures,   \* failed deliveries of each event
  faults

relaySide == <<outbox, relay>>
consumerSide == <<committed, owner, consumer, objects, creations, marked, dlq, failures>>
vars == <<relaySide, log, consumerSide, faults>>

Topics == 0..Tiers
Namespace == "namespace"

AbsentRow == [state |-> "ABSENT", by |-> None, expired |-> FALSE, due |-> TRUE]
IdleRelay == [batch |-> {}, current |-> None, result |-> "NONE", failed |-> FALSE]
IdleConsumer == [stage |-> "idle", offset |-> 0, permanent |-> FALSE]

Init ==
  /\ outbox = [e \in Events |-> AbsentRow]
  /\ relay = [p \in Relays |-> IdleRelay]
  /\ log = [i \in Topics |-> <<>>]
  /\ committed = [i \in Topics |-> 0]
  /\ owner \in [Topics -> Replicas]
  /\ consumer = [c \in Replicas |-> [i \in Topics |-> IdleConsumer]]
  /\ objects = {}
  /\ creations = [e \in Events |-> 0]
  /\ marked = {} /\ dlq = {}
  /\ failures = [e \in Events |-> 0]
  /\ faults = 0

Fault == faults < MaxFaults /\ faults' = faults + 1
-----------------------------------------------------------------------------
(* The outbox and its relays. *)

\* insertOutboxEvent, in the transaction that writes the aggregate: the events
\* of a run are committed in the order of its versions.
Insert(e) ==
  /\ outbox[e].state = "ABSENT"
  /\ \A f \in Events : RunOf[f] = RunOf[e] /\ Version[f] < Version[e] => outbox[f].state # "ABSENT"
  /\ outbox' = [outbox EXCEPT ![e].state = "PENDING"]
  /\ UNCHANGED <<relay, log, consumerSide, faults>>

\* Mutant of Claimable: an expired claim is not taken over.
ClaimableOnce(e) ==
  /\ outbox[e].state = "PENDING"
  /\ outbox[e].due
  /\ outbox[e].by = None

Claimable(e) ==
  /\ outbox[e].state = "PENDING"
  /\ outbox[e].due
  /\ outbox[e].by = None \/ outbox[e].expired

\* Claim skips locked rows, so any claimable rows may be the batch; the order
\* in which UPDATE ... RETURNING lists them is not specified.
RelayClaim(p) ==
  /\ relay[p] = IdleRelay
  /\ \E batch \in SUBSET {e \in Events : Claimable(e)} :
       /\ batch # {}
       /\ Cardinality(batch) <= BatchSize
       /\ outbox' = [e \in Events |-> IF e \in batch
                                      THEN [outbox[e] EXCEPT !.by = p, !.expired = FALSE]
                                      ELSE outbox[e]]
       /\ relay' = [relay EXCEPT ![p].batch = batch]
  /\ UNCHANGED <<log, consumerSide, faults>>

Published(p, e, result) ==
  relay' = [relay EXCEPT ![p].batch = @ \ {e}, ![p].current = e, ![p].result = result]

ToTopic(i, e) == log' = [log EXCEPT ![i] = Append(@, e)]

\* Publish answers: accepted, or rejected for good, or a transient error after
\* which the record may be on the topic or not.
RelayPublish(p, e) ==
  /\ e \in relay[p].batch
  /\ relay[p].current = None
  /\ \/ e \notin Unpublishable /\ Published(p, e, "ok") /\ ToTopic(0, e) /\ UNCHANGED faults
     \/ e \in Unpublishable /\ Published(p, e, "permanent") /\ UNCHANGED <<log, faults>>
     \/ /\ e \notin Unpublishable
        /\ Fault
        /\ Published(p, e, "transient")
        /\ ToTopic(0, e) \/ UNCHANGED log
  /\ UNCHANGED <<outbox, consumerSide>>

\* Mutant of MarkedRow: an error of the broker that may pass is taken for success.
MarkedAnyway(row, result) ==
  IF result = "permanent"
  THEN [row EXCEPT !.state = "TERMINAL", !.by = None, !.expired = FALSE]
  ELSE [row EXCEPT !.state = "PUBLISHED", !.by = None, !.expired = FALSE]

\* The row as MarkPublished or MarkFailed leaves it.
MarkedRow(row, result) ==
  CASE result = "ok"        -> [row EXCEPT !.state = "PUBLISHED", !.by = None, !.expired = FALSE]
    [] result = "permanent" -> [row EXCEPT !.state = "TERMINAL", !.by = None, !.expired = FALSE]
    [] result = "transient" -> [row EXCEPT !.due = FALSE, !.by = None, !.expired = FALSE]

\* The condition of both marks; they do not look at the expiry.
Mine(p, e) == outbox[e].state = "PENDING" /\ outbox[e].by = p

\* MarkPublished or MarkFailed.  A row that is no longer this relay's, or a
\* database error, is remembered and ends the relay after its batch.
RelayMark(p) ==
  LET e == relay[p].current
      next(failed) == relay' = [relay EXCEPT ![p].current = None, ![p].result = "NONE",
                                             ![p].failed = @ \/ failed]
  IN
  /\ e # None
  /\ \/ /\ Mine(p, e)
        /\ outbox' = [outbox EXCEPT ![e] = MarkedRow(@, relay[p].result)]
        /\ next(FALSE)
        /\ UNCHANGED faults
     \/ ~Mine(p, e) /\ next(TRUE) /\ UNCHANGED <<outbox, faults>>
     \/ Fault /\ next(TRUE) /\ UNCHANGED outbox
  /\ UNCHANGED <<log, consumerSide>>

\* RunOnce returned an error, so Run ends; the process is started again.
RelayRestart(p) ==
  /\ relay[p] = [IdleRelay EXCEPT !.failed = TRUE]
  /\ relay' = [relay EXCEPT ![p] = IdleRelay]
  /\ UNCHANGED <<outbox, log, consumerSide, faults>>

RelayCrash(p) ==
  /\ relay[p] # IdleRelay
  /\ Fault
  /\ relay' = [relay EXCEPT ![p] = IdleRelay]
  /\ UNCHANGED <<outbox, log, consumerSide>>

\* The claim runs out: of a relay that forgot it, or, as a fault, of one that
\* is still working through its batch.
Expire(e) ==
  LET p == outbox[e].by IN
  /\ outbox[e].state = "PENDING" /\ p # None /\ ~outbox[e].expired
  /\ IF e \in relay[p].batch \cup {relay[p].current} THEN Fault ELSE UNCHANGED faults
  /\ outbox' = [outbox EXCEPT ![e].expired = TRUE]
  /\ UNCHANGED <<relay, log, consumerSide>>

\* next_attempt_at passes.
BackedOff(e) ==
  /\ ~outbox[e].due
  /\ outbox' = [outbox EXCEPT ![e].due = TRUE]
  /\ UNCHANGED <<relay, log, consumerSide, faults>>

Removable(e) == outbox[e].state = "PUBLISHED"

CleanupPublished(e) ==
  /\ Removable(e)
  /\ outbox' = [outbox EXCEPT ![e].state = "REMOVED"]
  /\ UNCHANGED <<relay, log, consumerSide, faults>>
-----------------------------------------------------------------------------
(* The handoff consumers, one per topic in every replica. *)

Stage(c, i) == consumer[c][i].stage
RecordOf(c, i) == log[i][consumer[c][i].offset + 1]
Enter(c, i, stage) == consumer' = [consumer EXCEPT ![c][i].stage = stage]

Available(i) == committed[i] < Len(log[i])

\* Poll: the record after the last one acknowledged.  A retry record is handed
\* to Process once its retry-not-before has passed.
Poll(c, i) ==
  /\ owner[i] = c
  /\ Stage(c, i) = "idle"
  /\ Available(i)
  /\ consumer' = [consumer EXCEPT ![c][i] = [IdleConsumer EXCEPT !.stage = "polled",
                                                                 !.offset = committed[i]]]
  /\ UNCHANGED <<relaySide, log, committed, owner, objects, creations, marked, dlq, failures, faults>>

\* DecodeEnvelope and the validation of the envelope and of its payload.
Decodes(e) == Kind[e] # "invalid"

Seen(e) == e \in marked

\* What consume does with a record before Process calls a dependency, and Seen.
Check(c, i) ==
  LET e == RecordOf(c, i) IN
  /\ Stage(c, i) = "polled"
  /\ Decodes(e)
  /\ Enter(c, i, IF Kind[e] = "other" \/ Seen(e) THEN "handled" ELSE "checked")
  /\ UNCHANGED <<relaySide, log, committed, owner, objects, creations, marked, dlq, failures, faults>>

\* LoadIntent, Authorize and Select.
Load(c, i) ==
  /\ Stage(c, i) = "checked"
  /\ RecordOf(c, i) \notin Refused
  /\ Enter(c, i, "namespace")
  /\ UNCHANGED <<relaySide, log, committed, owner, objects, creations, marked, dlq, failures, faults>>

\* ensureNamespace and ensureAgentRun: get the object and, if there is none,
\* create it; one that another replica has created meanwhile is compared.
Get(c, i, here, object, missing, next) ==
  /\ Stage(c, i) = here
  /\ Enter(c, i, IF object \in objects THEN next ELSE missing)
  /\ UNCHANGED <<relaySide, log, committed, owner, objects, creations, marked, dlq, failures, faults>>

EnsureNamespace(c, i) ==
  \/ Get(c, i, "namespace", Namespace, "no namespace", "agentrun")
  \/ /\ Stage(c, i) = "no namespace"
     /\ objects' = objects \cup {Namespace}
     /\ Enter(c, i, "agentrun")
     /\ UNCHANGED <<relaySide, log, committed, owner, creations, marked, dlq, failures, faults>>

\* Mutant of SameObject: the object gets a name of its own for every delivery.
OwnName(e) == FALSE

\* AgentRunName is a function of the run and the attempt number.
SameObject(e) == e \in objects

EnsureAgentRun(c, i) ==
  LET e == RecordOf(c, i) IN
  \/ Get(c, i, "agentrun", e, "no agentrun", "created")
  \/ /\ Stage(c, i) = "no agentrun"
     /\ objects' = objects \cup {e}
     /\ creations' = [creations EXCEPT ![e] = IF SameObject(e) THEN @ ELSE @ + 1]
     /\ Enter(c, i, "created")
     /\ UNCHANGED <<relaySide, log, committed, owner, marked, dlq, failures, faults>>

\* Mutant of ToMark: the event is marked before its object is ensured.
MarkFirst == {"checked", "created"}

ToMark == {"created"}

Mark(c, i) ==
  /\ Stage(c, i) \in ToMark
  /\ marked' = marked \cup {RecordOf(c, i)}
  /\ Enter(c, i, "handled")
  /\ UNCHANGED <<relaySide, log, committed, owner, objects, creations, dlq, failures, faults>>

\* A failure of Process, classified: what is invalid or conflicts is permanent,
\* an outage or the process timeout is transient.
Fail(c, i, permanent) ==
  LET e == RecordOf(c, i) IN
  /\ IF permanent
     THEN /\ \/ Stage(c, i) = "polled" /\ ~Decodes(e)
             \/ Stage(c, i) = "checked" /\ e \in Refused
          /\ UNCHANGED faults
     ELSE /\ Stage(c, i) \in {"polled", "checked", "namespace", "no namespace", "agentrun",
                              "no agentrun", "created"}
          /\ Kind[e] = "scheduled"
          /\ Fault
  /\ failures' = [failures EXCEPT ![e] = @ + 1]
  /\ consumer' = [consumer EXCEPT ![c][i].stage = "failed", ![c][i].permanent = permanent]
  /\ UNCHANGED <<relaySide, log, committed, owner, objects, creations, marked, dlq>>

\* Mutant of Retriable: one tier is skipped.
RetriableButLast(c, i) == ~consumer[c][i].permanent /\ i + 1 < Tiers

\* Topic i carries the records whose delivery attempt failed i times.
Retriable(c, i) == ~consumer[c][i].permanent /\ i + 1 <= Tiers

\* Route publishes to the next tier or to the dead-letter topic.
Route(c, i) ==
  /\ Stage(c, i) = "failed"
  /\ IF Retriable(c, i)
     THEN ToTopic(i + 1, RecordOf(c, i)) /\ UNCHANGED dlq
     ELSE dlq' = dlq \cup {RecordOf(c, i)} /\ UNCHANGED log
  /\ Enter(c, i, "handled")
  /\ UNCHANGED <<relaySide, committed, owner, objects, creations, marked, failures, faults>>

\* Mutant of ToAcknowledge: a failed record is acknowledged before it is routed.
AcknowledgeFailed == {"handled", "failed"}

ToAcknowledge == {"handled"}

\* A replica that has lost the topic cannot commit; consume returns the error.
Acknowledge(c, i) ==
  /\ Stage(c, i) \in ToAcknowledge
  /\ IF owner[i] = c
     THEN /\ committed' = [committed EXCEPT ![i] = consumer[c][i].offset + 1]
          /\ consumer' = [consumer EXCEPT ![c][i] = IdleConsumer]
     ELSE /\ consumer' = [consumer EXCEPT ![c] = [k \in Topics |-> IdleConsumer]]
          /\ UNCHANGED committed
  /\ UNCHANGED <<relaySide, log, owner, objects, creations, marked, dlq, failures, faults>>

\* The process ends, by a crash or because one consumer returned an error (a
\* failed Poll, Route or Acknowledge), and starts again.
Restart(c) ==
  /\ consumer[c] # [i \in Topics |-> IdleConsumer]
  /\ Fault
  /\ consumer' = [consumer EXCEPT ![c] = [i \in Topics |-> IdleConsumer]]
  /\ UNCHANGED <<relaySide, log, committed, owner, objects, creations, marked, dlq, failures>>

\* The group gives a topic to another replica; the old one does not notice
\* before it acknowledges.
Rebalance(i, c) ==
  /\ owner[i] # c
  /\ Fault
  /\ owner' = [owner EXCEPT ![i] = c]
  /\ UNCHANGED <<relaySide, log, committed, consumer, objects, creations, marked, dlq, failures>>
-----------------------------------------------------------------------------
RelayStep(p) ==
  \/ RelayClaim(p) \/ RelayMark(p) \/ RelayRestart(p)
  \/ \E e \in Events : RelayPublish(p, e)

ConsumerStep(c, i) ==
  \/ Poll(c, i) \/ Check(c, i) \/ Load(c, i) \/ EnsureNamespace(c, i) \/ EnsureAgentRun(c, i)
  \/ Mark(c, i) \/ Route(c, i) \/ Acknowledge(c, i)
  \/ \E permanent \in BOOLEAN : Fail(c, i, permanent)

Next ==
  \/ \E e \in Events : Insert(e) \/ Expire(e) \/ BackedOff(e) \/ CleanupPublished(e)
  \/ \E p \in Relays : RelayStep(p) \/ RelayCrash(p)
  \/ \E c \in Replicas, i \in Topics : ConsumerStep(c, i) \/ Rebalance(i, c)
  \/ \E c \in Replicas : Restart(c)

\* Relays and consumers loop until they are told to stop and are started again;
\* leases and back-offs end.  Faults are never required.
Fairness ==
  /\ \A p \in Relays : WF_vars(RelayStep(p))
  /\ \A e \in Events : WF_vars(Expire(e)) /\ WF_vars(BackedOff(e))
  /\ \A c \in Replicas, i \in Topics : WF_vars(ConsumerStep(c, i))

Spec == Init /\ [][Next]_vars
FairSpec == Spec /\ Fairness
-----------------------------------------------------------------------------
(* Properties *)

OnTopic(e, i) == \E n \in DOMAIN log[i] : log[i][n] = e

\* No committed event is lost on the way to the broker: a row that is marked
\* published, or cleaned up, has its record on the lifecycle topic, whatever
\* crashes and whichever relays race for it.
NoEventLost ==
  \A e \in Events : outbox[e].state \in {"PUBLISHED", "REMOVED"} => OnTopic(e, 0)

\* No delivered event is lost by the consumers: every acknowledged record of a
\* scheduled or invalid event has been marked, is dead-lettered, or waits
\* unacknowledged on a retry topic.
AcknowledgedIsSettled ==
  \A i \in Topics : \A n \in 1..committed[i] :
    LET e == log[i][n] IN
    \/ Kind[e] = "other"
    \/ e \in marked \cup dlq
    \/ \E k \in Topics : k > i /\ \E m \in DOMAIN log[k] : m > committed[k] /\ log[k][m] = e

\* A processed event has its AgentRun, however many replicas and topics deliver
\* the event and wherever they crash.
MarkedHasAgentRun == \A e \in marked : {e, Namespace} \subseteq objects

\* Redelivery, duplicate publication and racing replicas create an AgentRun at
\* most once for an attempt.
CreatedOnce == \A e \in Events : creations[e] <= 1

\* An event that is well-formed and not in conflict is dead-lettered only after
\* a failure on the lifecycle topic and on every retry tier.
DeadLetterIsExhausted ==
  \A e \in dlq : Kind[e] = "invalid" \/ e \in Refused \/ failures[e] > Tiers

\* Every committed event comes to its end: the broker rejects it for good, or it
\* is marked with its AgentRun in place, or it is dead-lettered; an event of no
\* concern to the handoff is at least published.  It takes the relay, the
\* topics and the consumers together, with claims that run out, retries of
\* records and restarts at every hop.
EveryEventSettles ==
  \A e \in Events :
    outbox[e].state = "PENDING" ~>
      \/ outbox[e].state = "TERMINAL"
      \/ Kind[e] = "other" /\ outbox[e].state \in {"PUBLISHED", "REMOVED"}
      \/ e \in marked \cup dlq
=============================================================================
