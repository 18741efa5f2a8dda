--------------------------- MODULE DeliveryProofs ---------------------------
(***************************************************************************)
(* Proofs that the delivery of events is safe for any number of events,    *)
(* relays, replicas, retry tiers and faults.                               *)
(***************************************************************************)
EXTENDS Delivery, TLAPS

Rows == [state: {"ABSENT", "PENDING", "PUBLISHED", "TERMINAL", "REMOVED"},
         by: Relays \cup {None}, expired: BOOLEAN, due: BOOLEAN]
RelayStates == [batch: SUBSET Events, current: Events \cup {None},
                result: {"NONE", "ok", "permanent", "transient"}, failed: BOOLEAN]
Stages == {"idle", "polled", "checked", "namespace", "no namespace", "agentrun",
           "no agentrun", "created", "failed", "handled"}
Passes == [stage: Stages, offset: Nat, permanent: BOOLEAN]

\* The relay side: a relay that has the broker's answer has a record on the
\* topic.
RelayTypes ==
  /\ outbox \in [Events -> Rows]
  /\ relay \in [Relays -> RelayStates]

AnswerIsTrue ==
  \A p \in Relays :
    /\ relay[p].current # None => relay[p].result # "NONE"
    /\ relay[p].result = "ok" => OnTopic(relay[p].current, 0)

RelayInv == RelayTypes /\ AnswerIsTrue /\ NoEventLost

\* The consumer side.
ConsumerTypes ==
  /\ log \in [Topics -> Seq(Events)]
  /\ committed \in [Topics -> Nat]
  /\ \A i \in Topics : committed[i] <= Len(log[i])
  /\ consumer \in [Replicas -> [Topics -> Passes]]
  /\ creations \in [Events -> Nat]
  /\ failures \in [Events -> Nat]
  /\ dlq \subseteq Events

\* The positions of a topic whose records need no consumer of it any more.
Settled ==
  [i \in Topics |->
    {n \in 1..Len(log[i]) :
       \/ Kind[log[i][n]] = "other"
       \/ log[i][n] \in marked \cup dlq
       \/ \E k \in Topics : k > i /\ \E m \in 1..Len(log[k]) :
            m > committed[k] /\ log[k][m] = log[i][n]}]

CommittedIsSettled == \A i \in Topics : 1..committed[i] \subseteq Settled[i]

\* What a replica that works on a topic relies on.  Its offset may be behind or
\* ahead of the committed one, since the topic may have been given away and
\* back; everything before it is settled all the same.
PassIsSound(c, i) ==
  LET x == consumer[c][i]
      e == log[i][x.offset + 1]
  IN
  x.stage # "idle" =>
    /\ x.offset + 1 <= Len(log[i])
    /\ 1..x.offset \subseteq Settled[i]
    /\ x.stage = "handled" => x.offset + 1 \in Settled[i]
    /\ x.stage \in {"agentrun", "no agentrun", "created"} => Namespace \in objects
    /\ x.stage = "created" => e \in objects
    /\ x.stage = "failed" =>
         /\ failures[e] >= i + 1
         /\ x.permanent => Kind[e] = "invalid" \/ e \in Refused

\* A record is on a retry topic because that many deliveries failed.
TierIsEarned == \A i \in Topics : \A n \in 1..Len(log[i]) : failures[log[i][n]] >= i

CreatedIsThere == \A e \in Events : e \notin objects => creations[e] = 0

ConsumerInv ==
  /\ ConsumerTypes
  /\ \A c \in Replicas, i \in Topics : PassIsSound(c, i)
  /\ CommittedIsSettled
  /\ TierIsEarned
  /\ CreatedIsThere /\ CreatedOnce
  /\ MarkedHasAgentRun
  /\ DeadLetterIsExhausted

DeliveryInv == RelayInv /\ ConsumerInv

-----------------------------------------------------------------------------
(* The topics only grow. *)

Extended ==
  \A i \in Topics : /\ Len(log[i]) <= Len(log'[i])
                    /\ \A n \in 1..Len(log[i]) : log'[i][n] = log[i][n]

\* A record appended to one topic leaves all others where they were.
LEMMA AppendExtends ==
  ASSUME log \in [Topics -> Seq(Events)], NEW k \in Topics, NEW e \in Events, ToTopic(k, e)
  PROVE  /\ log' \in [Topics -> Seq(Events)]
         /\ Extended
         /\ Len(log'[k]) = Len(log[k]) + 1 /\ log'[k][Len(log[k]) + 1] = e
         /\ \A i \in Topics : \A n \in 1..Len(log'[i]) :
              n \in 1..Len(log[i]) \/ (i = k /\ n = Len(log[k]) + 1)
<1>1. /\ log' \in [Topics -> Seq(Events)]
      /\ log'[k] = Append(log[k], e)
      /\ \A i \in Topics : i # k => log'[i] = log[i]
  BY DEF ToTopic
<1>2. /\ Len(log'[k]) = Len(log[k]) + 1
      /\ log'[k][Len(log[k]) + 1] = e
      /\ \A n \in 1..Len(log[k]) : log'[k][n] = log[k][n]
  BY <1>1
<1>3. Extended
  <2> SUFFICES ASSUME NEW i \in Topics
               PROVE  /\ Len(log[i]) <= Len(log'[i])
                      /\ \A n \in 1..Len(log[i]) : log'[i][n] = log[i][n]
    BY DEF Extended
  <2>1. Len(log[i]) \in Nat
    OBVIOUS
  <2>2. CASE i = k
    BY <1>2, <2>1, <2>2
  <2>3. CASE i # k
    BY <1>1, <2>1, <2>3
  <2> QED BY <2>2, <2>3
<1>4. \A i \in Topics : \A n \in 1..Len(log'[i]) :
        n \in 1..Len(log[i]) \/ (i = k /\ n = Len(log[k]) + 1)
  BY <1>1, <1>2
<1> QED BY <1>1, <1>2, <1>3, <1>4

\* Unchanged topics are extended topics.
LEMMA SameExtends ==
  ASSUME log \in [Topics -> Seq(Events)], UNCHANGED log
  PROVE  log' \in [Topics -> Seq(Events)] /\ Extended
BY DEF Extended

\* A record stays where it is.
LEMMA RecordStays ==
  ASSUME log \in [Topics -> Seq(Events)], log' \in [Topics -> Seq(Events)], Extended
  PROVE  \A i \in Topics : \A n \in 1..Len(log[i]) :
           n \in 1..Len(log'[i]) /\ n <= Len(log'[i]) /\ log'[i][n] = log[i][n]
BY DEF Extended

\* What is on a topic stays there.
LEMMA OnTopicKept ==
  ASSUME log \in [Topics -> Seq(Events)], log' \in [Topics -> Seq(Events)], Extended,
         NEW e, NEW i \in Topics, OnTopic(e, i)
  PROVE  OnTopic(e, i)'
<1>1. PICK n \in 1..Len(log[i]) : log[i][n] = e
  BY DEF OnTopic
<1>2. n \in 1..Len(log'[i]) /\ log'[i][n] = e
  BY <1>1 DEF Extended
<1> QED BY <1>2 DEF OnTopic

-----------------------------------------------------------------------------
(* The relay side. *)

\* The relay's invariants survive whatever the consumers do.
LEMMA RelayUnconcerned ==
  ASSUME RelayInv, log \in [Topics -> Seq(Events)], log' \in [Topics -> Seq(Events)],
         Extended, UNCHANGED relaySide
  PROVE  RelayInv'
<1>0. 0 \in Topics
  BY DeliveryAssumption DEF Topics
<1>1. outbox' = outbox /\ relay' = relay
  BY DEF relaySide
<1>2. \A e : OnTopic(e, 0) => OnTopic(e, 0)'
  BY <1>0, OnTopicKept
<1>3. RelayTypes'
  BY <1>1 DEF RelayInv, RelayTypes
<1>4. AnswerIsTrue'
  BY <1>1, <1>2 DEF RelayInv, AnswerIsTrue
<1>5. NoEventLost'
  BY <1>1, <1>2 DEF RelayInv, NoEventLost
<1> QED BY <1>3, <1>4, <1>5 DEF RelayInv

\* The steps of relays, database and clocks.
LEMMA RelaySideStep ==
  ASSUME RelayInv, log \in [Topics -> Seq(Events)],
         \/ \E e \in Events : Insert(e) \/ Expire(e) \/ BackedOff(e) \/ CleanupPublished(e)
         \/ \E p \in Relays : RelayStep(p) \/ RelayCrash(p)
  PROVE  RelayInv' /\ log' \in [Topics -> Seq(Events)] /\ Extended
<1> USE DEF RelayInv
<1>0. 0 \in Topics
  BY DeliveryAssumption DEF Topics
<1>a. ASSUME NEW e \in Events, UNCHANGED <<relay, log>>, outbox' \in [Events -> Rows],
             \A f \in Events : outbox'[f].state \in {"PUBLISHED", "REMOVED"} =>
                                 outbox[f].state \in {"PUBLISHED", "REMOVED"}
      PROVE  RelayInv' /\ log' \in [Topics -> Seq(Events)] /\ Extended
  <2>1. RelayTypes'
    BY <1>a DEF RelayTypes
  <2>2. AnswerIsTrue'
    BY <1>a DEF AnswerIsTrue, OnTopic
  <2>3. NoEventLost'
    BY <1>a DEF NoEventLost, OnTopic
  <2> QED BY <1>a, <2>1, <2>2, <2>3, SameExtends
<1>1. ASSUME NEW e \in Events, Insert(e) \/ Expire(e) \/ BackedOff(e) \/ CleanupPublished(e)
      PROVE  RelayInv' /\ log' \in [Topics -> Seq(Events)] /\ Extended
  <2>1. outbox \in [Events -> Rows] /\ UNCHANGED <<relay, log>>
    BY <1>1 DEF RelayTypes, Insert, Expire, BackedOff, CleanupPublished
  <2>2. CASE Insert(e)
    <3>1. outbox' = [outbox EXCEPT ![e] = [outbox[e] EXCEPT !.state = "PENDING"]]
      BY <2>2 DEF Insert
    <3> QED BY <1>a, <2>1, <3>1 DEF Rows
  <2>3. CASE Expire(e)
    <3>1. outbox' = [outbox EXCEPT ![e] = [outbox[e] EXCEPT !.expired = TRUE]]
      BY <2>3 DEF Expire
    <3> QED BY <1>a, <2>1, <3>1 DEF Rows
  <2>4. CASE BackedOff(e)
    <3>1. outbox' = [outbox EXCEPT ![e] = [outbox[e] EXCEPT !.due = TRUE]]
      BY <2>4 DEF BackedOff
    <3> QED BY <1>a, <2>1, <3>1 DEF Rows
  <2>5. CASE CleanupPublished(e)
    <3>1. /\ outbox[e].state = "PUBLISHED"
          /\ outbox' = [outbox EXCEPT ![e] = [outbox[e] EXCEPT !.state = "REMOVED"]]
      BY <2>5 DEF CleanupPublished, Removable
    <3> QED BY <1>a, <2>1, <3>1 DEF Rows
  <2> QED BY <1>1, <2>2, <2>3, <2>4, <2>5
<1>2. ASSUME NEW p \in Relays, RelayClaim(p)
      PROVE  RelayInv' /\ log' \in [Topics -> Seq(Events)] /\ Extended
  <2>1. PICK batch \in SUBSET Events :
          /\ outbox' = [e \in Events |-> IF e \in batch
                                         THEN [outbox[e] EXCEPT !.by = p, !.expired = FALSE]
                                         ELSE outbox[e]]
          /\ relay' = [relay EXCEPT ![p] = [relay[p] EXCEPT !.batch = batch]]
    BY <1>2 DEF RelayClaim
  <2>2. log' = log /\ outbox \in [Events -> Rows] /\ relay \in [Relays -> RelayStates]
    BY <1>2 DEF RelayClaim, RelayTypes
  <2>3. /\ outbox' \in [Events -> Rows]
        /\ \A f \in Events : outbox'[f].state = outbox[f].state
    BY <2>1, <2>2 DEF Rows
  <2>4. /\ relay' \in [Relays -> RelayStates]
        /\ \A q \in Relays : relay'[q].current = relay[q].current /\ relay'[q].result = relay[q].result
    BY <2>1, <2>2 DEF RelayStates
  <2>5. RelayTypes'
    BY <2>3, <2>4 DEF RelayTypes
  <2>6. AnswerIsTrue'
    BY <2>2, <2>4 DEF AnswerIsTrue, OnTopic
  <2>7. NoEventLost'
    BY <2>2, <2>3 DEF NoEventLost, OnTopic
  <2> QED BY <2>2, <2>5, <2>6, <2>7, SameExtends
<1>3. ASSUME NEW p \in Relays, NEW e \in Events, RelayPublish(p, e)
      PROVE  RelayInv' /\ log' \in [Topics -> Seq(Events)] /\ Extended
  <2>1. PICK r \in {"ok", "permanent", "transient"} :
          /\ relay' = [relay EXCEPT ![p] = [relay[p] EXCEPT !.batch = relay[p].batch \ {e},
                                                            !.current = e, !.result = r]]
          /\ ToTopic(0, e) \/ (r # "ok" /\ UNCHANGED log)
    BY <1>3 DEF RelayPublish, Published
  <2>2. outbox' = outbox /\ relay \in [Relays -> RelayStates]
    BY <1>3 DEF RelayPublish, RelayTypes
  <2>3. log' \in [Topics -> Seq(Events)] /\ Extended /\ (r = "ok" => OnTopic(e, 0)')
    <3>1. CASE ToTopic(0, e)
      <4>1. /\ log' \in [Topics -> Seq(Events)] /\ Extended
            /\ Len(log'[0]) = Len(log[0]) + 1 /\ log'[0][Len(log[0]) + 1] = e
        BY <1>0, <3>1, AppendExtends
      <4>2. Len(log[0]) + 1 \in 1..Len(log'[0])
        BY <1>0, <4>1
      <4> QED BY <1>0, <4>1, <4>2 DEF OnTopic
    <3>2. CASE r # "ok" /\ UNCHANGED log
      BY <3>2, SameExtends
    <3> QED BY <2>1, <3>1, <3>2
  <2>4. \A f : OnTopic(f, 0) => OnTopic(f, 0)'
    BY <1>0, <2>3, OnTopicKept
  <2>5. /\ relay' \in [Relays -> RelayStates]
        /\ relay'[p].current = e /\ relay'[p].result = r
        /\ \A q \in Relays : q # p => relay'[q] = relay[q]
    BY <2>1, <2>2 DEF RelayStates
  <2>6. RelayTypes'
    BY <2>2, <2>5 DEF RelayTypes
  <2>7. AnswerIsTrue'
    BY <2>3, <2>4, <2>5 DEF AnswerIsTrue
  <2>8. NoEventLost'
    BY <2>2, <2>4 DEF NoEventLost
  <2> QED BY <2>3, <2>6, <2>7, <2>8
<1>4. ASSUME NEW p \in Relays, RelayMark(p)
      PROVE  RelayInv' /\ log' \in [Topics -> Seq(Events)] /\ Extended
  <2> DEFINE e == relay[p].current
  <2>1. /\ e # None /\ log' = log
        /\ \/ outbox' = [outbox EXCEPT ![e] = MarkedRow(outbox[e], relay[p].result)]
           \/ outbox' = outbox
        /\ \E failed \in BOOLEAN :
             relay' = [relay EXCEPT ![p] = [relay[p] EXCEPT !.current = None, !.result = "NONE",
                                                            !.failed = relay[p].failed \/ failed]]
    BY <1>4 DEF RelayMark
  <2>2. /\ outbox \in [Events -> Rows] /\ relay \in [Relays -> RelayStates]
        /\ relay[p].current \in Events /\ relay[p].result \in {"ok", "permanent", "transient"}
        /\ relay[p].result = "ok" => OnTopic(relay[p].current, 0)
    BY <2>1 DEF RelayTypes, RelayStates, AnswerIsTrue
  <2>3. /\ relay' \in [Relays -> RelayStates]
        /\ relay'[p].current = None /\ relay'[p].result = "NONE"
        /\ \A q \in Relays : q # p => relay'[q] = relay[q]
    <3>1. PICK failed \in BOOLEAN :
            relay' = [relay EXCEPT ![p] = [relay[p] EXCEPT !.current = None, !.result = "NONE",
                                                           !.failed = relay[p].failed \/ failed]]
      BY <2>1
    <3> DEFINE b == relay[p].failed \/ failed
    <3>2. b \in BOOLEAN
      OBVIOUS
    <3>3. relay' = [relay EXCEPT ![p] = [relay[p] EXCEPT !.current = None, !.result = "NONE",
                                                         !.failed = b]]
      BY <3>1
    <3> HIDE DEF b
    <3> QED BY <2>2, <3>2, <3>3 DEF RelayStates
  <2>4. AnswerIsTrue'
    BY <2>1, <2>3 DEF AnswerIsTrue, OnTopic
  <2>5. /\ outbox' \in [Events -> Rows]
        /\ \A f \in Events : outbox'[f].state \in {"PUBLISHED", "REMOVED"} =>
             \/ outbox[f].state \in {"PUBLISHED", "REMOVED"}
             \/ f = e /\ relay[p].result = "ok"
    <3> DEFINE row == MarkedRow(outbox[e], relay[p].result)
    <3>1. row \in Rows /\ (row.state \in {"PUBLISHED", "REMOVED"} =>
             \/ outbox[e].state \in {"PUBLISHED", "REMOVED"}
             \/ relay[p].result = "ok")
      <4>1. outbox[e] \in Rows /\ None \in Relays \cup {None}
        BY <2>2
      <4>2. CASE relay[p].result = "ok"
        BY <4>1, <4>2 DEF MarkedRow, Rows
      <4>3. CASE relay[p].result = "permanent"
        BY <4>1, <4>3 DEF MarkedRow, Rows
      <4>4. CASE relay[p].result = "transient"
        BY <4>1, <4>4 DEF MarkedRow, Rows
      <4> QED BY <2>2, <4>2, <4>3, <4>4
    <3>2. outbox' = [outbox EXCEPT ![e] = row] \/ outbox' = outbox
      BY <2>1
    <3> HIDE DEF row
    <3> QED BY <2>2, <3>1, <3>2
  <2>6. NoEventLost'
    BY <2>1, <2>2, <2>5 DEF NoEventLost, OnTopic
  <2> QED BY <2>1, <2>3, <2>4, <2>5, <2>6, SameExtends DEF RelayTypes
<1>5. ASSUME NEW p \in Relays, RelayRestart(p) \/ RelayCrash(p)
      PROVE  RelayInv' /\ log' \in [Topics -> Seq(Events)] /\ Extended
  <2>1. /\ outbox' = outbox /\ log' = log
        /\ relay' = [relay EXCEPT ![p] = IdleRelay]
    BY <1>5 DEF RelayRestart, RelayCrash
  <2>2. IdleRelay \in RelayStates /\ IdleRelay.current = None /\ IdleRelay.result = "NONE"
    BY DEF IdleRelay, RelayStates
  <2>3. RelayTypes'
    BY <2>1, <2>2 DEF RelayTypes
  <2>4. AnswerIsTrue'
    BY <2>1, <2>2 DEF AnswerIsTrue, OnTopic, RelayTypes
  <2>5. NoEventLost'
    BY <2>1 DEF NoEventLost, OnTopic
  <2> QED BY <2>1, <2>3, <2>4, <2>5, SameExtends
<1> QED BY <1>1, <1>2, <1>3, <1>4, <1>5 DEF RelayStep

-----------------------------------------------------------------------------
(* The consumer side. *)

\* What every step of anybody does to what a consumer has seen.
Grows ==
  /\ log' \in [Topics -> Seq(Events)] /\ Extended
  /\ objects \subseteq objects' /\ marked \subseteq marked' /\ dlq \subseteq dlq'
  /\ failures' \in [Events -> Nat]
  /\ \A e \in Events : failures'[e] >= failures[e]

SettledStays == \A i \in Topics : Settled[i] \subseteq Settled'[i]

\* What is settled stays so while nothing is acknowledged.
LEMMA SettledKept ==
  ASSUME ConsumerTypes, Grows, committed' = committed
  PROVE  SettledStays
<1> SUFFICES ASSUME NEW i \in Topics, NEW n \in Settled[i]
             PROVE  n \in Settled'[i]
  BY DEF SettledStays
<1>1. /\ n \in 1..Len(log[i])
      /\ \/ Kind[log[i][n]] = "other"
         \/ log[i][n] \in marked \cup dlq
         \/ \E k \in Topics : k > i /\ \E m \in 1..Len(log[k]) :
              m > committed[k] /\ log[k][m] = log[i][n]
  BY DEF Settled
<1>2. n \in 1..Len(log'[i]) /\ log'[i][n] = log[i][n]
  BY <1>1 DEF Grows, Extended, ConsumerTypes
<1>3. ASSUME NEW k \in Topics, k > i, NEW m \in 1..Len(log[k]), m > committed[k],
             log[k][m] = log[i][n]
      PROVE  m \in 1..Len(log'[k]) /\ m > committed'[k] /\ log'[k][m] = log'[i][n]
  BY <1>2, <1>3 DEF Grows, Extended, ConsumerTypes
<1>4. \/ Kind[log'[i][n]] = "other"
      \/ log'[i][n] \in marked' \cup dlq'
      \/ \E k \in Topics : k > i /\ \E m \in 1..Len(log'[k]) :
           m > committed'[k] /\ log'[k][m] = log'[i][n]
  BY <1>1, <1>2, <1>3 DEF Grows
<1> QED BY <1>2, <1>4 DEF Settled

\* An acknowledgement may take away the record that another topic's record
\* relied on, but that record was settled itself.
LEMMA SettledAcknowledged ==
  ASSUME ConsumerTypes, NEW k \in Topics, NEW a \in Nat, 1..a \subseteq Settled[k],
         committed' = [committed EXCEPT ![k] = a], UNCHANGED <<log, marked, dlq>>
  PROVE  SettledStays
<1> SUFFICES ASSUME NEW i \in Topics, NEW n \in Settled[i]
             PROVE  n \in Settled'[i]
  BY DEF SettledStays
<1>0. log' = log /\ marked' = marked /\ dlq' = dlq /\ Topics \subseteq Nat
  BY DeliveryAssumption DEF Topics
<1>1. /\ n \in 1..Len(log[i])
      /\ \/ Kind[log[i][n]] = "other"
         \/ log[i][n] \in marked \cup dlq
         \/ \E j \in Topics : j > i /\ \E m \in 1..Len(log[j]) :
              m > committed[j] /\ log[j][m] = log[i][n]
  BY DEF Settled
<1>2. SUFFICES ASSUME NEW j \in Topics, j > i, NEW m \in 1..Len(log[j]), m > committed[j],
                      log[j][m] = log[i][n]
               PROVE  \/ Kind[log[i][n]] = "other"
                      \/ log[i][n] \in marked \cup dlq
                      \/ \E h \in Topics : h > i /\ \E l \in 1..Len(log[h]) :
                           l > committed'[h] /\ log[h][l] = log[i][n]
  BY <1>0, <1>1 DEF Settled
<1>3. CASE j # k \/ m > a
  <2>1. m > committed'[j]
    BY <1>2, <1>3 DEF ConsumerTypes
  <2> QED BY <1>2, <2>1
<1>4. CASE j = k /\ m <= a
  <2>1. m \in Settled[k]
    BY <1>4
  <2>2. CASE Kind[log[k][m]] = "other" \/ log[k][m] \in marked \cup dlq
    BY <1>2, <1>4, <2>2
  <2>3. CASE \E h \in Topics : h > k /\ \E l \in 1..Len(log[h]) :
               l > committed[h] /\ log[h][l] = log[k][m]
    <3>1. PICK h \in Topics : h > k /\ \E l \in 1..Len(log[h]) :
               l > committed[h] /\ log[h][l] = log[k][m]
      BY <2>3
    <3>2. PICK l \in 1..Len(log[h]) : l > committed[h] /\ log[h][l] = log[k][m]
      BY <3>1
    <3>3. h > i /\ h # k
      BY <1>0, <1>2, <1>4, <3>1
    <3>4. l > committed'[h]
      BY <3>2, <3>3 DEF ConsumerTypes
    <3> QED BY <1>2, <1>4, <3>2, <3>3, <3>4
  <2> QED BY <2>1, <2>2, <2>3 DEF Settled
<1> QED
  <2>1. a \in Nat /\ m \in Nat
    OBVIOUS
  <2> QED BY <1>3, <1>4, <2>1

\* A replica that takes no part in a step, or is stopped by it, stays sound.
LEMMA PassKept ==
  ASSUME ConsumerTypes, Grows, SettledStays, NEW c \in Replicas, NEW i \in Topics,
         PassIsSound(c, i), consumer'[c][i] \in {consumer[c][i], IdleConsumer}
  PROVE  PassIsSound(c, i)'
<1>1. CASE consumer'[c][i] = IdleConsumer
  <2>1. consumer'[c][i].stage = "idle"
    BY <1>1 DEF IdleConsumer
  <2> QED BY <2>1 DEF PassIsSound
<1>2. CASE consumer'[c][i] = consumer[c][i] /\ consumer[c][i].stage # "idle"
  <2> DEFINE x == consumer[c][i]
             e == log[i][x.offset + 1]
  <2>0. x.offset \in Nat /\ i \in Nat /\ log[i] \in Seq(Events) /\ Len(log[i]) \in Nat
    <3>1. x \in Passes
      BY DEF ConsumerTypes
    <3>2. x.offset \in Nat
      BY <3>1 DEF Passes
    <3> QED BY <3>2, DeliveryAssumption DEF ConsumerTypes, Topics
  <2>1. /\ x.offset + 1 <= Len(log[i])
        /\ 1..x.offset \subseteq Settled[i]
        /\ x.stage = "handled" => x.offset + 1 \in Settled[i]
        /\ x.stage \in {"agentrun", "no agentrun", "created"} => Namespace \in objects
        /\ x.stage = "created" => e \in objects
        /\ x.stage = "failed" =>
             /\ failures[e] >= i + 1
             /\ x.permanent => Kind[e] = "invalid" \/ e \in Refused
    BY <1>2 DEF PassIsSound
  <2>8. consumer'[c][i] = x
    BY <1>2
  <2> HIDE DEF x
  <2>2. x.offset + 1 \in 1..Len(log[i])
    <3>1. x.offset + 1 <= Len(log[i])
      BY <2>1
    <3> QED BY <2>0, <3>1
  <2>3. /\ log'[i][x.offset + 1] = e /\ e \in Events
        /\ x.offset + 1 <= Len(log'[i])
    BY <2>0, <2>2 DEF Grows, Extended
  <2>4. failures'[e] >= failures[e] /\ failures'[e] \in Nat /\ failures[e] \in Nat
    BY <2>3 DEF Grows, ConsumerTypes
  <2>5. /\ 1..x.offset \subseteq Settled'[i]
        /\ x.stage = "handled" => x.offset + 1 \in Settled'[i]
    BY <2>1 DEF SettledStays
  <2>6. /\ x.stage \in {"agentrun", "no agentrun", "created"} => Namespace \in objects'
        /\ x.stage = "created" => e \in objects'
    BY <2>1 DEF Grows
  <2>7. x.stage = "failed" => failures'[e] >= i + 1
    BY <2>0, <2>1, <2>4
  <2> QED BY <2>1, <2>3, <2>5, <2>6, <2>7, <2>8 DEF PassIsSound
<1>3. CASE consumer'[c][i] = consumer[c][i] /\ consumer[c][i].stage = "idle"
  BY <1>3 DEF PassIsSound
<1> QED BY <1>1, <1>2, <1>3

\* A replica changes only what it keeps about one topic.
LEMMA RowReplaced ==
  ASSUME ConsumerTypes, NEW c \in Replicas, NEW i \in Topics, NEW x \in Passes,
         consumer' = [consumer EXCEPT ![c] = [consumer[c] EXCEPT ![i] = x]]
  PROVE  /\ consumer' \in [Replicas -> [Topics -> Passes]]
         /\ consumer'[c][i] = x
         /\ \A d \in Replicas, k \in Topics :
              d # c \/ k # i => consumer'[d][k] = consumer[d][k]
BY DEF ConsumerTypes

\* The record a busy replica works on is an event.
LEMMA RecordIsEvent ==
  ASSUME ConsumerTypes, NEW c \in Replicas, NEW i \in Topics, PassIsSound(c, i),
         Stage(c, i) # "idle"
  PROVE  /\ consumer[c][i] \in Passes /\ consumer[c][i].offset \in Nat
         /\ consumer[c][i].offset + 1 \in 1..Len(log[i])
         /\ RecordOf(c, i) \in Events
<1> DEFINE x == consumer[c][i]
<1>1. x \in Passes /\ log[i] \in Seq(Events)
  BY DEF ConsumerTypes
<1>2. x.offset \in Nat
  BY <1>1 DEF Passes
<1>3. x.offset + 1 <= Len(log[i])
  BY DEF PassIsSound, Stage
<1>4. RecordOf(c, i) = log[i][x.offset + 1]
  BY DEF RecordOf
<1> HIDE DEF x
<1>5. x.offset + 1 \in 1..Len(log[i]) /\ log[i][x.offset + 1] \in Events
  BY <1>1, <1>2, <1>3
<1> QED BY <1>1, <1>2, <1>4, <1>5 DEF x

\* A replica goes to a stage whose conditions hold.
LEMMA MoveOn ==
  ASSUME ConsumerInv, Grows, SettledStays, NEW c \in Replicas, NEW i \in Topics,
         NEW s \in Stages \ {"idle", "failed"}, Stage(c, i) # "idle", Enter(c, i, s),
         s = "handled" => consumer[c][i].offset + 1 \in Settled'[i],
         s \in {"agentrun", "no agentrun", "created"} => Namespace \in objects',
         s = "created" => RecordOf(c, i) \in objects'
  PROVE  /\ consumer' \in [Replicas -> [Topics -> Passes]]
         /\ \A d \in Replicas, k \in Topics : PassIsSound(d, k)'
<1> DEFINE x == [consumer[c][i] EXCEPT !.stage = s]
<1>0. ConsumerTypes /\ PassIsSound(c, i)
  BY DEF ConsumerInv
<1>1. /\ consumer[c][i] \in Passes /\ consumer[c][i].offset \in Nat
      /\ consumer[c][i].offset + 1 \in 1..Len(log[i])
  BY <1>0, RecordIsEvent
<1>2. /\ x \in Passes /\ x.stage = s /\ x.offset = consumer[c][i].offset
  BY <1>1 DEF Passes
<1>3. consumer' = [consumer EXCEPT ![c] = [consumer[c] EXCEPT ![i] = x]]
  BY DEF Enter
<1>4. /\ x.offset + 1 <= Len(log'[i])
      /\ log'[i][x.offset + 1] = RecordOf(c, i)
  <2>1. /\ log'[i][consumer[c][i].offset + 1] = log[i][consumer[c][i].offset + 1]
        /\ consumer[c][i].offset + 1 <= Len(log'[i])
    BY <1>0, <1>1, RecordStays DEF Grows, ConsumerTypes
  <2> QED BY <1>2, <2>1 DEF RecordOf
<1>5. 1..x.offset \subseteq Settled'[i]
  <2>1. 1..consumer[c][i].offset \subseteq Settled[i]
    BY <1>0 DEF PassIsSound, Stage
  <2> QED BY <1>2, <2>1 DEF SettledStays
<1>6. s = "handled" => x.offset + 1 \in Settled'[i]
  BY <1>2
<1> HIDE DEF x
<1>7. /\ consumer' \in [Replicas -> [Topics -> Passes]]
      /\ consumer'[c][i] = x
      /\ \A d \in Replicas, k \in Topics :
           d # c \/ k # i => consumer'[d][k] = consumer[d][k]
  <2>1. x \in Passes
    BY <1>2
  <2> QED BY ONLY <1>0, <1>3, <2>1, RowReplaced, c \in Replicas, i \in Topics
<1>8. PassIsSound(c, i)'
  BY <1>2, <1>4, <1>5, <1>6, <1>7 DEF PassIsSound
<1>9. ASSUME NEW d \in Replicas, NEW k \in Topics, d # c \/ k # i
      PROVE  PassIsSound(d, k)'
  <2>1. PassIsSound(d, k)
    BY DEF ConsumerInv
  <2> QED BY <1>0, <1>7, <1>9, <2>1, PassKept
<1> QED BY <1>7, <1>8, <1>9

\* A step that changes nothing but what replicas are doing.
quiet == <<log, committed, objects, creations, marked, dlq, failures>>

\* Nothing that readers look at changes in such a step.
LEMMA QuietGrows ==
  ASSUME ConsumerInv, UNCHANGED quiet
  PROVE  Grows /\ SettledStays
<1>1. ConsumerTypes
  BY DEF ConsumerInv
<1>2. Grows
  BY <1>1, SameExtends DEF Grows, quiet, ConsumerTypes
<1> QED BY <1>1, <1>2, SettledKept DEF quiet

\* Such a step keeps the consumers' invariant when what the replicas do is sound.
LEMMA QuietStep ==
  ASSUME ConsumerInv, UNCHANGED quiet, consumer' \in [Replicas -> [Topics -> Passes]],
         \A c \in Replicas, i \in Topics : PassIsSound(c, i)'
  PROVE  ConsumerInv'
<1> USE DEF ConsumerInv, quiet
<1>1. ConsumerTypes'
  BY DEF ConsumerTypes
<1>2. CommittedIsSettled'
  <2>1. SettledStays
    BY QuietGrows
  <2> QED BY <2>1 DEF CommittedIsSettled, SettledStays
<1>3. TierIsEarned'
  BY DEF TierIsEarned
<1>4. CreatedIsThere' /\ CreatedOnce'
  BY DEF CreatedIsThere, CreatedOnce
<1>5. MarkedHasAgentRun'
  BY DEF MarkedHasAgentRun
<1>6. DeadLetterIsExhausted'
  BY DEF DeadLetterIsExhausted
<1> QED BY <1>1, <1>2, <1>3, <1>4, <1>5, <1>6

\* Relays add records to the lifecycle topic and do nothing else to consumers.
LEMMA PublicationStep ==
  ASSUME ConsumerInv, UNCHANGED consumerSide,
         UNCHANGED log \/ \E e \in Events : ToTopic(0, e)
  PROVE  ConsumerInv'
<1> USE DEF ConsumerInv, consumerSide
<1>0. 0 \in Topics /\ Topics \subseteq Nat
  BY DeliveryAssumption DEF Topics
<1>1. /\ log' \in [Topics -> Seq(Events)] /\ Extended
      /\ \A i \in Topics : \A n \in 1..Len(log'[i]) : n \in 1..Len(log[i]) \/ i = 0
  <2>1. CASE UNCHANGED log
    BY <2>1, SameExtends DEF ConsumerTypes
  <2>2. ASSUME NEW e \in Events, ToTopic(0, e)
        PROVE  /\ log' \in [Topics -> Seq(Events)] /\ Extended
               /\ \A i \in Topics : \A n \in 1..Len(log'[i]) : n \in 1..Len(log[i]) \/ i = 0
    BY <1>0, <2>2, AppendExtends DEF ConsumerTypes
  <2> QED BY <2>1, <2>2
<1>2. Grows /\ SettledStays
  <2>1. Grows
    BY <1>1 DEF Grows, ConsumerTypes
  <2> QED BY <2>1, SettledKept
<1>3. ConsumerTypes'
  <2>1. \A i \in Topics : committed'[i] <= Len(log'[i])
    BY <1>1 DEF ConsumerTypes, Extended
  <2> QED BY <1>1, <2>1 DEF ConsumerTypes
<1>4. \A c \in Replicas, i \in Topics : PassIsSound(c, i)'
  BY <1>2, PassKept
<1>5. CommittedIsSettled'
  BY <1>2 DEF CommittedIsSettled, SettledStays
<1>6. TierIsEarned'
  <2> SUFFICES ASSUME NEW i \in Topics, NEW n \in 1..Len(log'[i])
               PROVE  failures[log'[i][n]] >= i
    BY DEF TierIsEarned
  <2>1. log'[i][n] \in Events
    BY <1>1
  <2>2. CASE n \in 1..Len(log[i])
    BY <1>1, <2>2 DEF TierIsEarned, Extended
  <2>3. CASE i = 0
    BY <2>1, <2>3 DEF ConsumerTypes
  <2> QED BY <1>1, <2>2, <2>3
<1>7. CreatedIsThere' /\ CreatedOnce'
  BY DEF CreatedIsThere, CreatedOnce
<1>8. MarkedHasAgentRun' /\ DeadLetterIsExhausted'
  BY DEF MarkedHasAgentRun, DeadLetterIsExhausted
<1> QED BY <1>3, <1>4, <1>5, <1>6, <1>7, <1>8

\* Poll takes the record after the last acknowledged one.
LEMMA PollStep ==
  ASSUME ConsumerInv, NEW c \in Replicas, NEW i \in Topics, Poll(c, i)
  PROVE  ConsumerInv'
<1> DEFINE x == [IdleConsumer EXCEPT !.stage = "polled", !.offset = committed[i]]
<1>1. /\ UNCHANGED quiet
      /\ consumer' = [consumer EXCEPT ![c] = [consumer[c] EXCEPT ![i] = x]]
      /\ committed[i] < Len(log[i])
  BY DEF Poll, quiet, Available
<1>2. ConsumerTypes /\ Grows /\ SettledStays
  BY <1>1, QuietGrows DEF ConsumerInv
<1>3. x \in Passes /\ x.stage = "polled" /\ x.offset = committed[i] /\ committed[i] \in Nat
  BY <1>2 DEF ConsumerTypes, Passes, Stages, IdleConsumer
<1>4. /\ log' = log /\ committed[i] + 1 <= Len(log'[i])
      /\ 1..committed[i] \subseteq Settled'[i]
  <2>1. log[i] \in Seq(Events)
    BY <1>2 DEF ConsumerTypes
  <2>2. 1..committed[i] \subseteq Settled[i]
    BY DEF ConsumerInv, CommittedIsSettled
  <2>3. log' = log
    BY <1>1 DEF quiet
  <2>4. committed[i] + 1 <= Len(log[i])
    BY ONLY <1>1, <1>3, <2>1, Len(log[i]) \in Nat
  <2> QED BY <1>2, <2>2, <2>3, <2>4 DEF SettledStays
<1> HIDE DEF x
<1>5. /\ consumer' \in [Replicas -> [Topics -> Passes]]
      /\ consumer'[c][i] = x
      /\ \A d \in Replicas, k \in Topics :
           d # c \/ k # i => consumer'[d][k] = consumer[d][k]
  BY ONLY <1>1, <1>2, <1>3, RowReplaced, c \in Replicas, i \in Topics
<1>6. PassIsSound(c, i)'
  BY <1>3, <1>4, <1>5 DEF PassIsSound
<1>7. ASSUME NEW d \in Replicas, NEW k \in Topics, d # c \/ k # i
      PROVE  PassIsSound(d, k)'
  <2>1. PassIsSound(d, k)
    BY DEF ConsumerInv
  <2> QED BY <1>2, <1>5, <1>7, <2>1, PassKept
<1> QED BY <1>1, <1>5, <1>6, <1>7, QuietStep

\* Check, Load and the two reads only move the replica on.
LEMMA ReadStep ==
  ASSUME ConsumerInv, NEW c \in Replicas, NEW i \in Topics,
         \/ Check(c, i) \/ Load(c, i)
         \/ Get(c, i, "namespace", Namespace, "no namespace", "agentrun")
         \/ Get(c, i, "agentrun", RecordOf(c, i), "no agentrun", "created")
  PROVE  ConsumerInv'
<1>1. UNCHANGED quiet
  BY DEF Check, Load, Get, quiet
<1>2. ConsumerTypes /\ Grows /\ SettledStays /\ PassIsSound(c, i)
  BY <1>1, QuietGrows DEF ConsumerInv
<1>3. Stage(c, i) # "idle"
  BY DEF Check, Load, Get
<1>4. /\ consumer[c][i].offset \in Nat
      /\ consumer[c][i].offset + 1 \in 1..Len(log[i])
  BY <1>2, <1>3, RecordIsEvent
<1>5. objects' = objects
  BY <1>1 DEF quiet
<1>6. \E s \in Stages \ {"idle", "failed"} :
        /\ Enter(c, i, s)
        /\ s = "handled" => consumer[c][i].offset + 1 \in Settled'[i]
        /\ s \in {"agentrun", "no agentrun", "created"} => Namespace \in objects'
        /\ s = "created" => RecordOf(c, i) \in objects'
  <2>1. CASE Check(c, i)
    <3>1. CASE Kind[RecordOf(c, i)] = "other" \/ Seen(RecordOf(c, i))
      <4>1. consumer[c][i].offset + 1 \in Settled[i]
        BY <1>4, <3>1 DEF Settled, Seen, RecordOf
      <4>2. consumer[c][i].offset + 1 \in Settled'[i]
        BY <1>2, <4>1 DEF SettledStays
      <4>3. Enter(c, i, "handled") /\ "handled" \in Stages \ {"idle", "failed"}
        BY <2>1, <3>1 DEF Check, Stages
      <4> QED BY <4>2, <4>3
    <3>2. CASE ~(Kind[RecordOf(c, i)] = "other" \/ Seen(RecordOf(c, i)))
      <4>1. Enter(c, i, "checked") /\ "checked" \in Stages \ {"idle", "failed"}
        BY <2>1, <3>2 DEF Check, Stages
      <4> QED BY <4>1
    <3> QED BY <3>1, <3>2
  <2>2. CASE Load(c, i)
    <3>1. Enter(c, i, "namespace") /\ "namespace" \in Stages \ {"idle", "failed"}
      BY <2>2 DEF Load, Stages
    <3> QED BY <3>1
  <2>3. CASE Get(c, i, "namespace", Namespace, "no namespace", "agentrun")
    <3>1. CASE Namespace \in objects
      <4>1. Enter(c, i, "agentrun") /\ "agentrun" \in Stages \ {"idle", "failed"}
        BY <2>3, <3>1 DEF Get, Stages
      <4> QED BY <1>5, <3>1, <4>1
    <3>2. CASE Namespace \notin objects
      <4>1. Enter(c, i, "no namespace") /\ "no namespace" \in Stages \ {"idle", "failed"}
        BY <2>3, <3>2 DEF Get, Stages
      <4> QED BY <4>1
    <3> QED BY <3>1, <3>2
  <2>4. CASE Get(c, i, "agentrun", RecordOf(c, i), "no agentrun", "created")
    <3>0. Namespace \in objects
      BY <1>2, <2>4 DEF Get, Stage, PassIsSound
    <3>1. CASE RecordOf(c, i) \in objects
      <4>1. Enter(c, i, "created") /\ "created" \in Stages \ {"idle", "failed"}
        BY <2>4, <3>1 DEF Get, Stages
      <4> QED BY <1>5, <3>0, <3>1, <4>1
    <3>2. CASE RecordOf(c, i) \notin objects
      <4>1. Enter(c, i, "no agentrun") /\ "no agentrun" \in Stages \ {"idle", "failed"}
        BY <2>4, <3>2 DEF Get, Stages
      <4> QED BY <1>5, <3>0, <4>1
    <3> QED BY <3>1, <3>2
  <2> QED BY <2>1, <2>2, <2>3, <2>4
<1>7. /\ consumer' \in [Replicas -> [Topics -> Passes]]
      /\ \A d \in Replicas, k \in Topics : PassIsSound(d, k)'
  BY <1>2, <1>3, <1>6, MoveOn
<1> QED BY <1>1, <1>7, QuietStep

\* The namespace is created.
LEMMA CreateNamespaceStep ==
  ASSUME ConsumerInv, NEW c \in Replicas, NEW i \in Topics, EnsureNamespace(c, i)
  PROVE  ConsumerInv'
<1>0. CASE Get(c, i, "namespace", Namespace, "no namespace", "agentrun")
  BY <1>0, ReadStep
<1>1. CASE /\ Stage(c, i) = "no namespace"
           /\ objects' = objects \cup {Namespace}
           /\ Enter(c, i, "agentrun")
           /\ UNCHANGED <<relaySide, log, committed, owner, creations, marked, dlq, failures, faults>>
  <2> USE DEF ConsumerInv
  <2>0. log' = log /\ committed' = committed /\ marked' = marked /\ dlq' = dlq /\ failures' = failures
    BY <1>1
  <2>1. Grows /\ SettledStays
    <3>1. objects \subseteq objects' /\ log' \in [Topics -> Seq(Events)] /\ Extended
      BY <1>1, <2>0, SameExtends DEF ConsumerTypes
    <3>2. Grows
      BY <2>0, <3>1 DEF Grows, ConsumerTypes
    <3> QED BY <2>0, <3>2, SettledKept
  <2> USE <1>1
  <2>2. "agentrun" \in Stages \ {"idle", "failed"} /\ Namespace \in objects'
    BY DEF Stages
  <2>3. /\ consumer' \in [Replicas -> [Topics -> Passes]]
        /\ \A d \in Replicas, k \in Topics : PassIsSound(d, k)'
    BY <2>1, <2>2, MoveOn
  <2>4. ConsumerTypes'
    BY <2>3 DEF ConsumerTypes
  <2>5. CommittedIsSettled'
    BY <2>1 DEF CommittedIsSettled, SettledStays
  <2>6. TierIsEarned' /\ DeadLetterIsExhausted' /\ CreatedOnce'
    BY DEF TierIsEarned, DeadLetterIsExhausted, CreatedOnce
  <2>7. CreatedIsThere' /\ MarkedHasAgentRun'
    BY DEF CreatedIsThere, MarkedHasAgentRun
  <2> QED BY <2>3, <2>4, <2>5, <2>6, <2>7
<1> QED BY <1>0, <1>1 DEF EnsureNamespace

\* The AgentRun is created, or found to be there by now.
LEMMA CreateAgentRunStep ==
  ASSUME ConsumerInv, NEW c \in Replicas, NEW i \in Topics, EnsureAgentRun(c, i)
  PROVE  ConsumerInv'
<1> DEFINE e == RecordOf(c, i)
<1>0. CASE Get(c, i, "agentrun", e, "no agentrun", "created")
  BY <1>0, ReadStep
<1>1. CASE /\ Stage(c, i) = "no agentrun"
           /\ objects' = objects \cup {e}
           /\ creations' = [creations EXCEPT ![e] = IF SameObject(e) THEN creations[e] ELSE creations[e] + 1]
           /\ Enter(c, i, "created")
           /\ UNCHANGED <<relaySide, log, committed, owner, marked, dlq, failures, faults>>
  <2> USE DEF ConsumerInv
  <2>0. log' = log /\ committed' = committed /\ marked' = marked /\ dlq' = dlq /\ failures' = failures
    BY <1>1
  <2>1. Grows /\ SettledStays
    <3>1. objects \subseteq objects' /\ log' \in [Topics -> Seq(Events)] /\ Extended
      BY <1>1, <2>0, SameExtends DEF ConsumerTypes
    <3>2. Grows
      BY <2>0, <3>1 DEF Grows, ConsumerTypes
    <3> QED BY <2>0, <3>2, SettledKept
  <2> USE <1>1
  <2>2. "created" \in Stages \ {"idle", "failed"} /\ Namespace \in objects' /\ e \in objects'
    <3>1. Namespace \in objects
      BY DEF PassIsSound, Stage
    <3> QED BY <3>1 DEF Stages
  <2>3. /\ consumer' \in [Replicas -> [Topics -> Passes]]
        /\ \A d \in Replicas, k \in Topics : PassIsSound(d, k)'
    BY <2>1, <2>2, MoveOn
  <2>4. e \in Events
    BY RecordIsEvent
  <2> HIDE DEF e
  <2>5. /\ creations' \in [Events -> Nat]
        /\ \A f \in Events : f # e => creations'[f] = creations[f]
        /\ creations'[e] <= 1
    <3>1. creations \in [Events -> Nat] /\ creations[e] <= 1 /\ (e \notin objects => creations[e] = 0)
      BY <2>4 DEF ConsumerTypes, CreatedIsThere, CreatedOnce
    <3>2. \E m \in Nat : m <= 1 /\ creations' = [creations EXCEPT ![e] = m]
      <4>0. creations' = [creations EXCEPT ![e] = IF e \in objects THEN creations[e]
                                                                   ELSE creations[e] + 1]
        BY <1>1 DEF SameObject
      <4>1. CASE e \in objects
        <5>1. creations' = [creations EXCEPT ![e] = creations[e]] /\ creations[e] \in Nat
          BY ONLY <2>4, <3>1, <4>0, <4>1
        <5> QED BY ONLY <3>1, <5>1
      <4>2. CASE e \notin objects
        <5>1. creations' = [creations EXCEPT ![e] = creations[e] + 1]
          BY ONLY <4>0, <4>2
        <5>2. creations[e] = 0 /\ 0 + 1 = 1
          BY ONLY <3>1, <4>2
        <5>3. creations' = [creations EXCEPT ![e] = 1]
          BY ONLY <5>1, <5>2
        <5>4. 1 \in Nat /\ 1 <= 1
          BY ONLY TRUE
        <5> QED BY ONLY <5>3, <5>4, Zenon
      <4> QED BY <4>1, <4>2
    <3> QED BY ONLY <2>4, <3>1, <3>2
  <2>6. ConsumerTypes'
    BY <2>3, <2>5 DEF ConsumerTypes
  <2>7. CommittedIsSettled'
    BY <2>1 DEF CommittedIsSettled, SettledStays
  <2>8. TierIsEarned' /\ DeadLetterIsExhausted' /\ MarkedHasAgentRun'
    BY DEF TierIsEarned, DeadLetterIsExhausted, MarkedHasAgentRun
  <2>9. CreatedIsThere' /\ CreatedOnce'
    BY <2>4, <2>5 DEF CreatedIsThere, CreatedOnce
  <2> QED BY <2>3, <2>6, <2>7, <2>8, <2>9
<1> QED BY <1>0, <1>1 DEF EnsureAgentRun

\* The event is marked only once its objects are there.
LEMMA MarkStep ==
  ASSUME ConsumerInv, NEW c \in Replicas, NEW i \in Topics, Mark(c, i)
  PROVE  ConsumerInv'
<1> USE DEF ConsumerInv
<1> DEFINE e == RecordOf(c, i)
<1>1. /\ Stage(c, i) = "created" /\ marked' = marked \cup {e} /\ Enter(c, i, "handled")
      /\ UNCHANGED <<log, committed, objects, creations, dlq, failures>>
  BY DEF Mark, ToMark
<1>2. Grows /\ SettledStays
  <2>1. Grows
    BY <1>1, SameExtends DEF Grows, ConsumerTypes
  <2> QED BY <1>1, <2>1, SettledKept
<1>3. /\ e \in Events /\ e \in objects /\ Namespace \in objects
      /\ consumer[c][i].offset \in Nat
      /\ consumer[c][i].offset + 1 \in 1..Len(log[i])
  <2>1. e \in objects /\ Namespace \in objects
    BY <1>1 DEF PassIsSound, Stage, RecordOf
  <2> QED BY <1>1, <2>1, RecordIsEvent
<1>4. consumer[c][i].offset + 1 \in Settled'[i]
  BY <1>1, <1>3 DEF Settled, RecordOf
<1>5. "handled" \in Stages \ {"idle", "failed"}
  BY DEF Stages
<1>6. /\ consumer' \in [Replicas -> [Topics -> Passes]]
      /\ \A d \in Replicas, k \in Topics : PassIsSound(d, k)'
  BY <1>1, <1>2, <1>4, <1>5, MoveOn
<1>7. ConsumerTypes'
  BY <1>1, <1>6 DEF ConsumerTypes
<1>8. CommittedIsSettled'
  BY <1>1, <1>2 DEF CommittedIsSettled, SettledStays
<1>9. TierIsEarned' /\ DeadLetterIsExhausted' /\ CreatedIsThere' /\ CreatedOnce'
  BY <1>1 DEF TierIsEarned, DeadLetterIsExhausted, CreatedIsThere, CreatedOnce
<1>10. MarkedHasAgentRun'
  BY <1>1, <1>3 DEF MarkedHasAgentRun
<1> QED BY <1>6, <1>7, <1>8, <1>9, <1>10

\* A failure is counted before the record is routed.
LEMMA FailStep ==
  ASSUME ConsumerInv, NEW c \in Replicas, NEW i \in Topics, NEW permanent \in BOOLEAN,
         Fail(c, i, permanent)
  PROVE  ConsumerInv'
<1> USE DEF ConsumerInv
<1> DEFINE e == RecordOf(c, i)
           x == [consumer[c][i] EXCEPT !.stage = "failed", !.permanent = permanent]
<1>1. /\ Stage(c, i) # "idle"
      /\ permanent => Kind[e] = "invalid" \/ e \in Refused
      /\ failures' = [failures EXCEPT ![e] = failures[e] + 1]
      /\ consumer' = [consumer EXCEPT ![c] = [consumer[c] EXCEPT ![i] = x]]
      /\ UNCHANGED <<log, committed, objects, creations, marked, dlq>>
  BY DEF Fail, Decodes
<1>2. /\ consumer[c][i] \in Passes /\ consumer[c][i].offset \in Nat
      /\ consumer[c][i].offset + 1 \in 1..Len(log[i])
      /\ e \in Events
  BY <1>1, RecordIsEvent
<1>3. /\ failures' \in [Events -> Nat]
      /\ \A f \in Events : failures'[f] >= failures[f]
      /\ failures'[e] = failures[e] + 1
  <2> HIDE DEF e
  <2> QED BY <1>1, <1>2 DEF ConsumerTypes
<1>4. Grows /\ SettledStays
  <2>1. Grows
    BY <1>1, <1>3, SameExtends DEF Grows, ConsumerTypes
  <2> QED BY <1>1, <2>1, SettledKept
<1>5. failures'[e] >= i + 1
  <2>1. failures[e] >= i
    BY <1>2 DEF TierIsEarned, RecordOf
  <2>2. failures[e] \in Nat /\ i \in Nat
    BY <1>2, DeliveryAssumption DEF ConsumerTypes, Topics
  <2> HIDE DEF e
  <2> QED BY <1>3, <2>1, <2>2
<1>6. /\ x \in Passes /\ x.stage = "failed" /\ x.permanent = permanent
      /\ x.offset = consumer[c][i].offset
  BY <1>2 DEF Passes, Stages
<1>7. 1..x.offset \subseteq Settled'[i]
  <2>1. 1..consumer[c][i].offset \subseteq Settled[i]
    BY <1>1 DEF PassIsSound, Stage
  <2> QED BY <1>4, <1>6, <2>1 DEF SettledStays
<1>8. log' = log /\ x.offset + 1 <= Len(log'[i]) /\ e = log'[i][x.offset + 1]
  BY <1>1, <1>2, <1>6 DEF RecordOf
<1> HIDE DEF x, e
<1>9. /\ consumer' \in [Replicas -> [Topics -> Passes]]
      /\ consumer'[c][i] = x
      /\ \A d \in Replicas, k \in Topics :
           d # c \/ k # i => consumer'[d][k] = consumer[d][k]
  BY ONLY <1>1, <1>6, ConsumerTypes, RowReplaced, c \in Replicas, i \in Topics
<1>10. PassIsSound(c, i)'
  BY <1>1, <1>5, <1>6, <1>7, <1>8, <1>9 DEF PassIsSound
<1>11. ASSUME NEW d \in Replicas, NEW k \in Topics, d # c \/ k # i
       PROVE  PassIsSound(d, k)'
  <2>1. PassIsSound(d, k) /\ ConsumerTypes
    OBVIOUS
  <2> QED BY <1>4, <1>9, <1>11, <2>1, PassKept
<1>12. ConsumerTypes'
  BY <1>1, <1>3, <1>9 DEF ConsumerTypes
<1>13. CommittedIsSettled'
  BY <1>1, <1>4 DEF CommittedIsSettled, SettledStays
<1>14. TierIsEarned'
  <2> SUFFICES ASSUME NEW j \in Topics, NEW n \in 1..Len(log[j])
               PROVE  failures'[log[j][n]] >= j
    BY <1>1 DEF TierIsEarned
  <2>0. log \in [Topics -> Seq(Events)] /\ TierIsEarned
    BY DEF ConsumerTypes
  <2>1. failures[log[j][n]] >= j /\ log[j][n] \in Events /\ j \in Nat
    <3>1. failures[log[j][n]] >= j
      BY ONLY <2>0, j \in Topics, n \in 1..Len(log[j]) DEF TierIsEarned
    <3>2. log[j][n] \in Events
      BY ONLY <2>0, j \in Topics, n \in 1..Len(log[j])
    <3> QED BY <3>1, <3>2, DeliveryAssumption DEF Topics
  <2>2. failures'[log[j][n]] \in Nat /\ failures[log[j][n]] \in Nat
    BY <1>3, <2>1 DEF ConsumerTypes
  <2>3. failures'[log[j][n]] >= failures[log[j][n]]
    BY <1>3, <2>1
  <2> QED BY <2>1, <2>2, <2>3
<1>15. CreatedIsThere' /\ CreatedOnce' /\ MarkedHasAgentRun'
  BY <1>1 DEF CreatedIsThere, CreatedOnce, MarkedHasAgentRun
<1>16. DeadLetterIsExhausted'
  <2> SUFFICES ASSUME NEW f \in dlq, Kind[f] # "invalid", f \notin Refused
               PROVE  failures'[f] > Tiers
    BY <1>1 DEF DeadLetterIsExhausted
  <2>1. failures[f] > Tiers /\ f \in Events
    BY DEF DeadLetterIsExhausted, ConsumerTypes
  <2>2. failures'[f] \in Nat /\ failures[f] \in Nat /\ failures'[f] >= failures[f] /\ Tiers \in Nat
    BY <1>3, <2>1, DeliveryAssumption DEF ConsumerTypes
  <2> QED BY <2>1, <2>2
<1> QED BY <1>9, <1>10, <1>11, <1>12, <1>13, <1>14, <1>15, <1>16

\* Route puts the record where somebody will find it, or has found it.
LEMMA RouteStep ==
  ASSUME ConsumerInv, NEW c \in Replicas, NEW i \in Topics, Route(c, i)
  PROVE  ConsumerInv'
<1> DEFINE e == RecordOf(c, i)
           o == consumer[c][i].offset
<1>0. /\ ConsumerTypes /\ PassIsSound(c, i) /\ TierIsEarned /\ CommittedIsSettled
      /\ CreatedIsThere /\ CreatedOnce /\ MarkedHasAgentRun /\ DeadLetterIsExhausted
  BY DEF ConsumerInv
<1>1. /\ Stage(c, i) = "failed" /\ Enter(c, i, "handled")
      /\ UNCHANGED <<committed, objects, creations, marked, failures>>
  BY DEF Route
<1>2. /\ consumer[c][i] \in Passes /\ o \in Nat /\ o + 1 \in 1..Len(log[i]) /\ e \in Events
  BY <1>0, <1>1, RecordIsEvent
<1>3. /\ e = log[i][o + 1] /\ failures[e] >= i + 1
      /\ consumer[c][i].permanent => Kind[e] = "invalid" \/ e \in Refused
  BY <1>0, <1>1 DEF PassIsSound, Stage, RecordOf
<1>4. i \in Nat /\ Tiers \in Nat /\ i <= Tiers /\ failures[e] \in Nat
  BY <1>0, <1>2, DeliveryAssumption DEF Topics, ConsumerTypes
<1> HIDE DEF e, o
<1>5. CASE Retriable(c, i)
  <2>1. ToTopic(i + 1, e) /\ dlq' = dlq
    BY <1>5 DEF Route, e
  <2>2. i + 1 \in Topics
    BY <1>4, <1>5 DEF Retriable, Topics
  <2>3. /\ log' \in [Topics -> Seq(Events)] /\ Extended
        /\ Len(log'[i + 1]) = Len(log[i + 1]) + 1 /\ log'[i + 1][Len(log[i + 1]) + 1] = e
        /\ \A j \in Topics : \A n \in 1..Len(log'[j]) :
             n \in 1..Len(log[j]) \/ (j = i + 1 /\ n = Len(log[i + 1]) + 1)
    BY <1>0, <1>2, <2>1, <2>2, AppendExtends DEF ConsumerTypes
  <2>4. Grows
    BY <1>0, <1>1, <2>1, <2>3 DEF Grows, ConsumerTypes
  <2>5. SettledStays
    BY <1>0, <1>1, <2>4, SettledKept
  <2>6. o + 1 \in Settled'[i]
    <3>1. o + 1 \in 1..Len(log'[i]) /\ log'[i][o + 1] = e
      BY <1>0, <1>2, <1>3, <2>3, RecordStays DEF ConsumerTypes
    <3> DEFINE m == Len(log[i + 1]) + 1
    <3>2. Len(log[i + 1]) \in Nat /\ committed[i + 1] \in Nat /\ committed[i + 1] <= Len(log[i + 1])
      BY <1>0, <2>2 DEF ConsumerTypes
    <3>3. /\ m \in 1..Len(log'[i + 1]) /\ m > committed'[i + 1] /\ log'[i + 1][m] = log'[i][o + 1]
          /\ i + 1 > i
      BY <1>1, <1>4, <2>3, <3>1, <3>2
    <3> QED BY <2>2, <3>1, <3>3 DEF Settled
  <2>7. "handled" \in Stages \ {"idle", "failed"}
    BY DEF Stages
  <2>8. /\ consumer' \in [Replicas -> [Topics -> Passes]]
        /\ \A d \in Replicas, k \in Topics : PassIsSound(d, k)'
    BY <1>1, <2>4, <2>5, <2>6, <2>7, MoveOn DEF o
  <2>9. ConsumerTypes'
    <3>1. \A j \in Topics : committed'[j] <= Len(log'[j])
      BY <1>0, <1>1, <2>3 DEF ConsumerTypes, Extended
    <3> QED BY <1>0, <1>1, <2>1, <2>3, <2>8, <3>1 DEF ConsumerTypes
  <2>10. CommittedIsSettled'
    BY <1>0, <1>1, <2>5 DEF CommittedIsSettled, SettledStays
  <2>11. TierIsEarned'
    <3> SUFFICES ASSUME NEW j \in Topics, NEW n \in 1..Len(log'[j])
                 PROVE  failures[log'[j][n]] >= j
      BY <1>1 DEF TierIsEarned
    <3>1. CASE n \in 1..Len(log[j])
      <4>1. log'[j][n] = log[j][n]
        BY <2>3, <3>1 DEF Extended
      <4> QED BY <1>0, <3>1, <4>1 DEF TierIsEarned
    <3>2. CASE j = i + 1 /\ n = Len(log[i + 1]) + 1
      BY <1>3, <2>3, <3>2
    <3> QED BY <2>3, <3>1, <3>2
  <2>12. CreatedIsThere' /\ CreatedOnce' /\ MarkedHasAgentRun' /\ DeadLetterIsExhausted'
    BY <1>0, <1>1, <2>1 DEF CreatedIsThere, CreatedOnce, MarkedHasAgentRun, DeadLetterIsExhausted
  <2> QED BY <2>8, <2>9, <2>10, <2>11, <2>12 DEF ConsumerInv
<1>6. CASE ~Retriable(c, i)
  <2>1. dlq' = dlq \cup {e} /\ log' = log
    BY <1>6 DEF Route, e
  <2>2. Kind[e] = "invalid" \/ e \in Refused \/ failures[e] > Tiers
    BY <1>3, <1>4, <1>6 DEF Retriable
  <2>3. Grows
    <3>1. log' \in [Topics -> Seq(Events)] /\ Extended
      BY <1>0, <2>1, SameExtends DEF ConsumerTypes
    <3> QED BY <1>0, <1>1, <2>1, <3>1 DEF Grows, ConsumerTypes
  <2>4. SettledStays
    BY <1>0, <1>1, <2>3, SettledKept
  <2>5. o + 1 \in Settled'[i]
    BY <1>2, <1>3, <2>1 DEF Settled
  <2>6. "handled" \in Stages \ {"idle", "failed"}
    BY DEF Stages
  <2>7. /\ consumer' \in [Replicas -> [Topics -> Passes]]
        /\ \A d \in Replicas, k \in Topics : PassIsSound(d, k)'
    BY <1>1, <2>3, <2>4, <2>5, <2>6, MoveOn DEF o
  <2>8. ConsumerTypes'
    BY <1>0, <1>1, <1>2, <2>1, <2>7 DEF ConsumerTypes
  <2>9. CommittedIsSettled'
    BY <1>0, <1>1, <2>4 DEF CommittedIsSettled, SettledStays
  <2>10. TierIsEarned' /\ CreatedIsThere' /\ CreatedOnce' /\ MarkedHasAgentRun'
    BY <1>0, <1>1, <2>1 DEF TierIsEarned, CreatedIsThere, CreatedOnce, MarkedHasAgentRun
  <2>11. DeadLetterIsExhausted'
    BY <1>0, <1>1, <2>1, <2>2 DEF DeadLetterIsExhausted
  <2> QED BY <2>7, <2>8, <2>9, <2>10, <2>11 DEF ConsumerInv
<1> QED BY <1>5, <1>6

\* Replicas that stop, lose a topic or are given one.
LEMMA StopStep ==
  ASSUME ConsumerInv, UNCHANGED quiet,
         \/ UNCHANGED consumer
         \/ \E c \in Replicas : consumer' = [consumer EXCEPT ![c] = [i \in Topics |-> IdleConsumer]]
  PROVE  ConsumerInv'
<1>1. ConsumerTypes /\ Grows /\ SettledStays
  BY QuietGrows DEF ConsumerInv
<1>2. IdleConsumer \in Passes
  BY DEF IdleConsumer, Passes, Stages
<1>3. /\ consumer' \in [Replicas -> [Topics -> Passes]]
      /\ \A d \in Replicas, k \in Topics : consumer'[d][k] \in {consumer[d][k], IdleConsumer}
  BY <1>1, <1>2 DEF ConsumerTypes
<1>4. ASSUME NEW d \in Replicas, NEW k \in Topics
      PROVE  PassIsSound(d, k)'
  <2>1. PassIsSound(d, k)
    BY DEF ConsumerInv
  <2> QED BY <1>1, <1>3, <2>1, PassKept
<1> QED BY <1>3, <1>4, QuietStep

\* An acknowledgement covers settled records only.
LEMMA AcknowledgeStep ==
  ASSUME ConsumerInv, NEW c \in Replicas, NEW i \in Topics, Acknowledge(c, i)
  PROVE  ConsumerInv'
<1>1. CASE owner[i] # c
  <2>1. /\ UNCHANGED quiet
        /\ consumer' = [consumer EXCEPT ![c] = [k \in Topics |-> IdleConsumer]]
    BY <1>1 DEF Acknowledge, quiet
  <2> QED BY <2>1, StopStep
<1>2. CASE owner[i] = c
  <2> DEFINE a == consumer[c][i].offset + 1
  <2>0. /\ ConsumerTypes /\ PassIsSound(c, i) /\ CommittedIsSettled
        /\ TierIsEarned /\ CreatedIsThere /\ CreatedOnce /\ MarkedHasAgentRun
        /\ DeadLetterIsExhausted
    BY DEF ConsumerInv
  <2>1. /\ Stage(c, i) = "handled"
        /\ committed' = [committed EXCEPT ![i] = a]
        /\ consumer' = [consumer EXCEPT ![c] = [consumer[c] EXCEPT ![i] = IdleConsumer]]
        /\ UNCHANGED <<log, objects, creations, marked, dlq, failures>>
    BY <1>2 DEF Acknowledge, ToAcknowledge
  <2>2. a \in 1..Len(log[i]) /\ consumer[c][i].offset \in Nat
    BY <2>0, <2>1, RecordIsEvent
  <2>3. 1..consumer[c][i].offset \subseteq Settled[i] /\ a \in Settled[i]
    BY <2>0, <2>1 DEF PassIsSound, Stage
  <2>4. a \in Nat /\ 1..a \subseteq Settled[i]
    <3>1. \A n \in 1..a : n \in 1..consumer[c][i].offset \/ n = a
      BY <2>2
    <3> QED BY <2>2, <2>3, <3>1
  <2> HIDE DEF a
  <2>5. SettledStays
    BY ONLY <2>0, <2>1, <2>4, SettledAcknowledged, i \in Topics
  <2>6. Grows
    <3>1. log' \in [Topics -> Seq(Events)] /\ Extended
      BY <2>0, <2>1, SameExtends DEF ConsumerTypes
    <3> QED BY <2>0, <2>1, <3>1 DEF Grows, ConsumerTypes
  <2>7. IdleConsumer \in Passes
    BY DEF IdleConsumer, Passes, Stages
  <2>8. /\ consumer' \in [Replicas -> [Topics -> Passes]]
        /\ \A d \in Replicas, k \in Topics : consumer'[d][k] \in {consumer[d][k], IdleConsumer}
    <3>1. /\ consumer' \in [Replicas -> [Topics -> Passes]]
          /\ consumer'[c][i] = IdleConsumer
          /\ \A d \in Replicas, k \in Topics :
               d # c \/ k # i => consumer'[d][k] = consumer[d][k]
      BY ONLY <2>0, <2>1, <2>7, RowReplaced, c \in Replicas, i \in Topics
    <3> QED BY ONLY <3>1
  <2>9. ASSUME NEW d \in Replicas, NEW k \in Topics
        PROVE  PassIsSound(d, k)'
    <3>1. PassIsSound(d, k)
      BY DEF ConsumerInv
    <3> QED BY <2>0, <2>5, <2>6, <2>8, <3>1, PassKept
  <2>10. ConsumerTypes'
    <3>1. committed' \in [Topics -> Nat] /\ \A k \in Topics : committed'[k] <= Len(log[k])
      BY ONLY <2>0, <2>1, <2>2, <2>4, i \in Topics DEF ConsumerTypes
    <3> QED BY <2>0, <2>1, <2>8, <3>1 DEF ConsumerTypes
  <2>11. CommittedIsSettled'
    <3> SUFFICES ASSUME NEW k \in Topics PROVE 1..committed'[k] \subseteq Settled'[k]
      BY DEF CommittedIsSettled
    <3>1. 1..committed'[k] \subseteq Settled[k]
      BY <2>0, <2>1, <2>4 DEF CommittedIsSettled, ConsumerTypes
    <3> QED BY <2>5, <3>1 DEF SettledStays
  <2>12. TierIsEarned' /\ CreatedIsThere' /\ CreatedOnce' /\ MarkedHasAgentRun' /\ DeadLetterIsExhausted'
    BY <2>0, <2>1
    DEF TierIsEarned, CreatedIsThere, CreatedOnce, MarkedHasAgentRun, DeadLetterIsExhausted
  <2> QED BY <2>8, <2>9, <2>10, <2>11, <2>12 DEF ConsumerInv
<1> QED BY <1>1, <1>2

-----------------------------------------------------------------------------
(* The invariant and what follows from it. *)

\* Nothing is published, polled or created at the start.
LEMMA DeliveryInit == Init => DeliveryInv
<1> SUFFICES ASSUME Init PROVE DeliveryInv
  OBVIOUS
<1> USE DEF Init
<1>1. RelayTypes
  BY DEF RelayTypes, Rows, RelayStates, AbsentRow, IdleRelay
<1>2. AnswerIsTrue /\ NoEventLost
  BY DEF AnswerIsTrue, NoEventLost, AbsentRow, IdleRelay
<1>3. ConsumerTypes
  <2>1. IdleConsumer \in Passes
    BY DEF IdleConsumer, Passes, Stages
  <2>2. log \in [Topics -> Seq(Events)] /\ \A i \in Topics : Len(log[i]) = 0
    OBVIOUS
  <2> QED BY <2>1, <2>2 DEF ConsumerTypes
<1>4. \A c \in Replicas, i \in Topics : PassIsSound(c, i)
  BY DEF PassIsSound, IdleConsumer
<1>5. CommittedIsSettled
  BY DEF CommittedIsSettled
<1>6. TierIsEarned /\ CreatedIsThere /\ CreatedOnce
  BY DEF TierIsEarned, CreatedIsThere, CreatedOnce
<1>7. MarkedHasAgentRun /\ DeadLetterIsExhausted
  BY DEF MarkedHasAgentRun, DeadLetterIsExhausted
<1> QED BY <1>1, <1>2, <1>3, <1>4, <1>5, <1>6, <1>7 DEF DeliveryInv, RelayInv, ConsumerInv

\* One step of anybody.
LEMMA DeliveryStep == DeliveryInv /\ [Next]_vars => DeliveryInv'
<1> SUFFICES ASSUME DeliveryInv, [Next]_vars PROVE DeliveryInv'
  OBVIOUS
<1>0. RelayInv /\ ConsumerInv /\ log \in [Topics -> Seq(Events)]
  BY DEF DeliveryInv, ConsumerInv, ConsumerTypes
<1>1. CASE \/ \E e \in Events : Insert(e) \/ Expire(e) \/ BackedOff(e) \/ CleanupPublished(e)
           \/ \E p \in Relays : RelayStep(p) \/ RelayCrash(p)
  <2>1. RelayInv'
    BY <1>0, <1>1, RelaySideStep
  <2>2. UNCHANGED consumerSide /\ (UNCHANGED log \/ \E e \in Events : ToTopic(0, e))
    BY <1>1 DEF Insert, Expire, BackedOff, CleanupPublished, RelayStep, RelayCrash, RelayClaim,
                RelayMark, RelayRestart, RelayPublish
  <2> QED BY <1>0, <2>1, <2>2, PublicationStep DEF DeliveryInv
<1>2. ASSUME UNCHANGED relaySide, ConsumerInv', Extended
      PROVE  DeliveryInv'
  <2>1. log' \in [Topics -> Seq(Events)]
    BY <1>2 DEF ConsumerInv, ConsumerTypes
  <2> QED BY <1>0, <1>2, <2>1, RelayUnconcerned DEF DeliveryInv
<1>3. ASSUME NEW c \in Replicas, NEW i \in Topics, ConsumerStep(c, i)
      PROVE  DeliveryInv'
  <2>1. ConsumerInv'
    BY <1>0, <1>3, PollStep, ReadStep, CreateNamespaceStep, CreateAgentRunStep, MarkStep,
       FailStep, RouteStep, AcknowledgeStep DEF ConsumerStep
  <2>2. UNCHANGED relaySide
    BY <1>3 DEF ConsumerStep, Poll, Check, Load, EnsureNamespace, EnsureAgentRun, Get, Mark,
                Route, Acknowledge, Fail
  <2>3. Extended
    <3>1. CASE Route(c, i)
      <4>1. UNCHANGED log \/ (Stage(c, i) = "failed" /\ Retriable(c, i) /\ ToTopic(i + 1, RecordOf(c, i)))
        BY <3>1 DEF Route
      <4>2. ASSUME Stage(c, i) = "failed", Retriable(c, i), ToTopic(i + 1, RecordOf(c, i))
            PROVE  Extended
        <5>1. i + 1 \in Topics
          BY <4>2, DeliveryAssumption DEF Retriable, Topics
        <5>2. RecordOf(c, i) \in Events
          BY <1>0, <4>2, RecordIsEvent DEF ConsumerInv
        <5> QED BY <1>0, <4>2, <5>1, <5>2, AppendExtends
      <4> QED BY <1>0, <4>1, <4>2, SameExtends
    <3>2. CASE ~Route(c, i)
      <4>1. UNCHANGED log
        BY <1>3, <3>2 DEF ConsumerStep, Poll, Check, Load, EnsureNamespace, EnsureAgentRun, Get,
                          Mark, Acknowledge, Fail
      <4> QED BY <1>0, <4>1, SameExtends
    <3> QED BY <3>1, <3>2
  <2> QED BY <1>2, <2>1, <2>2, <2>3
<1>4. ASSUME NEW c \in Replicas, Restart(c) \/ \E i \in Topics : Rebalance(i, c)
      PROVE  DeliveryInv'
  <2>1. /\ UNCHANGED quiet /\ UNCHANGED relaySide
        /\ \/ UNCHANGED consumer
           \/ consumer' = [consumer EXCEPT ![c] = [i \in Topics |-> IdleConsumer]]
    BY <1>4 DEF Restart, Rebalance, quiet
  <2>2. ConsumerInv'
    BY <1>0, <2>1, StopStep
  <2>3. Extended
    BY <1>0, <2>1, SameExtends DEF quiet
  <2> QED BY <1>2, <2>1, <2>2, <2>3
<1>5. CASE UNCHANGED vars
  <2>1. UNCHANGED quiet /\ UNCHANGED relaySide /\ UNCHANGED consumer
    BY <1>5 DEF vars, consumerSide, quiet
  <2>2. ConsumerInv'
    BY <1>0, <2>1, StopStep
  <2>3. Extended
    BY <1>0, <2>1, SameExtends DEF quiet
  <2> QED BY <1>2, <2>1, <2>2, <2>3
<1> QED BY <1>1, <1>3, <1>4, <1>5 DEF Next

\* The invariant of relays and consumers together.
THEOREM DeliveryInvariant == Spec => []DeliveryInv
<1> QED BY DeliveryInit, DeliveryStep, PTL DEF Spec

\* What DeliveryInv says about settled positions is what the run checks.
LEMMA SettledMeansSettled == DeliveryInv => AcknowledgedIsSettled
<1> SUFFICES ASSUME DeliveryInv, NEW i \in Topics, NEW n \in 1..committed[i]
             PROVE  LET e == log[i][n] IN
                    \/ Kind[e] = "other"
                    \/ e \in marked \cup dlq
                    \/ \E k \in Topics : k > i /\ \E m \in DOMAIN log[k] :
                         m > committed[k] /\ log[k][m] = e
  BY DEF AcknowledgedIsSettled
<1>1. n \in Settled[i] /\ \A k \in Topics : DOMAIN log[k] = 1..Len(log[k])
  BY DEF DeliveryInv, ConsumerInv, CommittedIsSettled, ConsumerTypes
<1> QED BY <1>1 DEF Settled

\* No event is lost between the outbox and the broker: a published or removed
\* row has its record on the lifecycle topic, whatever relays crash and race.
THEOREM NoEventIsLost == Spec => []NoEventLost
<1>1. DeliveryInv => NoEventLost
  BY DEF DeliveryInv, RelayInv
<1> QED BY <1>1, DeliveryInvariant, PTL

\* No record is lost by the consumers: an acknowledged one is marked, dead or
\* waits on a later tier, whatever replicas crash and topics move.
THEOREM AcknowledgedIsAlwaysSettled == Spec => []AcknowledgedIsSettled
<1> QED BY SettledMeansSettled, DeliveryInvariant, PTL

\* A processed event has its namespace and its AgentRun.
THEOREM MarkedAlwaysHasAgentRun == Spec => []MarkedHasAgentRun
<1>1. DeliveryInv => MarkedHasAgentRun
  BY DEF DeliveryInv, ConsumerInv
<1> QED BY <1>1, DeliveryInvariant, PTL

\* The AgentRun of an event is created at most once.
THEOREM AlwaysCreatedOnce == Spec => []CreatedOnce
<1>1. DeliveryInv => CreatedOnce
  BY DEF DeliveryInv, ConsumerInv
<1> QED BY <1>1, DeliveryInvariant, PTL

\* A good event is dead only after it failed on every tier.
THEOREM DeadLettersAreExhausted == Spec => []DeadLetterIsExhausted
<1>1. DeliveryInv => DeadLetterIsExhausted
  BY DEF DeliveryInv, ConsumerInv
<1> QED BY <1>1, DeliveryInvariant, PTL
=============================================================================
