--------------------------- MODULE OperatorProofs ---------------------------
(***************************************************************************)
(* What the operator may be trusted with, proved for any number of         *)
(* attempts, faults and restarts, any retry policy, and however far its    *)
(* informers are behind.                                                   *)
(*                                                                         *)
(* The argument: a pass starts from a status that the AgentRun once had,   *)
(* attempts are only ever added to that, and the optimistic lock lets a    *)
(* pass write only over the status it started from.                        *)
(***************************************************************************)
EXTENDS Operator, TLAPS

StatusFields == {"phase", "attempt", "job", "failure", "completed", "cancelling", "backoff",
                 "observed", "cleanup", "history"}
RunFields == {"exists", "desired", "deleting", "finalizer", "generation", "valid", "status"}
PassFields == {"pc", "run", "before", "fresh", "requeue", "at"}

Terminal == {"Succeeded", "Failed", "Cancelled"}
Retried == {"TRANSIENT_DEPENDENCY", "INTERNAL"}

\* A status that reconciliations of a run may produce.
Sound(s, valid, ev) ==
    /\ DOMAIN s = StatusFields /\ DOMAIN s.history = Attempts
    /\ s.attempt \in 0..MaxAttempts
    /\ s.attempt = 0 => s.phase = ""
    /\ \A a \in 1..(s.attempt - 1) :
         /\ s.history[a].phase = "Failed"
         /\ s.history[a].failure \in Retryable \ {"EXECUTION", "POLICY"}
    /\ s.phase = "Failed" /\ s.failure \in Retried =>
         /\ s.history[s.attempt].phase = "Failed"
         /\ s.history[s.attempt].failure = s.failure
    /\ \A a \in Attempts : s.history[a].phase = "Succeeded" => a \in ev
    /\ ~valid => s.attempt <= 1 /\ (s.attempt = 1 => s.phase = "Failed")

\* The attempt a status is at, without Max.
Now(s) == IF s.attempt = 0 THEN 1 ELSE s.attempt

\* What may be written over a status.
Follows(before, s) ==
    /\ Now(before) <= Now(s)
    /\ before.attempt # 0 /\ before.phase \in Terminal =>
         \/ s.phase = before.phase /\ s.attempt = before.attempt
         \/ before.phase = "Failed" /\ s.attempt = before.attempt + 1

\* A pass that is working on the run's current attempt.
Working(m) ==
    /\ m.pc \in {"prepare", "job", "observe", "cancel"}
    /\ m.before.attempt # 0 => m.before.phase \notin Terminal
    /\ m.run.status.attempt = Now(m.before)
    /\ m.run.status.phase \notin Terminal

\* A pass: where it started, and what it has made of that.
PassSound(m, status, valid, ev) ==
    /\ DOMAIN m = PassFields /\ DOMAIN m.run = RunFields
    /\ Sound(m.before, valid, ev) /\ Sound(m.run.status, valid, ev)
    /\ m.fresh /\ m.pc # "release" => m.before = status
    /\ Now(m.before) <= Now(status)
    /\ \/ m.pc = "finalizer" /\ valid = TRUE /\ m.run.status = m.before
       \/ Working(m) /\ valid = TRUE
       \/ /\ m.pc = "cleanup"
          /\ m.run.status.phase = m.before.phase
          /\ m.run.status.attempt = m.before.attempt
       \/ m.pc = "patch" /\ Follows(m.before, m.run.status)
       \/ m.pc = "release"

\* The AgentRun, and what the informer has of it.
RunsSound(run, copy, same, ev) ==
    /\ DOMAIN run = RunFields /\ DOMAIN copy = RunFields
    /\ run.valid \in BOOLEAN /\ copy.valid = run.valid
    /\ Sound(run.status, run.valid, ev) /\ Sound(copy.status, run.valid, ev)
    /\ same => copy = run
    /\ Now(copy.status) <= Now(run.status)

\* The Jobs and the retained workspaces of a run with the given status.
ChildrenSound(js, seen, ps, status, ev) ==
    /\ js \in [Attempts -> JobStates] /\ seen \in [Attempts -> JobStates]
    /\ DOMAIN ps = Attempts
    /\ \A a \in Attempts : js[a] = "complete" \/ seen[a] = "complete" => a \in ev
    /\ \A a \in Attempts : js[a] # "absent" \/ ps[a] # "absent" => a <= Now(status)

OperatorInv ==
    /\ RunsSound(obj, cache, fresh, evidence)
    /\ ChildrenSound(jobs, jobCache, pvcs, obj.status, evidence)
    /\ me = Idle \/ PassSound(me, obj.status, obj.valid, evidence)

-----------------------------------------------------------------------------
(* What the pure parts of the reconciler make of a sound status. *)

\* currentAttempt is 1 until the first attempt is recorded.
LEMMA CurrentIsNow ==
    ASSUME NEW s, s.attempt \in Nat
    PROVE  CurrentAttempt(s) = Now(s)
<1>1. Max({s.attempt, 1}) \in {s.attempt, 1} /\ \A y \in {s.attempt, 1} : Max({s.attempt, 1}) >= y
  <2>1. \E x \in {s.attempt, 1} : \A y \in {s.attempt, 1} : x >= y
    <3>1. CASE s.attempt = 0  BY <3>1
    <3>2. CASE s.attempt # 0  BY <3>2
    <3> QED  BY <3>1, <3>2
  <2> QED  BY <2>1 DEF Max
<1> QED  BY <1>1 DEF CurrentAttempt, Now

\* A status is at no attempt past the last.
LEMMA Numbered ==
    ASSUME NEW s, NEW valid, NEW ev, Sound(s, valid, ev)
    PROVE  s.attempt \in Nat /\ s.attempt <= MaxAttempts /\ MaxAttempts \in Nat
<1>1. s.attempt \in 0..MaxAttempts  BY DEF Sound
<1> QED  BY <1>1, OperatorConstants

\* More evidence spoils no status.
LEMMA MoreEvidence ==
    ASSUME NEW s, NEW valid, NEW ev, NEW more, ev \subseteq more, Sound(s, valid, ev)
    PROVE  Sound(s, valid, more)
BY DEF Sound

\* A status that agrees with a sound one on what Sound tells apart is sound.
LEMMA SameOutcome ==
    ASSUME NEW s, NEW t, NEW valid, NEW ev, Sound(s, valid, ev),
           DOMAIN t = StatusFields, t.history = s.history, t.attempt = s.attempt,
           t.phase = s.phase, t.failure = s.failure
    PROVE  Sound(t, valid, ev) /\ Follows(s, t)
<1>1. Sound(t, valid, ev)  BY DEF Sound
<1>2. Now(s) <= Now(t)  BY Numbered DEF Now
<1> QED  BY <1>1, <1>2 DEF Follows

\* So is one whose phase is not terminal, at an attempt that is under way.
LEMMA UnderWay ==
    ASSUME NEW s, NEW t, NEW ev, Sound(s, TRUE, ev), DOMAIN t = StatusFields,
           t.history = s.history, t.attempt = Now(s),
           t.phase # "Failed" \/ t.failure \notin Retried
    PROVE  Sound(t, TRUE, ev)
<1>0. s.attempt \in Nat /\ s.attempt <= MaxAttempts /\ MaxAttempts \in Nat
  BY Numbered, Zenon
<1>1. t.attempt \in 0..MaxAttempts /\ t.attempt # 0  BY <1>0, OperatorConstants DEF Now
<1>2. \A a \in 1..(t.attempt - 1) : a \in 1..(s.attempt - 1)  BY <1>0 DEF Now
<1> QED  BY <1>1, <1>2 DEF Sound

\* upsertAttempt records the outcome of the current attempt only.
LEMMA UpsertSound ==
    ASSUME NEW s, NEW u, NEW ev, Sound(s, TRUE, ev), s.attempt # 0,
           DOMAIN u = StatusFields, u.history = s.history, u.attempt = s.attempt,
           u.phase = "Succeeded" => s.attempt \in ev
    PROVE  /\ Sound(Upsert(u), TRUE, ev)
           /\ Upsert(u).attempt = s.attempt
           /\ Upsert(u).phase = u.phase /\ Upsert(u).failure = u.failure
           /\ DOMAIN Upsert(u) = StatusFields
<1> DEFINE t == Upsert(u)
<1>0. s.attempt \in Nat /\ s.attempt <= MaxAttempts /\ MaxAttempts \in Nat
  BY Numbered, Zenon
<1>1. s.attempt \in Attempts /\ s.attempt \in Nat  BY <1>0 DEF Attempts
<1>2. CurrentAttempt(u) = s.attempt  BY <1>1, CurrentIsNow DEF Now, Attempts
<1>3. t = [u EXCEPT !.history = [@ EXCEPT ![s.attempt] = [phase |-> u.phase, failure |-> u.failure]]]
  BY <1>2 DEF Upsert
<1>4. /\ DOMAIN t = StatusFields /\ t.attempt = s.attempt
      /\ t.phase = u.phase /\ t.failure = u.failure
      /\ t.history = [s.history EXCEPT ![s.attempt] = [phase |-> u.phase, failure |-> u.failure]]
  BY <1>3 DEF StatusFields
<1>5. DOMAIN t.history = Attempts  BY <1>4 DEF Sound
<1>6. t.history[s.attempt] = [phase |-> u.phase, failure |-> u.failure]
  BY <1>1, <1>4 DEF Sound
<1>7. \A a \in Attempts : a # s.attempt => t.history[a] = s.history[a]
  BY <1>4 DEF Sound
<1> HIDE DEF t
<1>8. \A a \in 1..(t.attempt - 1) : a \in 1..(s.attempt - 1) /\ a # s.attempt /\ a \in Attempts
  <2>1. t.attempt = s.attempt /\ s.attempt <= MaxAttempts /\ MaxAttempts \in Nat
    BY <1>0, <1>4
  <2> QED  BY <1>1, <2>1 DEF Attempts
<1>9. Sound(t, TRUE, ev)
  <2>1. \A a \in Attempts : t.history[a].phase = "Succeeded" => a \in ev
    <3> SUFFICES ASSUME NEW a \in Attempts, t.history[a].phase = "Succeeded"
                 PROVE  a \in ev
      OBVIOUS
    <3>1. CASE a = s.attempt  BY <1>6, <3>1
    <3>2. CASE a # s.attempt  BY <1>7, <3>2 DEF Sound
    <3> QED  BY <3>1, <3>2
  <2>2. \A a \in 1..(t.attempt - 1) :
          /\ t.history[a].phase = "Failed"
          /\ t.history[a].failure \in Retryable \ {"EXECUTION", "POLICY"}
    BY <1>7, <1>8 DEF Sound
  <2>3. t.attempt \in 0..MaxAttempts /\ t.attempt # 0  BY <1>0, <1>4
  <2>4. t.history[t.attempt].phase = t.phase /\ t.history[t.attempt].failure = t.failure
    BY <1>4, <1>6
  <2> QED  BY <1>4, <1>5, <2>1, <2>2, <2>3, <2>4 DEF Sound
<1> QED  BY <1>4, <1>9 DEF t

\* projectLifecycle records what was observed of the current attempt.
LEMMA ProjectSound ==
    ASSUME NEW s, NEW o, NEW ev, Sound(s, TRUE, ev), s.attempt # 0,
           o.phase = "Succeeded" => s.attempt \in ev
    PROVE  /\ Sound(ProjectLifecycle(s, o), TRUE, ev)
           /\ ProjectLifecycle(s, o).attempt = s.attempt
<1> DEFINE u == ProjectedOnly(s, o)
<1>1. /\ DOMAIN u = StatusFields /\ u.history = s.history /\ u.attempt = s.attempt
      /\ u.phase = o.phase
  BY DEF ProjectedOnly, Sound, StatusFields
<1> HIDE DEF u
<1> QED  BY <1>1, UpsertSound DEF ProjectLifecycle, u

\* A retry is a new attempt after a recorded failure, or waits for its backoff.
LEMMA RetrySound ==
    ASSUME NEW s, NEW g, NEW ev, Sound(s, TRUE, ev), RetryAllowed(s)
    PROVE  /\ Sound(ReconcileRetry(s, g), TRUE, ev)
           /\ \/ /\ ReconcileRetry(s, g).phase = s.phase
                 /\ ReconcileRetry(s, g).attempt = s.attempt
              \/ s.phase = "Failed" /\ ReconcileRetry(s, g).attempt = s.attempt + 1
<1>0. s.attempt \in Nat /\ s.attempt < MaxAttempts /\ s.attempt # 0 /\ s.phase = "Failed"
  BY DEF Sound, RetryAllowed
<1>1. CASE ~("backoff" \in overdue /\ (s.completed \/ s.backoff))
  <2> DEFINE t == [s EXCEPT !.backoff = TRUE]
  <2>1. /\ DOMAIN t = StatusFields /\ t.history = s.history /\ t.attempt = s.attempt
        /\ t.phase = s.phase /\ t.failure = s.failure
    BY DEF Sound, StatusFields
  <2>2. ReconcileRetry(s, g) = t  BY <1>1 DEF ReconcileRetry
  <2> HIDE DEF t
  <2> QED  BY <2>1, <2>2, SameOutcome
<1>2. CASE "backoff" \in overdue /\ (s.completed \/ s.backoff)
  <2> DEFINE t == [s EXCEPT !.attempt = @ + 1, !.phase = "Pending", !.job = 0,
                            !.completed = FALSE, !.failure = NoFailure,
                            !.observed = g, !.backoff = FALSE]
  <2>1. /\ DOMAIN t = StatusFields /\ t.history = s.history /\ t.attempt = s.attempt + 1
        /\ t.phase = "Pending"
    BY DEF Sound, StatusFields
  <2>2. ReconcileRetry(s, g) = Upsert(t)  BY <1>2 DEF ReconcileRetry
  <2> HIDE DEF t
  <2>3. /\ s.history[s.attempt].phase = "Failed"
        /\ s.history[s.attempt].failure \in Retryable \ {"EXECUTION", "POLICY"}
    BY DEF Sound, RetryAllowed, Retried
  <2>4. \A a \in 1..(t.attempt - 1) : a \in 1..(s.attempt - 1) \/ a = s.attempt
    BY <1>0, <2>1
  <2>5. t.attempt \in 0..MaxAttempts /\ t.attempt # 0
    BY <1>0, <2>1, OperatorConstants
  <2>6. Sound(t, TRUE, ev)  BY <2>1, <2>3, <2>4, <2>5 DEF Sound
  <2>7. Sound(Upsert(t), TRUE, ev) /\ Upsert(t).attempt = t.attempt
    BY <2>1, <2>5, <2>6, UpsertSound
  <2> QED  BY <1>0, <2>1, <2>2, <2>7
<1> QED  BY <1>1, <1>2

-----------------------------------------------------------------------------
(* Moves of a pass. *)

\* A pass that has decided on a status goes on to patch it.
LEMMA ToPatch ==
    ASSUME NEW m, NEW status, NEW valid, NEW ev, NEW t, NEW q,
           PassSound(m, status, valid, ev), m.pc # "release",
           Sound(t, valid, ev), Follows(m.before, t)
    PROVE  PassSound([m EXCEPT !.pc = "patch", !.run.status = t, !.requeue = q],
                     status, valid, ev)
<1> DEFINE p == [m EXCEPT !.pc = "patch", !.run.status = t, !.requeue = q]
<1>1. /\ DOMAIN p = PassFields /\ DOMAIN p.run = RunFields /\ p.run.status = t
      /\ p.before = m.before /\ p.fresh = m.fresh /\ p.pc = "patch"
  BY DEF PassSound, PassFields, RunFields
<1> HIDE DEF p
<1>2. PassSound(p, status, valid, ev)  BY <1>1 DEF PassSound
<1> QED  BY <1>2 DEF p

\* Whatever comes of an attempt under way may be written over its start.
LEMMA WorkFollows ==
    ASSUME NEW m, NEW t, NEW ev, NEW status, PassSound(m, status, TRUE, ev), Working(m),
           t.attempt \in Nat, m.run.status.attempt <= t.attempt
    PROVE  Follows(m.before, t)
<1>1. Now(m.before) \in Nat /\ Now(m.before) # 0
  <2>1. m.before.attempt \in Nat  BY Numbered, Zenon DEF PassSound
  <2> QED  BY <2>1 DEF Now
<1>2. t.attempt # 0 /\ Now(m.before) <= t.attempt  BY <1>1 DEF Working
<1> QED  BY <1>2 DEF Working, Follows, Now

\* A pass at work on an attempt ends by patching what became of it.
LEMMA WorkPatched ==
    ASSUME NEW m, NEW t, NEW ev, NEW status, NEW q,
           PassSound(m, status, TRUE, ev), Working(m),
           Sound(t, TRUE, ev), m.run.status.attempt <= t.attempt
    PROVE  PassSound([m EXCEPT !.pc = "patch", !.run.status = t, !.requeue = q],
                     status, TRUE, ev)
<1>1. t.attempt \in Nat  BY Numbered, Zenon
<1>2. Follows(m.before, t)  BY <1>1, WorkFollows, Zenon
<1>3. m.pc # "release"  BY DEF Working
<1> QED  BY <1>2, <1>3, ToPatch, Zenon

\* A pass stays at work while its status keeps attempt and phase.
LEMMA WorkGoesOn ==
    ASSUME NEW m, NEW p, NEW ev, NEW status, PassSound(m, status, TRUE, ev),
           m.pc # "release",
           DOMAIN p = PassFields, DOMAIN p.run = RunFields,
           p.before = m.before, p.fresh = m.fresh, Working(p), Sound(p.run.status, TRUE, ev)
    PROVE  PassSound(p, status, TRUE, ev)
<1>1. p.pc # "release"  BY DEF Working
<1> QED  BY <1>1 DEF PassSound

\* Reconcile, once the finalizer is in place, starts from the status it read.
LEMMA DispatchSound ==
    ASSUME NEW m, NEW status, NEW ev, PassSound(m, status, TRUE, ev),
           m.pc \in {"finalizer", "patch"}, m.run.status = m.before
    PROVE  PassSound(Dispatch(m), status, TRUE, ev)
<1> DEFINE s == m.run.status
<1>1. Sound(s, TRUE, ev) /\ m.pc # "release"  BY DEF PassSound
<1>2. s.attempt \in Nat  BY <1>1, Numbered, Zenon
<1>3. CurrentAttempt(s) = Now(s)  BY <1>2, CurrentIsNow
<1>4. CASE /\ AttemptTerminal(s) /\ m.run.desired = "Running" /\ RetryAllowed(s)
  <2> DEFINE t == ReconcileRetry(s, m.run.generation)
  <2>1. /\ Sound(t, TRUE, ev)
        /\ (t.phase = s.phase /\ t.attempt = s.attempt)
             \/ (s.phase = "Failed" /\ t.attempt = s.attempt + 1)
    BY <1>1, <1>4, RetrySound
  <2>2. Dispatch(m) = [m EXCEPT !.pc = "patch", !.run.status = t, !.requeue = TRUE]
    BY <1>4 DEF Dispatch, Into
  <2> HIDE DEF t
  <2>3. Follows(s, t)
    <3>1. Now(s) <= Now(t)  BY <1>2, <2>1 DEF Now
    <3> QED  BY <2>1, <3>1 DEF Follows
  <2>4. Follows(m.before, t)  BY <2>3
  <2>5. PassSound([m EXCEPT !.pc = "patch", !.run.status = t, !.requeue = TRUE], status, TRUE, ev)
    BY <1>1, <2>1, <2>4, ToPatch, Zenon
  <2> QED  BY <2>2, <2>5, Zenon
<1>5. CASE ~(AttemptTerminal(s) /\ m.run.desired = "Running" /\ RetryAllowed(s))
  <2>0. Dispatch(m) = Continue(m)  BY <1>5 DEF Dispatch
  <2>1. CASE AttemptTerminal(s)
    <3> DEFINE t == Refreshed(m.run)
    <3>1. /\ DOMAIN t = StatusFields /\ t.history = s.history /\ t.attempt = s.attempt
          /\ t.phase = s.phase /\ t.failure = s.failure
      BY <1>1 DEF Refreshed, Sound, StatusFields
    <3>2. Dispatch(m) = [m EXCEPT !.pc = "patch", !.run.status = t, !.requeue = FALSE]
      BY <2>0, <2>1 DEF Continue, Into
    <3> HIDE DEF t
    <3>3. Sound(t, TRUE, ev) /\ Follows(s, t)  BY <1>1, <3>1, SameOutcome
    <3>4. Follows(m.before, t)  BY <3>3
    <3>5. PassSound([m EXCEPT !.pc = "patch", !.run.status = t, !.requeue = FALSE], status, TRUE, ev)
      BY <1>1, <3>3, <3>4, ToPatch, Zenon
    <3> QED  BY <3>2, <3>5, Zenon
  <2>2. CASE ~AttemptTerminal(s)
    <3> DEFINE cancel == m.run.desired = "Cancelled"
               t == IF cancel THEN Initialized(m.run) ELSE Accepted(m.run)
               p == Dispatch(m)
    <3>1. p = [m EXCEPT !.pc = IF cancel THEN "cancel" ELSE "prepare", !.run.status = t, !.requeue = FALSE]
      BY <2>0, <2>2 DEF Continue, Into
    <3>2. /\ DOMAIN t = StatusFields /\ t.history = s.history /\ t.attempt = Now(s)
          /\ t.phase = IF s.phase = "" THEN "Pending" ELSE s.phase
      BY <1>1, <1>3 DEF Initialized, Accepted, Sound, StatusFields
    <3>3. /\ DOMAIN p = PassFields /\ DOMAIN p.run = RunFields /\ p.run.status = t
          /\ p.before = m.before /\ p.fresh = m.fresh /\ p.pc \in {"prepare", "cancel"}
      BY <3>1 DEF PassSound, PassFields, RunFields
    <3> HIDE DEF t, p
    <3>4. s.attempt # 0 => s.phase \notin Terminal
      BY <1>3, <2>2 DEF AttemptTerminal, Now, Terminal
    <3>5. s.phase \notin Terminal
      BY <1>1, <3>4 DEF Sound, Terminal
    <3>6. t.phase \notin Terminal  BY <3>2, <3>5 DEF Terminal
    <3>7. t.phase # "Failed"  BY <3>6 DEF Terminal
    <3>8. Sound(t, TRUE, ev)  BY <1>1, <3>2, <3>7, UnderWay
    <3>9. Working(p)  BY <3>2, <3>3, <3>4, <3>6 DEF Working
    <3> QED  BY <1>1, <3>3, <3>8, <3>9, WorkGoesOn DEF p
  <2> QED  BY <2>1, <2>2
<1> QED  BY <1>4, <1>5

-----------------------------------------------------------------------------
(* The Jobs and workspaces. *)

\* A Job is only made or moved for an attempt that was recorded.
LEMMA JobSet ==
    ASSUME NEW js, NEW seen, NEW ps, NEW status, NEW ev, NEW a, NEW state \in JobStates,
           ChildrenSound(js, seen, ps, status, ev),
           state # "complete", js[a] # "absent" \/ a <= Now(status)
    PROVE  ChildrenSound([js EXCEPT ![a] = state], seen, ps, status, ev)
BY DEF ChildrenSound

\* So is a workspace.
LEMMA PvcSet ==
    ASSUME NEW js, NEW seen, NEW ps, NEW status, NEW ev, NEW a, NEW state,
           ChildrenSound(js, seen, ps, status, ev), a \in Attempts => a <= Now(status)
    PROVE  ChildrenSound(js, seen, [ps EXCEPT ![a] = state], status, ev)
BY DEF ChildrenSound

\* What is read of a Job, from the informer or not, was true of it.
LEMMA ReadSound ==
    ASSUME NEW a \in Attempts, OperatorInv
    PROVE  ReadJob(a) \in JobStates /\ (ReadJob(a) = "complete" => a \in evidence)
BY DEF OperatorInv, ChildrenSound, ReadJob

\* Only a Job that completed with evidence is observed to have succeeded.
LEMMA ObserveSound ==
    ASSUME NEW state \in JobStates, state \notin NoJob, NEW o \in Observe(state),
           o.phase = "Succeeded"
    PROVE  state = "complete"
<1>1. state \in {"pending", "unpullable", "rejected", "running", "terminating", "killed",
                 "complete", "unproven", "failed", "evicted"}
  BY DEF JobStates, NoJob, Ending, Live, Finished
<1>2. CASE state = "pending"  BY <1>2 DEF Observe, Waiting, Observation
<1>3. CASE state = "unpullable"  BY <1>3 DEF Observe, Waiting, Observation
<1>4. CASE state = "rejected"  BY <1>4 DEF Observe, Waiting, Observation
<1>5. CASE state \in {"running"} \union Ending
  <2>1. state \in {"running", "terminating", "killed"}  BY <1>5 DEF Ending
  <2> QED  BY <1>5, <2>1 DEF Observe, Waiting, Observation
<1>6. CASE state = "unproven"  BY <1>6 DEF Observe, Waiting, Observation, Ending
<1>7. CASE state = "failed"  BY <1>7 DEF Observe, Waiting, Observation, Ending
<1>8. CASE state = "evicted"  BY <1>8 DEF Observe, Waiting, Observation, Ending
<1> QED  BY <1>1, <1>2, <1>3, <1>4, <1>5, <1>6, <1>7, <1>8 DEF Ending

\* The attempt that a working pass is at has been recorded.
LEMMA HereCommitted ==
    ASSUME OperatorInv, me # Idle, Working(me)
    PROVE  /\ PassSound(me, obj.status, TRUE, evidence) /\ obj.valid = TRUE
           /\ Here \in Attempts /\ Here <= Now(obj.status)
           /\ Sound(me.run.status, TRUE, evidence)
<1>1. PassSound(me, obj.status, obj.valid, evidence)  BY DEF OperatorInv
<1>2. obj.valid = TRUE  BY <1>1 DEF PassSound, Working
<1>3. PassSound(me, obj.status, TRUE, evidence)  BY <1>1, <1>2, Zenon
<1>4. Sound(me.run.status, TRUE, evidence) /\ Sound(me.before, TRUE, evidence)
      /\ Now(me.before) <= Now(obj.status)
  BY <1>3, Zenon DEF PassSound
<1>5. me.run.status.attempt <= MaxAttempts /\ MaxAttempts \in Nat /\ me.before.attempt \in Nat
  BY <1>4, Numbered, Zenon
<1>6. Here = Now(me.before)  BY DEF Working, Here
<1>7. Here \in Nat /\ Here # 0 /\ Here <= MaxAttempts  BY <1>5, <1>6 DEF Now, Here
<1>8. Here \in Attempts /\ Here <= Now(obj.status)  BY <1>4, <1>5, <1>6, <1>7 DEF Attempts
<1> QED  BY <1>2, <1>3, <1>4, <1>8, Zenon

\* A step of a pass that writes no AgentRun.
LEMMA PassMoves ==
    ASSUME OperatorInv, UNCHANGED <<obj, cache, fresh, jobCache, evidence>>,
           ChildrenSound(jobs', jobCache, pvcs', obj.status, evidence),
           me' = Idle \/ PassSound(me', obj.status, obj.valid, evidence)
    PROVE  OperatorInv'
BY DEF OperatorInv

\* The same for a pass at work on an attempt.
LEMMA WorkMoves ==
    ASSUME OperatorInv, obj.valid = TRUE, UNCHANGED <<obj, cache, fresh, jobCache, evidence>>,
           ChildrenSound(jobs', jobCache, pvcs', obj.status, evidence),
           PassSound(me', obj.status, TRUE, evidence)
    PROVE  OperatorInv'
<1>1. PassSound(me', obj.status, obj.valid, evidence)  BY Zenon
<1> QED  BY <1>1, PassMoves

-----------------------------------------------------------------------------
(* Work on the current attempt. *)

\* The end of reconcilePrerequisites, with or without a retry.
LEMMA ProjectedSound ==
    ASSUME NEW s, NEW ev, NEW status, PassSound(me, status, TRUE, ev), Working(me),
           Sound(s, TRUE, ev), me.run.status.attempt = s.attempt
    PROVE  PassSound(Projected(s), status, TRUE, ev)
<1>0. s.attempt \in Nat  BY Numbered, Zenon
<1>1. CASE RetryAllowed(s)
  <2> DEFINE t == ReconcileRetry(s, me.run.generation)
  <2>1. /\ Sound(t, TRUE, ev)
        /\ (t.phase = s.phase /\ t.attempt = s.attempt)
             \/ (s.phase = "Failed" /\ t.attempt = s.attempt + 1)
    BY <1>1, RetrySound
  <2>2. Projected(s) = [me EXCEPT !.pc = "patch", !.run.status = t, !.requeue = TRUE]
    BY <1>1 DEF Projected, With
  <2> HIDE DEF t
  <2>3. me.run.status.attempt <= t.attempt  BY <1>0, <2>1
  <2>4. PassSound([me EXCEPT !.pc = "patch", !.run.status = t, !.requeue = TRUE], status, TRUE, ev)
    BY <2>1, <2>3, WorkPatched, Zenon
  <2> QED  BY <2>2, <2>4, Zenon
<1>2. CASE ~RetryAllowed(s)
  <2> DEFINE q == s.phase \in {"Provisioning", "Running"}
  <2>1. Projected(s) = [me EXCEPT !.pc = "patch", !.run.status = s, !.requeue = q]
    BY <1>2 DEF Projected, With
  <2> HIDE DEF q
  <2>2. me.run.status.attempt <= s.attempt  BY <1>0
  <2>3. PassSound([me EXCEPT !.pc = "patch", !.run.status = s, !.requeue = q], status, TRUE, ev)
    BY <2>2, WorkPatched, Zenon
  <2> QED  BY <2>1, <2>3, Zenon
<1> QED  BY <1>1, <1>2

\* A pass at work that patches a status which keeps attempt and history.
LEMMA WorkNoted ==
    ASSUME NEW t, NEW ev, NEW status, NEW q, PassSound(me, status, TRUE, ev), Working(me),
           DOMAIN t = StatusFields, t.history = me.run.status.history,
           t.attempt = me.run.status.attempt, t.phase # "Failed" \/ t.failure \notin Retried
    PROVE  PassSound(With("patch", t, q), status, TRUE, ev)
<1> DEFINE s == me.run.status
<1>1. Sound(s, TRUE, ev) /\ Sound(me.before, TRUE, ev)  BY Zenon DEF PassSound
<1>2. s.attempt \in Nat /\ me.before.attempt \in Nat  BY <1>1, Numbered, Zenon
<1>3. t.attempt = Now(s) /\ s.attempt <= t.attempt  BY <1>2 DEF Now, Working
<1>4. Sound(t, TRUE, ev)  BY <1>1, <1>3, UnderWay
<1>5. PassSound([me EXCEPT !.pc = "patch", !.run.status = t, !.requeue = q], status, TRUE, ev)
  BY <1>3, <1>4, WorkPatched, Zenon
<1> QED  BY <1>5, Zenon DEF With

\* recordPrerequisiteFailure and the wait for what is missing.
LEMMA PrerequisiteSound ==
    ASSUME NEW ev, NEW status, NEW kind, PassSound(me, status, TRUE, ev), Working(me)
    PROVE  /\ PassSound(PrerequisiteFailed(kind), status, TRUE, ev)
           /\ PassSound(Provisioning, status, TRUE, ev)
<1> DEFINE s == me.run.status
<1>0. DOMAIN s = StatusFields  BY Zenon DEF PassSound, Sound
<1>1. PassSound(PrerequisiteFailed(kind), status, TRUE, ev)
  <2>1. CASE kind = "permanent"
    <3> DEFINE t == [s EXCEPT !.phase = "Failed", !.failure = "POLICY"]
    <3>1. /\ DOMAIN t = StatusFields /\ t.history = s.history /\ t.attempt = s.attempt
          /\ t.failure \notin Retried
      BY <1>0 DEF StatusFields, Retried
    <3>2. PrerequisiteFailed(kind) = With("patch", t, FALSE)  BY <2>1 DEF PrerequisiteFailed
    <3> HIDE DEF t
    <3>3. PassSound(With("patch", t, FALSE), status, TRUE, ev)  BY <3>1, WorkNoted, Zenon
    <3> QED  BY <3>2, <3>3, Zenon
  <2>2. CASE kind # "permanent"
    <3> DEFINE t == [s EXCEPT !.phase = "Provisioning", !.failure = "TRANSIENT_DEPENDENCY"]
    <3>1. /\ DOMAIN t = StatusFields /\ t.history = s.history /\ t.attempt = s.attempt
          /\ t.phase # "Failed"
      BY <1>0 DEF StatusFields
    <3>2. PrerequisiteFailed(kind) = With("patch", t, TRUE)  BY <2>2 DEF PrerequisiteFailed
    <3> HIDE DEF t
    <3>3. PassSound(With("patch", t, TRUE), status, TRUE, ev)  BY <3>1, WorkNoted, Zenon
    <3> QED  BY <3>2, <3>3, Zenon
  <2> QED  BY <2>1, <2>2
<1>2. PassSound(Provisioning, status, TRUE, ev)
  <2> DEFINE t == [s EXCEPT !.phase = "Provisioning"]
  <2>1. /\ DOMAIN t = StatusFields /\ t.history = s.history /\ t.attempt = s.attempt
        /\ t.phase # "Failed"
    BY <1>0 DEF StatusFields
  <2>2. Provisioning = With("patch", t, TRUE)  BY DEF Provisioning
  <2> HIDE DEF t
  <2>3. PassSound(With("patch", t, TRUE), status, TRUE, ev)  BY <2>1, WorkNoted, Zenon
  <2> QED  BY <2>2, <2>3, Zenon
<1> QED  BY <1>1, <1>2, Zenon

\* Cancellation records that it began, failed or is complete.
LEMMA CancelSound ==
    ASSUME NEW ev, NEW status, NEW kind, NEW q, PassSound(me, status, TRUE, ev), Working(me)
    PROVE  /\ PassSound(With("patch", Cancelled(me.run.status), q), status, TRUE, ev)
           /\ PassSound(With("patch", Cancelling(me.run.status), q), status, TRUE, ev)
           /\ PassSound(CancelFailed(kind), status, TRUE, ev)
<1> DEFINE s == me.run.status
           d == [s EXCEPT !.phase = "Cancelled", !.completed = TRUE, !.cancelling = FALSE]
           begun == [s EXCEPT !.phase = "Cancelling", !.cancelling = TRUE]
           c == Upsert(begun)
           f == IF kind = "permanent" THEN "POLICY" ELSE "TRANSIENT_DEPENDENCY"
           t == [c EXCEPT !.failure = f]
           q2 == kind = "transient"
<1>0. DOMAIN s = StatusFields /\ Sound(s, TRUE, ev) /\ Sound(me.before, TRUE, ev)
  BY Zenon DEF PassSound, Sound
<1>1. /\ DOMAIN begun = StatusFields /\ begun.history = s.history /\ begun.attempt = s.attempt
      /\ begun.phase = "Cancelling"
      /\ DOMAIN d = StatusFields /\ d.history = s.history /\ d.attempt = s.attempt
      /\ d.phase = "Cancelled"
  BY <1>0 DEF StatusFields
<1>2. Cancelling(s) = c /\ Cancelled(s) = Upsert(d)
      /\ CancelFailed(kind) = With("patch", t, q2)
  BY DEF Cancelling, Cancelled, CancelFailed
<1> HIDE DEF begun, d, f, q2
<1>3. s.attempt \in Nat /\ s.attempt # 0
  <2>1. s.attempt \in Nat /\ me.before.attempt \in Nat  BY <1>0, Numbered, Zenon
  <2> QED  BY <2>1 DEF Working, Now
<1>4. /\ Sound(c, TRUE, ev) /\ c.attempt = s.attempt /\ c.phase = "Cancelling"
      /\ DOMAIN c = StatusFields
  <2>1. begun.phase = "Succeeded" => s.attempt \in ev  BY <1>1
  <2>2. Sound(Upsert(begun), TRUE, ev) /\ Upsert(begun).attempt = s.attempt
    BY <1>0, <1>1, <1>3, <2>1, UpsertSound
  <2>3. Upsert(begun).phase = begun.phase
    BY <1>0, <1>1, <1>3, <2>1, UpsertSound
  <2>4. DOMAIN Upsert(begun) = StatusFields
    BY <2>2, Zenon DEF Sound
  <2> QED  BY <1>1, <2>2, <2>3, <2>4
<1>5. Sound(Upsert(d), TRUE, ev) /\ Upsert(d).attempt = s.attempt
  BY <1>0, <1>1, <1>3, UpsertSound
<1> HIDE DEF c
<1>6. /\ DOMAIN t = StatusFields /\ t.history = c.history /\ t.attempt = c.attempt
      /\ t.phase # "Failed"
  BY <1>4 DEF StatusFields
<1> HIDE DEF t
<1>7. t.attempt = Now(c)  BY <1>3, <1>4, <1>6 DEF Now
<1>8. Sound(t, TRUE, ev)  BY <1>4, <1>6, <1>7, UnderWay
<1>9. s.attempt <= c.attempt /\ s.attempt <= Upsert(d).attempt /\ s.attempt <= t.attempt
  BY <1>3, <1>4, <1>5, <1>6
<1>10. PassSound(With("patch", Upsert(d), q), status, TRUE, ev)
  BY <1>5, <1>9, WorkPatched, Zenon DEF With
<1>11. PassSound(With("patch", c, q), status, TRUE, ev)
  BY <1>4, <1>9, WorkPatched, Zenon DEF With
<1>12. PassSound(With("patch", t, q2), status, TRUE, ev)
  BY <1>8, <1>9, WorkPatched, Zenon DEF With
<1> QED  BY <1>2, <1>10, <1>11, <1>12, Zenon

-----------------------------------------------------------------------------
(* The steps of the reconciler. *)

\* A pass that is anywhere is sound.
LEMMA PassHere ==
    ASSUME OperatorInv, me.pc # "idle"
    PROVE  me # Idle /\ PassSound(me, obj.status, obj.valid, evidence)
<1>1. Idle.pc = "idle"  BY DEF Idle
<1> QED  BY <1>1 DEF OperatorInv

\* Where a pass at work stands tells that it is.
LEMMA AtWork ==
    ASSUME OperatorInv, me.pc \in {"prepare", "job", "observe", "cancel"}
    PROVE  me # Idle /\ Working(me)
<1>1. me # Idle /\ PassSound(me, obj.status, obj.valid, evidence)  BY PassHere
<1> QED  BY <1>1 DEF PassSound

\* What the pass reads first.
LEMMA LoadedSound ==
    ASSUME OperatorInv
    PROVE  /\ PassSound(Loaded, obj.status, obj.valid, evidence)
           /\ Loaded.run = cache /\ Loaded.before = cache.status /\ Loaded.pc = "patch"
           /\ Loaded.fresh = fresh /\ DOMAIN Loaded = PassFields
<1> DEFINE m == Loaded
<1>1. /\ m.run = cache /\ m.before = cache.status /\ m.pc = "patch" /\ m.fresh = fresh
      /\ DOMAIN m = PassFields
  BY DEF Loaded, PassFields
<1> HIDE DEF m
<1>2. /\ Sound(cache.status, obj.valid, evidence) /\ DOMAIN cache = RunFields
      /\ Now(cache.status) <= Now(obj.status) /\ (fresh => cache.status = obj.status)
  BY DEF OperatorInv, RunsSound
<1>3. DOMAIN cache.status = StatusFields  BY <1>2 DEF Sound
<1>4. Follows(cache.status, cache.status)  BY <1>2, <1>3, SameOutcome
<1>5. PassSound(m, obj.status, obj.valid, evidence)  BY <1>1, <1>2, <1>4 DEF PassSound
<1> QED  BY <1>1, <1>5 DEF m

\* A pass starts from what the informer has.
LEMMA FetchStep ==
    ASSUME OperatorInv, Fetch
    PROVE  OperatorInv'
<1> DEFINE s == cache.status
<1>0. /\ PassSound(Loaded, obj.status, obj.valid, evidence)
      /\ Loaded.run = cache /\ Loaded.before = s /\ Loaded.pc = "patch"
      /\ Loaded.fresh = fresh /\ DOMAIN Loaded = PassFields
  BY LoadedSound
<1>1. /\ Sound(s, obj.valid, evidence) /\ DOMAIN cache = RunFields
      /\ obj.valid \in BOOLEAN /\ cache.valid = obj.valid
      /\ DOMAIN s = StatusFields
  BY DEF OperatorInv, RunsSound, Sound
<1>2. PassSound(me', obj.status, obj.valid, evidence)
  <2>1. CASE cache.deleting
    <3> DEFINE t == Deleting(cache)
               p == [Loaded EXCEPT !.pc = "cleanup", !.run.status = t]
    <3>1. me' = p  BY <2>1 DEF Fetch
    <3>2. /\ DOMAIN t = StatusFields /\ t.history = s.history /\ t.attempt = s.attempt
          /\ t.phase = s.phase /\ t.failure = s.failure
      BY <1>1 DEF Deleting, StatusFields
    <3>3. /\ DOMAIN p = PassFields /\ DOMAIN p.run = RunFields /\ p.run.status = t
          /\ p.before = Loaded.before /\ p.fresh = Loaded.fresh /\ p.pc = "cleanup"
      BY <1>0, <1>1 DEF PassFields, RunFields
    <3> HIDE DEF t, p
    <3>4. Sound(t, obj.valid, evidence)  BY <1>1, <3>2, SameOutcome
    <3>5. PassSound(p, obj.status, obj.valid, evidence)
      BY <1>0, <3>2, <3>3, <3>4 DEF PassSound
    <3> QED  BY <3>1, <3>5
  <2>2. CASE ~cache.deleting /\ ~cache.valid
    <3> DEFINE t == Invalid(cache)
               p == [Loaded EXCEPT !.run.status = t]
    <3>1. me' = p  BY <2>2 DEF Fetch, ValidateAgentRun
    <3>2. /\ DOMAIN t = StatusFields /\ t.history = s.history /\ t.attempt = 1
          /\ t.phase = "Failed" /\ t.failure \notin Retried
      BY <1>1 DEF Invalid, StatusFields, Retried
    <3>3. /\ DOMAIN p = PassFields /\ DOMAIN p.run = RunFields /\ p.run.status = t
          /\ p.before = Loaded.before /\ p.fresh = Loaded.fresh /\ p.pc = "patch"
      BY <1>0, <1>1 DEF PassFields, RunFields
    <3> HIDE DEF t, p
    <3>4. s.attempt \in Nat /\ MaxAttempts \in Nat \ {0}  BY <1>1, Numbered, OperatorConstants
    <3>5. s.attempt <= 1 /\ (s.attempt = 1 => s.phase = "Failed")
      BY <1>1, <2>2 DEF Sound
    <3>6. /\ t.attempt \in 0..MaxAttempts /\ t.attempt # 0 /\ t.attempt <= 1
          /\ \A a \in 1..(t.attempt - 1) : FALSE
      BY <3>2, <3>4
    <3>7. Sound(t, obj.valid, evidence)
      <4>1. \A a \in Attempts : t.history[a].phase = "Succeeded" => a \in evidence
        BY <1>1, <3>2 DEF Sound
      <4>2. DOMAIN t.history = Attempts  BY <1>1, <3>2 DEF Sound
      <4> QED  BY <3>2, <3>6, <4>1, <4>2 DEF Sound
    <3>8. Follows(s, t)
      <4>1. Now(s) <= Now(t)  BY <3>2, <3>4, <3>5 DEF Now
      <4>2. s.attempt = 0 \/ s.attempt = 1  BY <3>4, <3>5
      <4> QED  BY <3>2, <3>5, <4>1, <4>2 DEF Follows
    <3>9. PassSound(p, obj.status, obj.valid, evidence)
      BY <1>0, <3>3, <3>7, <3>8 DEF PassSound
    <3> QED  BY <3>1, <3>9
  <2>3. CASE ~cache.deleting /\ cache.valid
    <3>0. obj.valid = TRUE  BY <1>1, <2>3
    <3>1. PassSound(Loaded, obj.status, TRUE, evidence)  BY <1>0, <3>0, Zenon
    <3>2. CASE Retain /\ ~cache.finalizer
      <4> DEFINE p == [Loaded EXCEPT !.pc = "finalizer"]
      <4>1. me' = p  BY <2>3, <3>2 DEF Fetch, ValidateAgentRun
      <4>2. /\ DOMAIN p = PassFields /\ p.run = Loaded.run
            /\ p.before = Loaded.before /\ p.fresh = Loaded.fresh /\ p.pc = "finalizer"
        BY <1>0 DEF PassFields
      <4> HIDE DEF p
      <4>3. PassSound(p, obj.status, obj.valid, evidence)
        BY <1>0, <3>0, <4>2 DEF PassSound
      <4> QED  BY <4>1, <4>3
    <3>3. CASE ~(Retain /\ ~cache.finalizer)
      <4>1. me' = Dispatch(Loaded)  BY <2>3, <3>3 DEF Fetch, ValidateAgentRun
      <4>2. Loaded.run.status = Loaded.before /\ Loaded.pc \in {"finalizer", "patch"}  BY <1>0
      <4>3. PassSound(Dispatch(Loaded), obj.status, TRUE, evidence)
        BY <3>1, <4>2, DispatchSound, Zenon
      <4> QED  BY <3>0, <4>1, <4>3, Zenon
    <3> QED  BY <3>2, <3>3
  <2> QED  BY <2>1, <2>2, <2>3
<1>3. /\ UNCHANGED <<obj, cache, fresh, jobCache, evidence>>
      /\ jobs' = jobs /\ pvcs' = pvcs
  BY DEF Fetch, kube, outside
<1>4. ChildrenSound(jobs', jobCache, pvcs', obj.status, evidence)
  BY <1>3 DEF OperatorInv
<1> QED  BY <1>2, <1>3, <1>4, PassMoves

\* Nothing but the work queue changes.
LEMMA NothingStep ==
    ASSUME OperatorInv, FetchNothing
    PROVE  OperatorInv'
BY DEF FetchNothing, kube, outside, OperatorInv

\* The workspace of a recorded attempt may be claimed.
LEMMA ClaimSound ==
    ASSUME OperatorInv, Here <= Now(obj.status), Claim(Here)
    PROVE  ChildrenSound(jobs, jobCache, pvcs', obj.status, evidence)
<1> DEFINE ps == [pvcs EXCEPT ![Here] = "retained"]
<1>1. pvcs' = pvcs \/ pvcs' = ps  BY DEF Claim
<1>2. ChildrenSound(jobs, jobCache, pvcs, obj.status, evidence)  BY DEF OperatorInv
<1>3. ChildrenSound(jobs, jobCache, ps, obj.status, evidence)  BY <1>2, PvcSet
<1> QED  BY <1>1, <1>2, <1>3, Zenon

\* The claim of the workspace, and the wait for what the Job needs.
LEMMA PrepareStep ==
    ASSUME OperatorInv, Prepare
    PROVE  OperatorInv'
<1>1. me # Idle /\ Working(me)  BY AtWork DEF Prepare
<1>2. /\ PassSound(me, obj.status, TRUE, evidence) /\ obj.valid = TRUE
      /\ Here <= Now(obj.status) /\ Sound(me.run.status, TRUE, evidence)
  BY <1>1, HereCommitted
<1>3. /\ PassSound(PrerequisiteFailed("transient"), obj.status, TRUE, evidence)
      /\ PassSound(Provisioning, obj.status, TRUE, evidence)
  BY <1>1, <1>2, PrerequisiteSound, Zenon
<1>4. UNCHANGED <<obj, cache, fresh, jobCache, evidence>> /\ jobs' = jobs
  BY DEF Prepare, outside
<1>5. ChildrenSound(jobs', jobCache, pvcs', obj.status, evidence)
  <2>1. ChildrenSound(jobs, jobCache, pvcs, obj.status, evidence)  BY DEF OperatorInv
  <2>2. pvcs' = pvcs \/ Claim(Here)  BY DEF Prepare
  <2>3. Claim(Here) => ChildrenSound(jobs, jobCache, pvcs', obj.status, evidence)
    BY <1>2, ClaimSound
  <2> QED  BY <1>4, <2>1, <2>2, <2>3
<1>6. PassSound([me EXCEPT !.pc = "job"], obj.status, TRUE, evidence)
  <2> DEFINE p == [me EXCEPT !.pc = "job"]
  <2>1. /\ DOMAIN p = PassFields /\ p.run = me.run /\ p.before = me.before
        /\ p.fresh = me.fresh /\ p.pc = "job"
    BY <1>2 DEF PassSound, PassFields
  <2>2. DOMAIN me.run = RunFields  BY <1>2 DEF PassSound
  <2> HIDE DEF p
  <2>3. Working(p) /\ me.pc # "release"  BY <1>1, <2>1 DEF Working
  <2>4. PassSound(p, obj.status, TRUE, evidence)  BY <1>2, <2>1, <2>2, <2>3, WorkGoesOn
  <2> QED  BY <2>4 DEF p
<1>7. \/ me' = Provisioning \/ me' = PrerequisiteFailed("transient")
      \/ me' = [me EXCEPT !.pc = "job"]
  BY DEF Prepare, Goto
<1>8. PassSound(me', obj.status, TRUE, evidence)  BY <1>3, <1>6, <1>7, Zenon
<1> QED  BY <1>2, <1>4, <1>5, <1>8, WorkMoves

\* The projection of an observation onto the attempt at hand.
LEMMA ObservedSound ==
    ASSUME NEW o, NEW ev, NEW status, PassSound(me, status, TRUE, ev), Working(me),
           Here \in Attempts, Sound(me.run.status, TRUE, ev),
           o.phase = "Succeeded" => Here \in ev
    PROVE  /\ PassSound(Projected(ProjectLifecycle(me.run.status, o)), status, TRUE, ev)
           /\ PassSound(With("patch", ProjectLifecycle(me.run.status, o), FALSE), status, TRUE, ev)
<1> DEFINE s == me.run.status
           t == ProjectLifecycle(s, o)
<1>1. s.attempt \in Nat /\ s.attempt # 0  BY DEF Here, Attempts
<1>2. Sound(t, TRUE, ev) /\ t.attempt = s.attempt  BY <1>1, ProjectSound DEF Here
<1> HIDE DEF t
<1>3. PassSound(Projected(t), status, TRUE, ev)  BY <1>2, ProjectedSound, Zenon
<1>4. s.attempt <= t.attempt  BY <1>1, <1>2
<1>5. PassSound(With("patch", t, FALSE), status, TRUE, ev)
  BY <1>2, <1>4, WorkPatched, Zenon DEF With
<1> QED  BY <1>3, <1>5, Zenon DEF t

\* The Job is not there.
LEMMA MissingStep ==
    ASSUME OperatorInv, JobMissing
    PROVE  OperatorInv'
<1> DEFINE o == Observation("Failed", "INTERNAL", me.run.status.completed)
<1>1. me # Idle /\ Working(me)  BY AtWork DEF JobMissing
<1>2. /\ PassSound(me, obj.status, TRUE, evidence) /\ obj.valid = TRUE
      /\ Here \in Attempts /\ Sound(me.run.status, TRUE, evidence)
  BY <1>1, HereCommitted, Zenon
<1>3. me' = Projected(ProjectLifecycle(me.run.status, o))
  BY DEF JobMissing, Goto
<1>4. o.phase = "Succeeded" => Here \in evidence  BY DEF Observation
<1> HIDE DEF o
<1>5. PassSound(me', obj.status, TRUE, evidence)
  BY <1>1, <1>2, <1>3, <1>4, ObservedSound, Zenon
<1>6. UNCHANGED <<obj, cache, fresh, jobCache, evidence>> /\ jobs' = jobs /\ pvcs' = pvcs
  BY DEF JobMissing, kube, outside
<1>7. ChildrenSound(jobs', jobCache, pvcs', obj.status, evidence)
  BY <1>6 DEF OperatorInv
<1> QED  BY <1>2, <1>5, <1>6, <1>7, WorkMoves

\* The Job of a recorded attempt may be applied.
LEMMA ApplySound ==
    ASSUME OperatorInv, Here <= Now(obj.status), Apply(Here)
    PROVE  ChildrenSound(jobs', jobCache, pvcs, obj.status, evidence)
<1>1. jobs' = jobs \/ jobs' = [jobs EXCEPT ![Here] = "pending"]  BY DEF Apply
<1>2. "pending" \in JobStates  BY DEF JobStates, Live
<1>3. ChildrenSound(jobs, jobCache, pvcs, obj.status, evidence)  BY DEF OperatorInv
<1> QED  BY <1>1, <1>2, <1>3, JobSet

\* So may it be deleted.
LEMMA DeleteSound ==
    ASSUME OperatorInv, Here <= Now(obj.status), NEW forced, Delete(Here, forced)
    PROVE  ChildrenSound(jobs', jobCache, pvcs, obj.status, evidence)
<1>1. \/ jobs' = jobs \/ jobs' = [jobs EXCEPT ![Here] = "killed"]
      \/ jobs' = [jobs EXCEPT ![Here] = "terminating"]
  BY DEF Delete
<1>2. "killed" \in JobStates /\ "terminating" \in JobStates  BY DEF JobStates, Live, Ending
<1>3. ChildrenSound(jobs, jobCache, pvcs, obj.status, evidence)  BY DEF OperatorInv
<1> QED  BY <1>1, <1>2, <1>3, JobSet

\* The Job is created or found.
LEMMA EnsureStep ==
    ASSUME OperatorInv, EnsureJob
    PROVE  OperatorInv'
<1> DEFINE p == [me EXCEPT !.pc = "observe", !.run.status.job = Here]
           s == me.run.status
<1>1. me # Idle /\ Working(me)  BY AtWork DEF EnsureJob
<1>2. /\ PassSound(me, obj.status, TRUE, evidence) /\ obj.valid = TRUE
      /\ Here <= Now(obj.status) /\ Sound(s, TRUE, evidence)
  BY <1>1, HereCommitted, Zenon
<1>3. UNCHANGED <<obj, cache, fresh, jobCache, evidence>> /\ pvcs' = pvcs /\ me' = p
  BY DEF EnsureJob, outside, Goto
<1>4. ChildrenSound(jobs', jobCache, pvcs', obj.status, evidence)
  BY <1>2, <1>3, ApplySound DEF EnsureJob
<1>5. DOMAIN me = PassFields /\ DOMAIN me.run = RunFields /\ DOMAIN s = StatusFields
  BY <1>2, Zenon DEF PassSound, Sound
<1>6. /\ DOMAIN p = PassFields /\ DOMAIN p.run = RunFields /\ p.before = me.before
      /\ p.fresh = me.fresh /\ p.pc = "observe" /\ DOMAIN p.run.status = StatusFields
      /\ p.run.status.history = s.history /\ p.run.status.attempt = s.attempt
      /\ p.run.status.phase = s.phase /\ p.run.status.failure = s.failure
  BY <1>5 DEF PassFields, RunFields, StatusFields
<1> HIDE DEF p
<1>7. Sound(p.run.status, TRUE, evidence)  BY <1>2, <1>6, SameOutcome
<1>8. Working(p) /\ me.pc # "release"  BY <1>1, <1>6 DEF Working
<1>9. PassSound(p, obj.status, TRUE, evidence)  BY <1>2, <1>6, <1>7, <1>8, WorkGoesOn
<1>10. PassSound(me', obj.status, TRUE, evidence)  BY <1>3, <1>9, Zenon
<1> QED  BY <1>2, <1>3, <1>4, <1>10, WorkMoves

\* What is observed of the attempt's Job.
LEMMA ObservationIsTrue ==
    ASSUME OperatorInv, Here \in Attempts, ReadJob(Here) \notin NoJob,
           NEW o \in Observe(ReadJob(Here))
    PROVE  o.phase = "Succeeded" => Here \in evidence
<1>1. ReadJob(Here) \in JobStates /\ (ReadJob(Here) = "complete" => Here \in evidence)
  BY ReadSound
<1> QED  BY <1>1, ObserveSound

\* The Job is observed.
LEMMA ObserveStep ==
    ASSUME OperatorInv, ObserveJob
    PROVE  OperatorInv'
<1>1. me # Idle /\ Working(me)  BY AtWork DEF ObserveJob
<1>2. /\ PassSound(me, obj.status, TRUE, evidence) /\ obj.valid = TRUE
      /\ Here \in Attempts /\ Sound(me.run.status, TRUE, evidence)
  BY <1>1, HereCommitted, Zenon
<1>3. PassSound(me', obj.status, TRUE, evidence)
  <2>1. CASE ReadJob(Here) \in NoJob
    <3>1. me' = PrerequisiteFailed("transient")  BY <2>1 DEF ObserveJob, Goto
    <3>2. PassSound(PrerequisiteFailed("transient"), obj.status, TRUE, evidence)
      BY <1>1, <1>2, PrerequisiteSound, Zenon
    <3> QED  BY <3>1, <3>2, Zenon
  <2>2. CASE ReadJob(Here) \notin NoJob
    <3>1. PICK o \in Observe(ReadJob(Here)) :
             me' = Projected(ProjectLifecycle(me.run.status, o))
      BY <2>2 DEF ObserveJob, Goto
    <3>2. o.phase = "Succeeded" => Here \in evidence  BY <1>2, <2>2, ObservationIsTrue
    <3>3. PassSound(Projected(ProjectLifecycle(me.run.status, o)), obj.status, TRUE, evidence)
      BY <1>1, <1>2, <3>2, ObservedSound, Zenon
    <3> QED  BY <3>1, <3>3, Zenon
  <2> QED  BY <2>1, <2>2
<1>4. UNCHANGED <<obj, cache, fresh, jobCache, evidence>> /\ jobs' = jobs /\ pvcs' = pvcs
  BY DEF ObserveJob, kube, outside
<1>5. ChildrenSound(jobs', jobCache, pvcs', obj.status, evidence)
  BY <1>4 DEF OperatorInv
<1> QED  BY <1>2, <1>3, <1>4, <1>5, WorkMoves

\* There is no Job to cancel.
LEMMA CancelAbsentStep ==
    ASSUME OperatorInv, CancelAbsent
    PROVE  OperatorInv'
<1>1. me # Idle /\ Working(me)  BY AtWork DEF CancelAbsent
<1>2. PassSound(me, obj.status, TRUE, evidence) /\ obj.valid = TRUE
  BY <1>1, HereCommitted, Zenon
<1>3. me' = With("patch", Cancelled(me.run.status), FALSE)  BY DEF CancelAbsent, Goto
<1>4. PassSound(me', obj.status, TRUE, evidence)
  BY <1>1, <1>2, <1>3, CancelSound, Zenon
<1>5. UNCHANGED <<obj, cache, fresh, jobCache, evidence>> /\ jobs' = jobs /\ pvcs' = pvcs
  BY DEF CancelAbsent, kube, outside
<1>6. ChildrenSound(jobs', jobCache, pvcs', obj.status, evidence)
  BY <1>5 DEF OperatorInv
<1> QED  BY <1>2, <1>4, <1>5, <1>6, WorkMoves

\* The Job to cancel is deleted, or awaited.
LEMMA CancelPresentStep ==
    ASSUME OperatorInv, CancelPresent
    PROVE  OperatorInv'
<1>1. me # Idle /\ Working(me)  BY AtWork DEF CancelPresent
<1>2. /\ PassSound(me, obj.status, TRUE, evidence) /\ obj.valid = TRUE
      /\ Here \in Attempts /\ Here <= Now(obj.status)
      /\ Sound(me.run.status, TRUE, evidence)
  BY <1>1, HereCommitted, Zenon
<1>3. UNCHANGED <<obj, cache, fresh, jobCache, evidence>> /\ pvcs' = pvcs
  BY DEF CancelPresent, outside
<1>4. ReadJob(Here) \notin NoJob  BY DEF CancelPresent
<1>5. PICK o \in Observe(ReadJob(Here)) :
        \/ /\ me' = With("patch", ProjectLifecycle(me.run.status, o), FALSE)
           /\ jobs' = jobs
        \/ /\ me' = With("patch", Cancelling(me.run.status), TRUE)
           /\ Delete(Here, me.run.status.cancelling /\ "cancellation" \in overdue)
  BY DEF CancelPresent, Goto
<1>6. o.phase = "Succeeded" => Here \in evidence  BY <1>2, <1>4, ObservationIsTrue
<1>7. PassSound(With("patch", ProjectLifecycle(me.run.status, o), FALSE), obj.status, TRUE, evidence)
  BY <1>1, <1>2, <1>6, ObservedSound, Zenon
<1>8. PassSound(With("patch", Cancelling(me.run.status), TRUE), obj.status, TRUE, evidence)
  BY <1>1, <1>2, CancelSound, Zenon
<1>9. PassSound(me', obj.status, TRUE, evidence)  BY <1>5, <1>7, <1>8, Zenon
<1>10. ChildrenSound(jobs', jobCache, pvcs', obj.status, evidence)
  <2>1. CASE jobs' = jobs  BY <1>3, <2>1 DEF OperatorInv
  <2>2. CASE Delete(Here, me.run.status.cancelling /\ "cancellation" \in overdue)
    <3> DEFINE forced == me.run.status.cancelling /\ "cancellation" \in overdue
    <3>1. Delete(Here, forced)  BY <2>2
    <3> HIDE DEF forced
    <3>2. ChildrenSound(jobs', jobCache, pvcs, obj.status, evidence)
      BY <1>2, <3>1, DeleteSound, Zenon
    <3> QED  BY <1>3, <3>2
  <2> QED  BY <1>5, <2>1, <2>2
<1> QED  BY <1>2, <1>3, <1>9, <1>10, WorkMoves

-----------------------------------------------------------------------------
(* Clean-up, and the writes of the AgentRun. *)

\* A clean-up notes how far it is and leaves the outcome alone.
LEMMA CleanedSound ==
    ASSUME OperatorInv, me.pc = "cleanup", NEW state
    PROVE  PassSound(Cleaned(state), obj.status, obj.valid, evidence)
<1> DEFINE s == me.run.status
           t == [s EXCEPT !.cleanup = state]
<1>1. me # Idle /\ PassSound(me, obj.status, obj.valid, evidence)  BY PassHere
<1>2. /\ Sound(s, obj.valid, evidence) /\ Sound(me.before, obj.valid, evidence)
      /\ DOMAIN s = StatusFields
  BY <1>1 DEF PassSound, Sound
<1>3. s.phase = me.before.phase /\ s.attempt = me.before.attempt
  BY <1>1 DEF PassSound, Working
<1>4. /\ DOMAIN t = StatusFields /\ t.history = s.history /\ t.attempt = s.attempt
      /\ t.phase = s.phase /\ t.failure = s.failure
  BY <1>2 DEF StatusFields
<1>5. Cleaned(state) = [me EXCEPT !.pc = "patch", !.run.status = t, !.requeue = TRUE]
  BY DEF Cleaned, With
<1> HIDE DEF t
<1>6. Sound(t, obj.valid, evidence)  BY <1>2, <1>4, SameOutcome
<1>7. Follows(me.before, t)
  <2>1. Now(me.before) <= Now(t)  BY <1>2, <1>3, <1>4, Numbered DEF Now
  <2> QED  BY <1>3, <1>4, <2>1 DEF Follows
<1>8. PassSound([me EXCEPT !.pc = "patch", !.run.status = t, !.requeue = TRUE],
                obj.status, obj.valid, evidence)
  <2>1. me.pc # "release"  OBVIOUS
  <2> QED  BY <1>1, <1>6, <1>7, <2>1, ToPatch, Zenon
<1> QED  BY <1>5, <1>8, Zenon

\* Only workspaces of recorded attempts are handed over.
LEMMA ReleaseSound ==
    ASSUME OperatorInv, me.pc = "cleanup", me.at <= CurrentAttempt(me.run.status)
    PROVE  ChildrenSound(jobs, jobCache, [pvcs EXCEPT ![me.at] = "released"], obj.status, evidence)
<1>1. me # Idle /\ PassSound(me, obj.status, obj.valid, evidence)  BY PassHere
<1>2. /\ Sound(me.run.status, obj.valid, evidence) /\ Sound(me.before, obj.valid, evidence)
      /\ me.run.status.attempt = me.before.attempt /\ Now(me.before) <= Now(obj.status)
  BY <1>1 DEF PassSound, Working
<1>3. ChildrenSound(jobs, jobCache, pvcs, obj.status, evidence) /\ Sound(obj.status, obj.valid, evidence)
  BY DEF OperatorInv, RunsSound
<1>4. me.before.attempt \in Nat /\ obj.status.attempt \in Nat /\ me.run.status.attempt \in Nat
  BY <1>2, <1>3, Numbered
<1>5. CurrentAttempt(me.run.status) = Now(me.run.status)  BY <1>4, CurrentIsNow
<1>6. me.at \in Attempts => me.at <= Now(obj.status)
  BY <1>2, <1>4, <1>5 DEF Now, Attempts
<1> QED  BY <1>3, <1>6, PvcSet

\* One attempt is cleaned up, or all are.
LEMMA CleanupStep ==
    ASSUME OperatorInv, CleanupNext \/ CleanupDone
    PROVE  OperatorInv'
<1>1. me.pc = "cleanup"  BY DEF CleanupNext, CleanupDone
<1>2. me # Idle /\ PassSound(me, obj.status, obj.valid, evidence)  BY <1>1, PassHere
<1>3. /\ PassSound(CleanupFailed, obj.status, obj.valid, evidence)
      /\ PassSound(Cleaned("complete"), obj.status, obj.valid, evidence)
  BY <1>1, CleanedSound DEF CleanupFailed
<1>4. PassSound([me EXCEPT !.at = @ + 1], obj.status, obj.valid, evidence)
  <2> DEFINE p == [me EXCEPT !.at = @ + 1]
  <2>1. /\ DOMAIN p = PassFields /\ p.run = me.run /\ p.before = me.before
        /\ p.fresh = me.fresh /\ p.pc = me.pc
    BY <1>2 DEF PassSound, PassFields
  <2> HIDE DEF p
  <2>2. PassSound(p, obj.status, obj.valid, evidence)
    BY <1>1, <1>2, <2>1 DEF PassSound, Working
  <2> QED  BY <2>2 DEF p
<1>5. \/ me' = [me EXCEPT !.at = @ + 1] \/ me' = CleanupFailed \/ me' = Cleaned("complete")
  BY DEF CleanupNext, CleanupDone, Goto
<1>6. PassSound(me', obj.status, obj.valid, evidence)  BY <1>3, <1>4, <1>5, Zenon
<1>7. UNCHANGED <<obj, cache, fresh, jobCache, evidence>> /\ jobs' = jobs
  BY DEF CleanupNext, CleanupDone, kube, outside
<1>8. ChildrenSound(jobs', jobCache, pvcs', obj.status, evidence)
  <2>1. ChildrenSound(jobs, jobCache, pvcs, obj.status, evidence)  BY DEF OperatorInv
  <2>2. CASE pvcs' = pvcs  BY <1>7, <2>1, <2>2
  <2>3. CASE /\ me.at <= CurrentAttempt(me.run.status)
             /\ pvcs' = [pvcs EXCEPT ![me.at] = "released"]
    <3>1. ChildrenSound(jobs, jobCache, [pvcs EXCEPT ![me.at] = "released"], obj.status, evidence)
      BY <1>1, <2>3, ReleaseSound
    <3> QED  BY <1>7, <2>3, <3>1
  <2> QED  BY <2>2, <2>3 DEF CleanupNext, CleanupDone, kube
<1> QED  BY <1>6, <1>7, <1>8, PassMoves

\* A write that goes no attempt back.
LEMMA Writes ==
    ASSUME OperatorInv, NEW o, DOMAIN o = RunFields, o.valid = obj.valid,
           Sound(o.status, obj.valid, evidence), Now(obj.status) <= Now(o.status),
           Write(o), UNCHANGED <<cache, jobCache, evidence, jobs, pvcs>>,
           me' = Idle \/ PassSound(me', o.status, obj.valid, evidence)
    PROVE  OperatorInv'
<1>1. RunsSound(obj, cache, fresh, evidence)
      /\ ChildrenSound(jobs, jobCache, pvcs, obj.status, evidence)
  BY DEF OperatorInv
<1>2. obj' = o /\ fresh' = (fresh /\ o = obj)  BY DEF Write
<1>3. cache.status.attempt \in Nat /\ obj.status.attempt \in Nat /\ o.status.attempt \in Nat
  BY <1>1, Numbered DEF RunsSound
<1>4. Now(cache.status) \in Nat /\ Now(obj.status) \in Nat /\ Now(o.status) \in Nat
  BY <1>3 DEF Now
<1>5. Now(cache.status) <= Now(o.status)  BY <1>1, <1>4 DEF RunsSound
<1>6. fresh' => cache = o
  BY <1>1, <1>2 DEF RunsSound
<1>7. RunsSound(obj', cache', fresh', evidence')
  BY <1>1, <1>2, <1>5, <1>6 DEF RunsSound
<1>8. \A a \in Attempts : a <= Now(obj.status) => a <= Now(o.status)
  BY <1>4 DEF Attempts
<1>9. ChildrenSound(jobs', jobCache', pvcs', obj'.status, evidence')
  BY <1>1, <1>2, <1>8 DEF ChildrenSound
<1>10. me' = Idle \/ PassSound(me', obj'.status, obj'.valid, evidence')
  BY <1>2
<1> QED  BY <1>7, <1>9, <1>10 DEF OperatorInv

\* A write that leaves the status alone.
LEMMA WritesBeside ==
    ASSUME OperatorInv, NEW o, DOMAIN o = RunFields, o.valid = obj.valid,
           o.status = obj.status,
           Write(o), UNCHANGED <<cache, jobCache, evidence, jobs, pvcs>>,
           me' = Idle \/ PassSound(me', obj.status, obj.valid, evidence)
    PROVE  OperatorInv'
<1>1. Sound(obj.status, obj.valid, evidence)  BY DEF OperatorInv, RunsSound
<1>2. Now(obj.status) <= Now(o.status)  BY <1>1, Numbered DEF Now
<1>3. Sound(o.status, obj.valid, evidence)  BY <1>1
<1>4. me' = Idle \/ PassSound(me', o.status, obj.valid, evidence)  OBVIOUS
<1> QED  BY <1>2, <1>3, <1>4, Writes

\* The finalizer is added.
LEMMA FinalizerStep ==
    ASSUME OperatorInv, AddFinalizer
    PROVE  OperatorInv'
<1>1. me.pc = "finalizer"  BY DEF AddFinalizer
<1>2. me # Idle /\ PassSound(me, obj.status, obj.valid, evidence)  BY <1>1, PassHere
<1>3. UNCHANGED <<cache, jobCache, evidence, jobs, pvcs>>  BY DEF AddFinalizer, outside
<1>4. CASE NoWrite /\ me' = Idle
  <2>1. obj' = obj /\ fresh' = fresh  BY <1>4 DEF NoWrite
  <2> QED  BY <1>3, <1>4, <2>1 DEF OperatorInv
<1>5. CASE /\ Write([obj EXCEPT !.finalizer = TRUE])
           /\ me' = Dispatch([me EXCEPT !.run.finalizer = TRUE])
  <2> DEFINE o == [obj EXCEPT !.finalizer = TRUE]
             p == [me EXCEPT !.run.finalizer = TRUE]
  <2>0. DOMAIN obj = RunFields  BY DEF OperatorInv, RunsSound
  <2>1. DOMAIN o = RunFields /\ o.valid = obj.valid /\ o.status = obj.status
    BY <2>0 DEF RunFields
  <2>2. /\ DOMAIN p = PassFields /\ DOMAIN p.run = RunFields /\ p.run.status = me.run.status
        /\ p.before = me.before /\ p.fresh = me.fresh /\ p.pc = "finalizer"
    BY <1>1, <1>2 DEF PassSound, PassFields, RunFields
  <2> HIDE DEF o, p
  <2>3. obj.valid = TRUE /\ me.run.status = me.before
    BY <1>1, <1>2 DEF PassSound, Working
  <2>4. PassSound(p, obj.status, obj.valid, evidence)
    BY <1>1, <1>2, <2>2, <2>3 DEF PassSound
  <2>5. PassSound(p, obj.status, TRUE, evidence)  BY <2>3, <2>4, Zenon
  <2>6. p.pc \in {"finalizer", "patch"} /\ p.run.status = p.before  BY <2>2, <2>3
  <2>7. PassSound(Dispatch(p), obj.status, TRUE, evidence)
    BY <2>5, <2>6, DispatchSound, Zenon
  <2>8. PassSound(me', obj.status, obj.valid, evidence)  BY <1>5, <2>3, <2>7, Zenon DEF p
  <2>9. Write(o)  BY <1>5 DEF o
  <2> QED  BY <1>3, <2>1, <2>8, <2>9, WritesBeside
<1> QED  BY <1>4, <1>5 DEF AddFinalizer, Goto, End

\* The optimistic lock: the status that is patched follows the one it replaces.
LEMMA StatusWritten ==
    ASSUME OperatorInv, me.pc = "patch", me.fresh, NEW o,
           o = [obj EXCEPT !.status = me.run.status]
    PROVE  /\ DOMAIN o = RunFields /\ o.valid = obj.valid /\ o.status = me.run.status
           /\ Sound(o.status, obj.valid, evidence) /\ Now(obj.status) <= Now(o.status)
           /\ Follows(obj.status, o.status)
           /\ PassSound(me, obj.status, obj.valid, evidence)
<1>1. me # Idle /\ PassSound(me, obj.status, obj.valid, evidence)  BY PassHere
<1>2. DOMAIN obj = RunFields  BY DEF OperatorInv, RunsSound
<1>3. DOMAIN o = RunFields /\ o.valid = obj.valid /\ o.status = me.run.status
  BY <1>2 DEF RunFields
<1>4. /\ me.before = obj.status /\ Follows(me.before, me.run.status)
      /\ Sound(me.run.status, obj.valid, evidence)
  BY <1>1 DEF PassSound, Working
<1>5. Follows(obj.status, o.status) /\ Sound(o.status, obj.valid, evidence)  BY <1>3, <1>4
<1> QED  BY <1>1, <1>3, <1>5 DEF Follows

\* The status is patched.
LEMMA PatchStep ==
    ASSUME OperatorInv, Patch
    PROVE  OperatorInv'
<1> DEFINE p == [me EXCEPT !.pc = "release"]
<1>1. me.pc = "patch"  BY DEF Patch
<1>2. me # Idle /\ PassSound(me, obj.status, obj.valid, evidence)  BY <1>1, PassHere
<1>3. UNCHANGED <<cache, jobCache, evidence, jobs, pvcs>>  BY DEF Patch
<1>4. /\ DOMAIN p = PassFields /\ p.run = me.run /\ p.before = me.before
      /\ p.fresh = me.fresh /\ p.pc = "release"
  BY <1>2 DEF PassSound, PassFields
<1>5. AfterPatch => me' = Idle \/ me' = p  BY DEF AfterPatch, Goto, End
<1> HIDE DEF p
<1>6. PassSound(p, obj.status, obj.valid, evidence)  BY <1>2, <1>4 DEF PassSound
<1>7. CASE NoWrite /\ (me' = Idle \/ me' = p)
  <2>1. obj' = obj /\ fresh' = fresh  BY <1>7 DEF NoWrite
  <2> QED  BY <1>3, <1>6, <1>7, <2>1 DEF OperatorInv
<1>8. CASE /\ me.fresh /\ Write([obj EXCEPT !.status = me.run.status])
           /\ me' = Idle \/ me' = p
  <2> DEFINE o == [obj EXCEPT !.status = me.run.status]
  <2>1. /\ DOMAIN o = RunFields /\ o.valid = obj.valid /\ o.status = me.run.status
        /\ Sound(o.status, obj.valid, evidence) /\ Now(obj.status) <= Now(o.status)
    BY <1>1, <1>8, StatusWritten
  <2>2. Write(o)  BY <1>8
  <2> HIDE DEF o
  <2>3. Now(me.before) <= Now(o.status)
    <3>1. Now(me.before) <= Now(me.run.status)  BY <1>1, <1>2 DEF PassSound, Working, Follows
    <3> QED  BY <2>1, <3>1
  <2>4. PassSound(p, o.status, obj.valid, evidence)
    BY <1>2, <1>4, <2>1, <2>3 DEF PassSound
  <2> QED  BY <1>3, <1>8, <2>1, <2>2, <2>4, Writes
<1> QED  BY <1>5, <1>7, <1>8 DEF Patch, End

\* The finalizer is removed.
LEMMA ReleaseStep ==
    ASSUME OperatorInv, RemoveFinalizer
    PROVE  OperatorInv'
<1> DEFINE o == [obj EXCEPT !.finalizer = FALSE, !.exists = FALSE]
<1>1. UNCHANGED <<cache, jobCache, evidence, jobs, pvcs>> /\ me' = Idle
  BY DEF RemoveFinalizer, outside, End
<1>2. DOMAIN obj = RunFields  BY DEF OperatorInv, RunsSound
<1>3. DOMAIN o = RunFields /\ o.valid = obj.valid /\ o.status = obj.status
  BY <1>2 DEF RunFields
<1>4. CASE NoWrite
  <2>1. obj' = obj /\ fresh' = fresh  BY <1>4 DEF NoWrite
  <2> QED  BY <1>1, <2>1 DEF OperatorInv
<1>5. CASE Write(o)
  <2> HIDE DEF o
  <2> QED  BY <1>1, <1>3, <1>5, WritesBeside
<1> QED  BY <1>4, <1>5 DEF RemoveFinalizer

-----------------------------------------------------------------------------
(* Faults, informers and the cluster. *)

\* A failed call on the way to the Job, or of a cancellation.
LEMMA WorkFails ==
    ASSUME OperatorInv, Working(me), me # Idle, NEW kind,
           UNCHANGED <<obj, cache, fresh, jobCache, evidence>>,
           me' = PrerequisiteFailed(kind) \/ me' = CancelFailed(kind),
           \/ jobs' = jobs /\ (pvcs' = pvcs \/ Claim(Here))
           \/ pvcs' = pvcs /\ (Apply(Here) \/ Delete(Here, FALSE))
    PROVE  OperatorInv'
<1>1. /\ PassSound(me, obj.status, TRUE, evidence) /\ obj.valid = TRUE
      /\ Here <= Now(obj.status)
  BY HereCommitted, Zenon
<1>2. /\ PassSound(PrerequisiteFailed(kind), obj.status, TRUE, evidence)
      /\ PassSound(CancelFailed(kind), obj.status, TRUE, evidence)
  BY <1>1, PrerequisiteSound, CancelSound, Zenon
<1>3. PassSound(me', obj.status, TRUE, evidence)  BY <1>2, Zenon
<1>4. ChildrenSound(jobs', jobCache, pvcs', obj.status, evidence)
  <2>0. ChildrenSound(jobs, jobCache, pvcs, obj.status, evidence)  BY DEF OperatorInv
  <2>1. CASE jobs' = jobs /\ pvcs' = pvcs  BY <2>0, <2>1
  <2>2. CASE jobs' = jobs /\ Claim(Here)
    <3>1. ChildrenSound(jobs, jobCache, pvcs', obj.status, evidence)
      BY <1>1, <2>2, ClaimSound
    <3> QED  BY <2>2, <3>1
  <2>3. CASE pvcs' = pvcs /\ Apply(Here)
    <3>1. ChildrenSound(jobs', jobCache, pvcs, obj.status, evidence)
      BY <1>1, <2>3, ApplySound
    <3> QED  BY <2>3, <3>1
  <2>4. CASE pvcs' = pvcs /\ Delete(Here, FALSE)
    <3>1. ChildrenSound(jobs', jobCache, pvcs, obj.status, evidence)
      BY <1>1, <2>4, DeleteSound, Zenon
    <3> QED  BY <2>4, <3>1
  <2> QED  BY <2>1, <2>2, <2>3, <2>4
<1> QED  BY <1>1, <1>3, <1>4, WorkMoves

\* A call fails, with or without effect.
LEMMA FailsStep ==
    ASSUME OperatorInv, CallFails
    PROVE  OperatorInv'
<1>0. UNCHANGED <<cache, jobCache, evidence>>  BY DEF CallFails
<1>1. PICK kind \in FaultKinds, done \in BOOLEAN :
        \/ /\ me.pc = "prepare"
           /\ me' = PrerequisiteFailed(kind) /\ NoWrite /\ jobs' = jobs
           /\ pvcs' = pvcs \/ Claim(Here)
        \/ /\ me.pc \in {"job", "observe"}
           /\ me' = PrerequisiteFailed(kind) /\ NoWrite /\ pvcs' = pvcs
           /\ jobs' = jobs \/ Apply(Here)
        \/ /\ me.pc = "cancel"
           /\ me' = CancelFailed(kind) /\ NoWrite /\ pvcs' = pvcs
           /\ jobs' = jobs \/ Delete(Here, FALSE)
        \/ /\ me.pc = "cleanup" /\ me.at <= CurrentAttempt(me.run.status)
           /\ me' = CleanupFailed /\ NoWrite /\ jobs' = jobs
           /\ pvcs' = pvcs \/ pvcs' = [pvcs EXCEPT ![me.at] = "released"]
        \/ /\ me.pc = "finalizer" /\ me' = Idle /\ jobs' = jobs /\ pvcs' = pvcs
           /\ Write([obj EXCEPT !.finalizer = TRUE]) \/ NoWrite
        \/ /\ me.pc = "patch" /\ me' = Idle /\ jobs' = jobs /\ pvcs' = pvcs
           /\ (me.fresh /\ Write([obj EXCEPT !.status = me.run.status])) \/ NoWrite
        \/ /\ me.pc = "release" /\ me' = Idle /\ jobs' = jobs /\ pvcs' = pvcs
           /\ Write([obj EXCEPT !.status.cleanup = "pending"]) \/ NoWrite
  BY DEF CallFails, Goto, End
<1>2. NoWrite => obj' = obj /\ fresh' = fresh  BY DEF NoWrite
<1>3. CASE me.pc = "prepare"
  <2>1. Working(me) /\ me # Idle  BY <1>3, AtWork
  <2> QED  BY <1>0, <1>1, <1>2, <1>3, <2>1, WorkFails
<1>4. CASE me.pc \in {"job", "observe"}
  <2>1. Working(me) /\ me # Idle  BY <1>4, AtWork
  <2> QED  BY <1>0, <1>1, <1>2, <1>4, <2>1, WorkFails
<1>5. CASE me.pc = "cancel"
  <2>1. Working(me) /\ me # Idle  BY <1>5, AtWork
  <2> QED  BY <1>0, <1>1, <1>2, <1>5, <2>1, WorkFails
<1>6. CASE me.pc = "cleanup"
  <2>1. /\ me.at <= CurrentAttempt(me.run.status) /\ me' = CleanupFailed
        /\ obj' = obj /\ fresh' = fresh /\ jobs' = jobs
        /\ pvcs' = pvcs \/ pvcs' = [pvcs EXCEPT ![me.at] = "released"]
    BY <1>1, <1>2, <1>6
  <2>2. PassSound(CleanupFailed, obj.status, obj.valid, evidence)
    BY <1>6, CleanedSound DEF CleanupFailed
  <2>3. ChildrenSound(jobs, jobCache, [pvcs EXCEPT ![me.at] = "released"], obj.status, evidence)
    BY <1>6, <2>1, ReleaseSound
  <2>4. ChildrenSound(jobs, jobCache, pvcs, obj.status, evidence)  BY DEF OperatorInv
  <2>5. ChildrenSound(jobs', jobCache, pvcs', obj.status, evidence)
    BY <2>1, <2>3, <2>4
  <2> QED  BY <1>0, <2>1, <2>2, <2>5, PassMoves
<1>7. CASE me.pc \in {"finalizer", "patch", "release"}
  <2>1. me' = Idle /\ jobs' = jobs /\ pvcs' = pvcs  BY <1>1, <1>7
  <2>2. CASE NoWrite  BY <1>0, <1>2, <2>1, <2>2 DEF OperatorInv
  <2>3. CASE Write([obj EXCEPT !.finalizer = TRUE])
    <3> DEFINE o == [obj EXCEPT !.finalizer = TRUE]
    <3>0. DOMAIN obj = RunFields  BY DEF OperatorInv, RunsSound
    <3>1. DOMAIN o = RunFields /\ o.valid = obj.valid /\ o.status = obj.status
      BY <3>0 DEF RunFields
    <3>2. Write(o)  BY <2>3
    <3> HIDE DEF o
    <3> QED  BY <1>0, <2>1, <3>1, <3>2, WritesBeside
  <2>4. CASE me.pc = "patch" /\ me.fresh /\ Write([obj EXCEPT !.status = me.run.status])
    <3> DEFINE o == [obj EXCEPT !.status = me.run.status]
    <3>1. /\ DOMAIN o = RunFields /\ o.valid = obj.valid
          /\ Sound(o.status, obj.valid, evidence) /\ Now(obj.status) <= Now(o.status)
      BY <2>4, StatusWritten
    <3>2. Write(o)  BY <2>4
    <3> HIDE DEF o
    <3> QED  BY <1>0, <2>1, <3>1, <3>2, Writes
  <2>5. CASE Write([obj EXCEPT !.status.cleanup = "pending"])
    <3> DEFINE o == [obj EXCEPT !.status.cleanup = "pending"]
    <3>0. /\ DOMAIN obj = RunFields /\ DOMAIN obj.status = StatusFields
          /\ Sound(obj.status, obj.valid, evidence)
      BY DEF OperatorInv, RunsSound, Sound
    <3>1. /\ DOMAIN o = RunFields /\ o.valid = obj.valid /\ DOMAIN o.status = StatusFields
          /\ o.status.history = obj.status.history /\ o.status.attempt = obj.status.attempt
          /\ o.status.phase = obj.status.phase /\ o.status.failure = obj.status.failure
      BY <3>0 DEF RunFields, StatusFields
    <3>2. Write(o)  BY <2>5
    <3> HIDE DEF o
    <3>3. Sound(o.status, obj.valid, evidence) /\ Follows(obj.status, o.status)
      BY <3>0, <3>1, SameOutcome
    <3> QED  BY <1>0, <2>1, <3>1, <3>2, <3>3, Writes DEF Follows
  <2> QED  BY <1>1, <1>7, <2>2, <2>3, <2>4, <2>5
<1> QED  BY <1>1, <1>3, <1>4, <1>5, <1>6, <1>7

\* A restart, and the informers catching up.
LEMMA SyncStep ==
    ASSUME OperatorInv, Restart \/ SyncRun \/ SyncChildren
    PROVE  OperatorInv'
<1>0. RunsSound(obj, cache, fresh, evidence)
      /\ ChildrenSound(jobs, jobCache, pvcs, obj.status, evidence)
  BY DEF OperatorInv
<1>1. obj.status.attempt \in Nat  BY <1>0, Numbered DEF RunsSound
<1>2. Now(obj.status) <= Now(obj.status)  BY <1>1 DEF Now
<1>3. RunsSound(obj, obj, TRUE, evidence)  BY <1>0, <1>2 DEF RunsSound
<1>4. ChildrenSound(jobs, jobs, pvcs, obj.status, evidence)  BY <1>0 DEF ChildrenSound
<1>5. CASE Restart  BY <1>3, <1>4, <1>5 DEF Restart, OperatorInv
<1>6. CASE SyncRun  BY <1>3, <1>6 DEF SyncRun, OperatorInv
<1>7. CASE SyncChildren
  <2>1. /\ obj' = obj /\ fresh' = fresh /\ jobs' = jobs /\ pvcs' = pvcs /\ cache' = cache
        /\ me' = me /\ evidence' = evidence /\ (jobCache' = jobCache \/ jobCache' = jobs)
    BY <1>7 DEF SyncChildren, kube
  <2> QED  BY <1>0, <1>4, <2>1 DEF OperatorInv
<1> QED  BY <1>5, <1>6, <1>7

\* The callers change the desired state and delete the object.
LEMMA RequestStep ==
    ASSUME OperatorInv, RequestCancel \/ RequestDelete
    PROVE  OperatorInv'
<1>0. DOMAIN obj = RunFields  BY DEF OperatorInv, RunsSound
<1>1. PICK o : DOMAIN o = RunFields /\ o.valid = obj.valid /\ o.status = obj.status /\ Written(o)
  <2>1. CASE RequestCancel
    <3> DEFINE o == [obj EXCEPT !.desired = "Cancelled", !.generation = @ + 1]
    <3>1. DOMAIN o = RunFields /\ o.valid = obj.valid /\ o.status = obj.status
      BY <1>0 DEF RunFields
    <3>2. Written(o)  BY <2>1 DEF RequestCancel
    <3> HIDE DEF o
    <3> QED  BY <3>1, <3>2
  <2>2. CASE RequestDelete
    <3> DEFINE o == [obj EXCEPT !.deleting = TRUE, !.exists = obj.finalizer,
                                !.generation = @ + 1]
    <3>1. DOMAIN o = RunFields /\ o.valid = obj.valid /\ o.status = obj.status
      BY <1>0 DEF RunFields
    <3>2. Written(o)  BY <2>2 DEF RequestDelete
    <3> HIDE DEF o
    <3> QED  BY <3>1, <3>2
  <2> QED  BY <2>1, <2>2
<1>2. Write(o) /\ UNCHANGED <<cache, jobCache, evidence, jobs, pvcs>>
  BY <1>1 DEF Written, outside
<1>3. me' = Idle \/ PassSound(me', obj.status, obj.valid, evidence)
  <2>1. CASE me = Idle  BY <1>1, <2>1 DEF Written
  <2>2. CASE me # Idle
    <3> DEFINE p == [me EXCEPT !.fresh = FALSE]
    <3>1. me' = p  BY <1>1, <2>2 DEF Written
    <3>2. PassSound(me, obj.status, obj.valid, evidence)  BY <2>2 DEF OperatorInv
    <3>3. /\ DOMAIN p = PassFields /\ p.run = me.run /\ p.before = me.before
          /\ p.pc = me.pc /\ p.fresh = FALSE
      BY <3>2 DEF PassSound, PassFields
    <3> HIDE DEF p
    <3>4. PassSound(p, obj.status, obj.valid, evidence)
      BY <3>2, <3>3 DEF PassSound, Working
    <3> QED  BY <3>1, <3>4
  <2> QED  BY <2>1, <2>2
<1> QED  BY <1>1, <1>2, <1>3, WritesBeside

\* The kubelet and the Job controller move Jobs that exist, and the evidence
\* of an attempt is there before its Job is complete.
LEMMA JobStep ==
    ASSUME OperatorInv, NEW a \in Attempts,
           JobRuns(a) \/ JobStops(a) \/ JobGone(a) \/ JobRemoved(a)
    PROVE  OperatorInv'
<1>1. PICK state \in JobStates : jobs' = [jobs EXCEPT ![a] = state]
  BY DEF JobRuns, JobStops, JobGone, JobRemoved, Becomes, JobStates, NoJob, Ending, Live, Finished
<1>2. jobs[a] # "absent"
  BY DEF JobRuns, JobStops, JobGone, JobRemoved, NoJob
<1>3. /\ obj' = obj /\ cache' = cache /\ fresh' = fresh /\ jobCache' = jobCache /\ pvcs' = pvcs
      /\ me' = me /\ evidence \subseteq evidence' /\ (jobs'[a] = "complete" => a \in evidence')
  BY DEF JobRuns, JobStops, JobGone, JobRemoved, Becomes
<1>4. RunsSound(obj, cache, fresh, evidence)
      /\ ChildrenSound(jobs, jobCache, pvcs, obj.status, evidence)
  BY DEF OperatorInv
<1>5. RunsSound(obj', cache', fresh', evidence')
  <2>1. Sound(obj.status, obj.valid, evidence') /\ Sound(cache.status, obj.valid, evidence')
    BY <1>3, <1>4, MoreEvidence DEF RunsSound
  <2> QED  BY <1>3, <1>4, <2>1 DEF RunsSound
<1>6. ChildrenSound(jobs', jobCache', pvcs', obj'.status, evidence')
  <2>1. jobs \in [Attempts -> JobStates]  BY <1>4 DEF ChildrenSound
  <2>2. /\ jobs' \in [Attempts -> JobStates]
        /\ \A b \in Attempts : b # a => jobs'[b] = jobs[b]
    BY <1>1, <2>1
  <2>3. \A b \in Attempts : jobs'[b] = "complete" \/ jobCache[b] = "complete" => b \in evidence'
    BY <1>3, <1>4, <2>2 DEF ChildrenSound
  <2>4. \A b \in Attempts : jobs'[b] # "absent" \/ pvcs[b] # "absent" => b <= Now(obj.status)
    BY <1>2, <1>4, <2>2 DEF ChildrenSound
  <2> QED  BY <1>3, <1>4, <2>2, <2>3, <2>4 DEF ChildrenSound
<1>7. me' = Idle \/ PassSound(me', obj'.status, obj'.valid, evidence')
  <2>1. CASE me = Idle  BY <1>3, <2>1
  <2>2. CASE me # Idle
    <3>1. PassSound(me, obj.status, obj.valid, evidence)  BY <2>2 DEF OperatorInv
    <3>2. Sound(me.before, obj.valid, evidence') /\ Sound(me.run.status, obj.valid, evidence')
      BY <1>3, <3>1, MoreEvidence DEF PassSound
    <3>3. PassSound(me, obj.status, obj.valid, evidence')  BY <3>1, <3>2 DEF PassSound
    <3> QED  BY <1>3, <3>3
  <2> QED  BY <2>1, <2>2
<1> QED  BY <1>5, <1>6, <1>7 DEF OperatorInv

-----------------------------------------------------------------------------
\* The initial AgentRun has no attempt, no Job and no workspace.
LEMMA InitialRun ==
    ASSUME Init
    PROVE  OperatorInv
<1>1. /\ DOMAIN obj = RunFields /\ obj.status = NewStatus /\ obj.valid \in BOOLEAN
      /\ DOMAIN cache = RunFields /\ cache.status = NewStatus /\ cache.valid = obj.valid
      /\ fresh = FALSE
  BY OperatorConstants DEF Init, RunFields
<1>2. Sound(NewStatus, obj.valid, evidence)
  <2> DEFINE s == NewStatus
             none == [a \in Attempts |-> NoEntry]
  <2>1. DOMAIN s = StatusFields /\ s.attempt = 0 /\ s.phase = "" /\ s.history = none
    BY DEF NewStatus, StatusFields
  <2>2. NoEntry.phase = ""  BY DEF NoEntry
  <2>3. DOMAIN none = Attempts /\ \A a \in Attempts : none[a] = NoEntry  OBVIOUS
  <2> HIDE DEF s, none
  <2>4. MaxAttempts \in Nat  BY OperatorConstants
  <2>5. s.attempt \in 0..MaxAttempts /\ s.attempt <= 1 /\ \A a \in 1..(s.attempt - 1) : FALSE
    <3>1. s.attempt = 0  BY <2>1
    <3> QED  BY <2>4, <3>1
  <2>6. \A a \in Attempts : s.history[a].phase = ""  BY <2>1, <2>2, <2>3
  <2>7. DOMAIN s.history = Attempts  BY <2>1, <2>3
  <2>8. /\ s.attempt = 0 => s.phase = ""
        /\ s.phase # "Failed"
        /\ ~obj.valid => s.attempt <= 1 /\ (s.attempt = 1 => s.phase = "Failed")
    <3>1. s.attempt = 0 /\ s.phase = ""  BY <2>1
    <3>2. s.phase # "Failed"  BY <3>1, Zenon
    <3>3. s.attempt # 1 /\ s.attempt <= 1
      <4>1. s.attempt = 0  BY <3>1, Zenon
      <4> QED  BY <4>1
    <3> QED  BY <3>1, <3>2, <3>3, Zenon
  <2>9. Sound(s, obj.valid, evidence)  BY <2>1, <2>5, <2>6, <2>7, <2>8 DEF Sound
  <2> QED  BY <2>9 DEF s
<1>3. Now(NewStatus) <= Now(NewStatus)  BY DEF Now, NewStatus
<1>4. RunsSound(obj, cache, fresh, evidence)  BY <1>1, <1>2, <1>3 DEF RunsSound
<1>5. ChildrenSound(jobs, jobCache, pvcs, obj.status, evidence)
  BY DEF Init, ChildrenSound, JobStates, NoJob
<1> QED  BY <1>4, <1>5 DEF Init, OperatorInv

\* No step spoils the invariant.
LEMMA StepsKeepInvariant ==
    ASSUME OperatorInv, [Next]_vars
    PROVE  OperatorInv'
<1>1. CASE Reconciler
  BY <1>1, NothingStep, FetchStep, FinalizerStep, PrepareStep, MissingStep, EnsureStep,
     ObserveStep, CancelAbsentStep, CancelPresentStep, CleanupStep, PatchStep, ReleaseStep
     DEF Reconciler
<1>2. CASE CallFails  BY <1>2, FailsStep
<1>3. CASE Restart \/ SyncRun \/ SyncChildren  BY <1>3, SyncStep
<1>4. CASE RequestCancel \/ RequestDelete  BY <1>4, RequestStep
<1>5. CASE \E a \in Attempts : JobRuns(a) \/ JobStops(a) \/ JobGone(a) \/ JobRemoved(a)
  BY <1>5, JobStep
<1>6. CASE \/ \E what \in {"configuration", "storage"} : Available(what)
           \/ \E deadline \in Deadlines : Elapse(deadline)
  BY <1>6 DEF Available, Elapse, kube, OperatorInv
<1>7. CASE UNCHANGED vars  BY <1>7 DEF vars, OperatorInv
<1> QED  BY <1>1, <1>2, <1>3, <1>4, <1>5, <1>6, <1>7 DEF Next

\* A status replaces another only if it follows it.
LEMMA StatusFollows ==
    ASSUME OperatorInv, [Next]_vars
    PROVE  obj'.status = obj.status \/ Follows(obj.status, obj'.status)
<1>0. DOMAIN obj = RunFields /\ DOMAIN obj.status = StatusFields
      /\ Sound(obj.status, obj.valid, evidence)
  BY DEF OperatorInv, RunsSound, Sound
<1>1. CASE AddFinalizer \/ RemoveFinalizer \/ RequestCancel \/ RequestDelete
  BY <1>0, <1>1 DEF AddFinalizer, RemoveFinalizer, RequestCancel, RequestDelete, Written,
     Write, NoWrite, RunFields
<1>2. CASE Patch
  <2>1. \/ obj' = obj
        \/ me.pc = "patch" /\ me.fresh /\ obj' = [obj EXCEPT !.status = me.run.status]
    BY <1>2 DEF Patch, Write, NoWrite
  <2> QED  BY <2>1, StatusWritten
<1>3. CASE CallFails
  <2>1. \/ obj' = obj
        \/ obj' = [obj EXCEPT !.finalizer = TRUE]
        \/ me.pc = "patch" /\ me.fresh /\ obj' = [obj EXCEPT !.status = me.run.status]
        \/ obj' = [obj EXCEPT !.status.cleanup = "pending"]
    BY <1>3 DEF CallFails, Write, NoWrite
  <2>2. CASE obj' = [obj EXCEPT !.finalizer = TRUE]  BY <1>0, <2>2 DEF RunFields
  <2>3. CASE me.pc = "patch" /\ me.fresh /\ obj' = [obj EXCEPT !.status = me.run.status]
    BY <2>3, StatusWritten
  <2>4. CASE obj' = [obj EXCEPT !.status.cleanup = "pending"]
    <3> DEFINE t == obj'.status
    <3>1. /\ DOMAIN t = StatusFields /\ t.history = obj.status.history
          /\ t.attempt = obj.status.attempt /\ t.phase = obj.status.phase
          /\ t.failure = obj.status.failure
      BY <1>0, <2>4 DEF RunFields, StatusFields
    <3> HIDE DEF t
    <3>2. Follows(obj.status, t)  BY <1>0, <3>1, SameOutcome
    <3> QED  BY <3>2 DEF t
  <2> QED  BY <2>1, <2>2, <2>3, <2>4
<1>4. CASE \/ FetchNothing \/ Fetch \/ Prepare \/ JobMissing \/ EnsureJob \/ ObserveJob
           \/ CancelAbsent \/ CancelPresent \/ CleanupNext \/ CleanupDone
  BY <1>4 DEF FetchNothing, Fetch, Prepare, JobMissing, EnsureJob, ObserveJob, CancelAbsent,
     CancelPresent, CleanupNext, CleanupDone, kube
<1>5. CASE Restart \/ SyncRun \/ SyncChildren
  BY <1>5 DEF Restart, SyncRun, SyncChildren, kube
<1>6. CASE \E a \in Attempts : JobRuns(a) \/ JobStops(a) \/ JobGone(a) \/ JobRemoved(a)
  BY <1>6 DEF JobRuns, JobStops, JobGone, JobRemoved, Becomes
<1>7. CASE \/ \E what \in {"configuration", "storage"} : Available(what)
           \/ \E deadline \in Deadlines : Elapse(deadline)
  BY <1>7 DEF Available, Elapse, kube
<1>8. CASE UNCHANGED vars  BY <1>8 DEF vars
<1> QED  BY <1>1, <1>2, <1>3, <1>4, <1>5, <1>6, <1>7, <1>8 DEF Next, Reconciler

-----------------------------------------------------------------------------
\* The operator's inductive invariant: what it reads was true, what it adds is
\* earned, and what it writes follows what it replaces.
THEOREM OperatorInvariant == Spec => []OperatorInv
<1>1. Init => OperatorInv  BY InitialRun
<1>2. OperatorInv /\ [Next]_vars => OperatorInv'  BY StepsKeepInvariant
<1> QED  BY <1>1, <1>2, PTL DEF Spec

\* No Job and no workspace precedes the record of a retry, whatever the
\* informers lag, the calls lose and the restarts interrupt.
THEOREM AttemptsAreAlwaysCommitted == Spec => []AttemptsCommitted
<1>1. OperatorInv => AttemptsCommitted
  <2> SUFFICES ASSUME OperatorInv PROVE AttemptsCommitted
    OBVIOUS
  <2>1. /\ Sound(obj.status, obj.valid, evidence)
        /\ ChildrenSound(jobs, jobCache, pvcs, obj.status, evidence)
    BY DEF OperatorInv, RunsSound
  <2>2. CurrentAttempt(obj.status) = Now(obj.status)  BY <2>1, Numbered, CurrentIsNow
  <2> QED  BY <2>1, <2>2 DEF ChildrenSound, AttemptsCommitted
<1> QED  BY <1>1, OperatorInvariant, PTL

\* Every attempt but the current one failed retryably and is still recorded.
THEOREM FailedAttemptsAreAlwaysKept == Spec => []FailedAttemptsKept
<1>1. OperatorInv => FailedAttemptsKept
  BY DEF OperatorInv, RunsSound, Sound, FailedAttemptsKept
<1> QED  BY <1>1, OperatorInvariant, PTL

\* No attempt is reported Succeeded without result evidence.
THEOREM SuccessIsAlwaysProven == Spec => []SuccessIsProven
<1>1. OperatorInv => SuccessIsProven
  BY DEF OperatorInv, RunsSound, Sound, SuccessIsProven
<1> QED  BY <1>1, OperatorInvariant, PTL

\* A terminal phase is only left for the next attempt after a failure: the
\* optimistic lock turns every stale pass away.
THEOREM OutcomeIsAlwaysFinal == Spec => OutcomeFinal
<1> DEFINE Final == AttemptTerminal(obj.status) =>
             \/ obj'.status.phase = obj.status.phase
                /\ obj'.status.attempt = obj.status.attempt
             \/ /\ obj.status.phase = "Failed"
                /\ obj'.status.attempt = obj.status.attempt + 1
<1>1. OperatorInv /\ [Next]_vars => [Final]_obj
  <2> SUFFICES ASSUME OperatorInv, [Next]_vars, AttemptTerminal(obj.status)
               PROVE  \/ obj'.status.phase = obj.status.phase
                         /\ obj'.status.attempt = obj.status.attempt
                      \/ /\ obj.status.phase = "Failed"
                         /\ obj'.status.attempt = obj.status.attempt + 1
    OBVIOUS
  <2>1. obj.status.attempt \in Nat  BY Numbered DEF OperatorInv, RunsSound
  <2>2. CurrentAttempt(obj.status) = Now(obj.status)  BY <2>1, CurrentIsNow
  <2>3. obj.status.attempt # 0 /\ obj.status.phase \in Terminal
    BY <2>2 DEF AttemptTerminal, Now, Terminal
  <2>4. obj'.status = obj.status \/ Follows(obj.status, obj'.status)  BY StatusFollows
  <2> QED  BY <2>3, <2>4 DEF Follows
<1> QED  BY <1>1, OperatorInvariant, PTL DEF Spec, OutcomeFinal
=============================================================================
