-------------------------- MODULE OperatorChildren --------------------------
(***************************************************************************)
(* What the operator says of the children of an AgentRun, its Jobs and its  *)
(* workspaces, for any number of attempts, faults and restarts, where the   *)
(* informer is not behind on the child in question.                         *)
(*                                                                          *)
(* The arguments: the finalizer stays until clean-up has passed every       *)
(* workspace, and a Job is called missing only by a pass that knows of one. *)
(***************************************************************************)
EXTENDS OperatorProofs

(* Retained workspaces are handed over before their AgentRun is gone, as     *)
(* long as clean-up reads them as they are.                                  *)

AtWorkOn == {"prepare", "job", "observe", "cancel"}

NoneLeft(ps, n) == \A a \in Attempts : a <= n => ps[a] # "retained"

\* The AgentRun, what the informer has of it, and the workspaces.
Held(run, copy, ps) ==
    /\ run.exists \in BOOLEAN /\ run.finalizer \in BOOLEAN
    /\ ~Retain => NoneLeft(ps, MaxAttempts)
    /\ run.exists /\ copy.finalizer => run.finalizer
    /\ run.exists /\ ~run.finalizer => NoneLeft(ps, MaxAttempts)
    /\ ~run.exists => ~run.finalizer /\ (copy.finalizer => copy.deleting)
    /\ ~run.exists /\ run.status.cleanup # "escalated" => NoneLeft(ps, MaxAttempts)
    /\ copy.deleting => run.deleting

\* A pass: whether it may claim a workspace, and what it has handed over.
PassHolds(m, run, copy, ps) ==
    /\ m.pc \in AtWorkOn \union {"finalizer"} => ~m.run.deleting
    /\ m.pc \in AtWorkOn /\ Retain => m.run.finalizer
    /\ m.run.finalizer => (run.exists => run.finalizer) /\ (~run.exists => m.run.deleting)
    /\ m.run.deleting => copy.deleting
    /\ m.fresh => run.exists
    /\ m.pc = "cleanup" =>
         m.run.deleting /\ m.at \in Nat \ {0} /\ NoneLeft(ps, m.at - 1)
    /\ m.pc \in {"patch", "release"} /\ m.run.deleting /\ m.run.status.cleanup = "complete" =>
         NoneLeft(ps, Now(m.run.status))
    /\ m.pc = "release" =>
         /\ m.run.deleting /\ m.run.status.cleanup \in {"complete", "escalated"}
         /\ m.fresh => run.status = m.run.status

HandOverInv ==
    /\ Held(obj, cache, pvcs)
    /\ me = Idle \/ PassHolds(me, obj, cache, pvcs)

\* The AgentRun as a pass has read it, its status aside.
SameRun(p, m) ==
    /\ p.run.finalizer = m.run.finalizer /\ p.run.deleting = m.run.deleting
    /\ p.fresh = m.fresh

\* A pass changes its status and its place, and not the rest of the run.
LEMMA IntoFields ==
    ASSUME NEW m, NEW pc, NEW s, NEW q, DOMAIN m = PassFields, DOMAIN m.run = RunFields
    PROVE  /\ SameRun(Into(m, pc, s, q), m)
           /\ Into(m, pc, s, q).pc = pc /\ Into(m, pc, s, q).run.status = s
           /\ Into(m, pc, s, q).before = m.before
BY DEF Into, SameRun, PassFields, RunFields

\* The same for the pass under way.
LEMMA WithFields ==
    ASSUME NEW pc, NEW s, NEW q, DOMAIN me = PassFields, DOMAIN me.run = RunFields
    PROVE  /\ SameRun(With(pc, s, q), me)
           /\ With(pc, s, q).pc = pc /\ With(pc, s, q).run.status = s
           /\ With(pc, s, q).before = me.before
BY DEF With, SameRun, PassFields, RunFields

\* Dispatch changes the status and the place.
LEMMA DispatchFields ==
    ASSUME NEW m, DOMAIN m = PassFields, DOMAIN m.run = RunFields
    PROVE  SameRun(Dispatch(m), m) /\ Dispatch(m).pc \in {"prepare", "cancel", "patch"}
<1>1. PICK s, q : \/ Dispatch(m) = Into(m, "prepare", s, q)
                  \/ Dispatch(m) = Into(m, "cancel", s, q)
                  \/ Dispatch(m) = Into(m, "patch", s, q)
  BY Zenon DEF Dispatch, Continue
<1>2. \A pc : SameRun(Into(m, pc, s, q), m) /\ Into(m, pc, s, q).pc = pc  BY IntoFields
<1> QED  BY <1>1, <1>2, Zenon

\* A pass at work claims only what the finalizer covers.
LEMMA WorkHolds ==
    ASSUME OperatorInv, HandOverInv, me.pc \in AtWorkOn, UNCHANGED <<obj, cache>>,
           pvcs' = pvcs \/ Claim(Here),
           SameRun(me', me), me'.pc \in AtWorkOn \union {"patch"}
    PROVE  HandOverInv'
<1>1. PassHolds(me, obj, cache, pvcs)  BY PassHere DEF HandOverInv, AtWorkOn
<1>2. Held(obj, cache, pvcs)  BY DEF HandOverInv
<1>3. ~me.run.deleting /\ (Retain => me.run.finalizer)  BY <1>1 DEF PassHolds
<1>4. PassHolds(me', obj, cache, pvcs')
  BY <1>1, <1>3 DEF PassHolds, SameRun, AtWorkOn
<1>5. CASE pvcs' = pvcs  BY <1>2, <1>4, <1>5 DEF HandOverInv
<1>6. CASE pvcs' # pvcs
  <2>1. Retain  BY <1>6 DEF Claim
  <2>2. obj.exists /\ obj.finalizer  BY <1>1, <1>2, <1>3, <2>1 DEF PassHolds, Held
  <2>3. Held(obj, cache, pvcs')  BY <1>2, <2>1, <2>2 DEF Held
  <2> QED  BY <1>4, <2>3 DEF HandOverInv
<1> QED  BY <1>5, <1>6

\* What becomes of a pass at work.
LEMMA WorkFields ==
    ASSUME OperatorInv, me.pc \in AtWorkOn, NEW kind, NEW s, NEW q
    PROVE  /\ SameRun(Provisioning, me) /\ Provisioning.pc = "patch"
           /\ SameRun(PrerequisiteFailed(kind), me) /\ PrerequisiteFailed(kind).pc = "patch"
           /\ SameRun(CancelFailed(kind), me) /\ CancelFailed(kind).pc = "patch"
           /\ SameRun(Projected(s), me) /\ Projected(s).pc = "patch"
           /\ SameRun(With("patch", s, q), me) /\ With("patch", s, q).pc = "patch"
<1>1. DOMAIN me = PassFields /\ DOMAIN me.run = RunFields
  BY PassHere, Zenon DEF PassSound, AtWorkOn
<1>2. \A t, r : SameRun(With("patch", t, r), me) /\ With("patch", t, r).pc = "patch"
  BY <1>1, WithFields
<1>3. \E t, r : Provisioning = With("patch", t, r)  BY Zenon DEF Provisioning
<1>4. \E t, r : PrerequisiteFailed(kind) = With("patch", t, r)  BY Zenon DEF PrerequisiteFailed
<1>5. \E t, r : CancelFailed(kind) = With("patch", t, r)  BY DEF CancelFailed
<1>6. \E t, r : Projected(s) = With("patch", t, r)  BY Zenon DEF Projected
<1> QED  BY <1>2, <1>3, <1>4, <1>5, <1>6

\* A pass at work leaves no workspace behind.
LEMMA WorkHandsOver ==
    ASSUME OperatorInv, HandOverInv,
           Prepare \/ JobMissing \/ EnsureJob \/ ObserveJob \/ CancelAbsent \/ CancelPresent
    PROVE  HandOverInv'
<1>1. me.pc \in AtWorkOn
  BY Zenon DEF AtWorkOn, Prepare, JobMissing, EnsureJob, ObserveJob, CancelAbsent, CancelPresent
<1>2. DOMAIN me = PassFields /\ DOMAIN me.run = RunFields /\ DOMAIN me.run.status = StatusFields
  BY <1>1, PassHere, Zenon DEF PassSound, Sound, AtWorkOn
<1>3. UNCHANGED <<obj, cache>> /\ (pvcs' = pvcs \/ Claim(Here))
  BY Zenon DEF Prepare, JobMissing, EnsureJob, ObserveJob, CancelAbsent, CancelPresent, kube, outside
<1>4. SameRun(me', me) /\ me'.pc \in AtWorkOn \union {"patch"}
  <2>1. CASE Prepare
    <3>1. \/ me' = Provisioning \/ me' = PrerequisiteFailed("transient")
          \/ me' = [me EXCEPT !.pc = "job"]
      BY <2>1 DEF Prepare, Goto
    <3>2. CASE me' = [me EXCEPT !.pc = "job"]
      BY <1>2, <3>2 DEF SameRun, PassFields, AtWorkOn
    <3> QED  BY <1>1, <3>1, <3>2, WorkFields
  <2>2. CASE JobMissing
    <3>1. \E s : me' = Projected(s)  BY <2>2 DEF JobMissing, Goto
    <3> QED  BY <1>1, <3>1, WorkFields
  <2>3. CASE EnsureJob
    <3>1. me' = [me EXCEPT !.pc = "observe", !.run.status.job = Here]  BY <2>3 DEF EnsureJob, Goto
    <3> QED  BY <1>2, <3>1 DEF SameRun, PassFields, RunFields, AtWorkOn
  <2>4. CASE ObserveJob
    <3>1. me' = PrerequisiteFailed("transient") \/ \E s : me' = Projected(s)
      BY <2>4 DEF ObserveJob, Goto
    <3> QED  BY <1>1, <3>1, WorkFields
  <2>5. CASE CancelAbsent
    <3>1. \E s, q : me' = With("patch", s, q)  BY <2>5, Zenon DEF CancelAbsent, Goto
    <3> QED  BY <1>1, <3>1, WorkFields
  <2>6. CASE CancelPresent
    <3>1. \E s, q : me' = With("patch", s, q)  BY <2>6, Zenon DEF CancelPresent, Goto
    <3> QED  BY <1>1, <3>1, WorkFields
  <2> QED  BY <2>1, <2>2, <2>3, <2>4, <2>5, <2>6
<1> QED  BY <1>1, <1>3, <1>4, WorkHolds

\* A pass starts from the run as the informer has it.
LEMMA FetchHandsOver ==
    ASSUME OperatorInv, HandOverInv, Fetch
    PROVE  HandOverInv'
<1>1. /\ Held(obj, cache, pvcs) /\ DOMAIN cache = RunFields
      /\ (fresh => cache = obj)
  BY DEF HandOverInv, OperatorInv, RunsSound
<1>2. /\ Loaded.run = cache /\ Loaded.fresh = fresh /\ Loaded.pc = "patch" /\ Loaded.at = 1
      /\ DOMAIN Loaded = PassFields /\ DOMAIN Loaded.run = RunFields
  BY <1>1, LoadedSound DEF Loaded
<1>3. fresh => obj.exists  BY <1>1 DEF Fetch, Nothing
<1>4. UNCHANGED <<obj, cache, pvcs>>  BY DEF Fetch, kube, outside
<1>5. CASE cache.deleting
  <2> DEFINE p == [Loaded EXCEPT !.pc = "cleanup", !.run.status = Deleting(cache)]
  <2>1. me' = p  BY <1>5 DEF Fetch
  <2>2. /\ p.pc = "cleanup" /\ p.at = 1 /\ p.fresh = fresh
        /\ p.run.finalizer = cache.finalizer /\ p.run.deleting = cache.deleting
    BY <1>1, <1>2 DEF PassFields, RunFields
  <2> HIDE DEF p
  <2>3. NoneLeft(pvcs, p.at - 1)  BY <2>2 DEF NoneLeft, Attempts
  <2>4. PassHolds(p, obj, cache, pvcs)
    BY <1>1, <1>3, <1>5, <2>2, <2>3 DEF PassHolds, Held, AtWorkOn
  <2> QED  BY <1>1, <1>4, <2>1, <2>4 DEF HandOverInv
<1>6. CASE ~cache.deleting
  <2>1. /\ SameRun(me', Loaded) /\ me'.pc \in {"patch", "finalizer", "prepare", "cancel"}
        /\ me'.pc \in {"prepare", "cancel"} => (Retain => cache.finalizer)
    <3>1. CASE ~ValidateAgentRun(cache)
      <4>1. me' = [Loaded EXCEPT !.run.status = Invalid(cache)]  BY <1>6, <3>1 DEF Fetch
      <4> QED  BY <1>2, <4>1 DEF SameRun, PassFields, RunFields
    <3>2. CASE ValidateAgentRun(cache) /\ Retain /\ ~cache.finalizer
      <4>1. me' = [Loaded EXCEPT !.pc = "finalizer"]  BY <1>6, <3>2 DEF Fetch
      <4> QED  BY <1>2, <4>1 DEF SameRun, PassFields
    <3>3. CASE ValidateAgentRun(cache) /\ ~(Retain /\ ~cache.finalizer)
      <4>1. me' = Dispatch(Loaded)  BY <1>6, <3>3 DEF Fetch
      <4>2. SameRun(Dispatch(Loaded), Loaded) /\ Dispatch(Loaded).pc \in {"prepare", "cancel", "patch"}
        BY <1>2, DispatchFields
      <4> QED  BY <3>3, <4>1, <4>2
    <3> QED  BY <3>1, <3>2, <3>3
  <2>2. PassHolds(me', obj, cache, pvcs)
    BY <1>1, <1>2, <1>3, <1>6, <2>1 DEF PassHolds, Held, AtWorkOn, SameRun
  <2> QED  BY <1>1, <1>4, <2>2 DEF HandOverInv
<1> QED  BY <1>5, <1>6

\* The finalizer is on the AgentRun before a workspace is claimed.
LEMMA FinalizerHandsOver ==
    ASSUME OperatorInv, HandOverInv, AddFinalizer
    PROVE  HandOverInv'
<1>1. me.pc = "finalizer"  BY DEF AddFinalizer
<1>2. /\ DOMAIN me = PassFields /\ DOMAIN me.run = RunFields /\ DOMAIN obj = RunFields
  BY <1>1, PassHere, Zenon DEF PassSound, OperatorInv, RunsSound
<1>3. Held(obj, cache, pvcs) /\ PassHolds(me, obj, cache, pvcs)
  BY <1>1, PassHere DEF HandOverInv
<1>4. UNCHANGED <<cache, pvcs>>  BY DEF AddFinalizer, outside
<1>5. CASE NoWrite /\ me' = Idle
  BY <1>3, <1>4, <1>5 DEF NoWrite, HandOverInv
<1>6. CASE /\ me.fresh /\ obj' = [obj EXCEPT !.finalizer = TRUE]
           /\ me' = Dispatch([me EXCEPT !.run.finalizer = TRUE])
  <2> DEFINE o == [obj EXCEPT !.finalizer = TRUE]
             p == [me EXCEPT !.run.finalizer = TRUE]
  <2>1. /\ o.finalizer = TRUE /\ o.exists = obj.exists /\ o.deleting = obj.deleting
        /\ o.status = obj.status
    BY <1>2 DEF RunFields
  <2>2. /\ DOMAIN p = PassFields /\ DOMAIN p.run = RunFields /\ p.run.finalizer = TRUE
        /\ p.run.deleting = me.run.deleting /\ p.fresh = me.fresh
    BY <1>2 DEF PassFields, RunFields
  <2>3. obj' = o /\ me' = Dispatch(p)  BY <1>6
  <2> HIDE DEF o, p
  <2>4. SameRun(me', p) /\ me'.pc \in {"prepare", "cancel", "patch"}
    BY <2>2, <2>3, DispatchFields
  <2>5. obj.exists /\ ~me.run.deleting  BY <1>1, <1>3, <1>6 DEF PassHolds
  <2>6. Held(o, cache, pvcs)  BY <1>3, <2>1, <2>5, Zenon DEF Held
  <2>7. PassHolds(me', o, cache, pvcs)
    BY <1>3, <2>1, <2>2, <2>4, <2>5 DEF PassHolds, SameRun, AtWorkOn
  <2> QED  BY <1>4, <2>3, <2>6, <2>7 DEF HandOverInv
<1> QED  BY <1>5, <1>6 DEF AddFinalizer, Write, Goto, End

\* A clean-up that patches its status.
LEMMA CleanedHolds ==
    ASSUME OperatorInv, HandOverInv, me.pc = "cleanup", NEW state, NEW ps,
           state = "complete" => NoneLeft(ps, Now(me.run.status))
    PROVE  PassHolds(Cleaned(state), obj, cache, ps)
<1> DEFINE s == me.run.status
           t == [s EXCEPT !.cleanup = state]
           p == Cleaned(state)
<1>1. /\ DOMAIN me = PassFields /\ DOMAIN me.run = RunFields /\ DOMAIN s = StatusFields
      /\ PassHolds(me, obj, cache, pvcs)
  BY PassHere, Zenon DEF PassSound, Sound, HandOverInv
<1>2. t.cleanup = state /\ t.attempt = s.attempt  BY <1>1 DEF StatusFields
<1> HIDE DEF t
<1>3. Now(t) = Now(s)  BY <1>2 DEF Now
<1>4. SameRun(p, me) /\ p.pc = "patch" /\ p.run.status = t
  <2>1. p = With("patch", t, TRUE)  BY DEF Cleaned, t
  <2> HIDE DEF p
  <2>2. DOMAIN me = PassFields /\ DOMAIN me.run = RunFields  BY <1>1
  <2>3. /\ SameRun(With("patch", t, TRUE), me) /\ With("patch", t, TRUE).pc = "patch"
        /\ With("patch", t, TRUE).run.status = t
    BY <2>2 DEF With, SameRun, PassFields, RunFields
  <2> QED  BY <2>1, <2>3, Zenon
<1> HIDE DEF p
<1>5. PassHolds(p, obj, cache, ps)
  BY <1>1, <1>2, <1>3, <1>4 DEF PassHolds, SameRun, AtWorkOn
<1> QED  BY <1>5 DEF p

\* A workspace handed over is none left.
LEMMA FewerHeld ==
    ASSUME OperatorInv, HandOverInv, NEW at
    PROVE  /\ Held(obj, cache, [pvcs EXCEPT ![at] = "released"])
           /\ \A n : NoneLeft(pvcs, n) => NoneLeft([pvcs EXCEPT ![at] = "released"], n)
<1>1. DOMAIN pvcs = Attempts  BY DEF OperatorInv, ChildrenSound
<1>2. \A n : NoneLeft(pvcs, n) => NoneLeft([pvcs EXCEPT ![at] = "released"], n)
  BY <1>1 DEF NoneLeft
<1> QED  BY <1>2, Zenon DEF HandOverInv, Held

\* Clean-up hands over one workspace after another, and reads each as it is.
LEMMA CleanupHandsOver ==
    ASSUME OperatorInv, HandOverInv, "pvcs" \notin Lagging, CleanupNext \/ CleanupDone
    PROVE  HandOverInv'
<1> DEFINE s == me.run.status
<1>1. me.pc = "cleanup"  BY DEF CleanupNext, CleanupDone
<1>2. /\ DOMAIN me = PassFields /\ DOMAIN me.run = RunFields
      /\ PassHolds(me, obj, cache, pvcs) /\ Held(obj, cache, pvcs)
      /\ Sound(s, obj.valid, evidence) /\ DOMAIN pvcs = Attempts
  BY <1>1, PassHere, Zenon DEF PassSound, HandOverInv, OperatorInv, ChildrenSound
<1>3. UNCHANGED <<obj, cache>>  BY DEF CleanupNext, CleanupDone, kube, outside
<1>4. CurrentAttempt(s) = Now(s) /\ Now(s) \in Nat /\ me.at \in Nat \ {0}
      /\ NoneLeft(pvcs, me.at - 1)
  <2>1. s.attempt \in Nat  BY <1>2, Numbered
  <2> QED  BY <1>1, <1>2, <2>1, CurrentIsNow DEF Now, PassHolds
<1>5. CASE CleanupDone
  <2>1. NoneLeft(pvcs, Now(s))
    <3>1. Now(s) <= me.at - 1  BY <1>4, <1>5 DEF CleanupDone
    <3> QED  BY <1>4, <3>1 DEF NoneLeft, Attempts
  <2>2. me' = Cleaned("complete") /\ pvcs' = pvcs  BY <1>5 DEF CleanupDone, Goto, kube
  <2>3. PassHolds(Cleaned("complete"), obj, cache, pvcs)  BY <1>1, <2>1, CleanedHolds
  <2> QED  BY <1>2, <1>3, <2>2, <2>3 DEF HandOverInv
<1>6. CASE CleanupNext
  <2> DEFINE p == [me EXCEPT !.at = @ + 1]
  <2>1. /\ SameRun(p, me) /\ p.pc = "cleanup" /\ p.at = me.at + 1 /\ p.run = me.run
    BY <1>1, <1>2 DEF SameRun, PassFields
  <2>2. \/ me' = p /\ pvcs' = pvcs /\ pvcs[me.at] # "retained"
        \/ me' = p /\ pvcs' = [pvcs EXCEPT ![me.at] = "released"]
        \/ me' = CleanupFailed /\ pvcs' = pvcs
    BY <1>6 DEF CleanupNext, Goto, ReadPvc
  <2> HIDE DEF p
  <2>3. CASE me' = CleanupFailed /\ pvcs' = pvcs
    <3>1. PassHolds(CleanupFailed, obj, cache, pvcs)  BY <1>1, CleanedHolds DEF CleanupFailed
    <3> QED  BY <1>2, <1>3, <2>3, <3>1 DEF HandOverInv
  <2>4. CASE me' = p /\ NoneLeft(pvcs', me.at - 1) /\ (me.at \in Attempts => pvcs'[me.at] # "retained")
                     /\ Held(obj, cache, pvcs')
    <3>1. p.at \in Nat \ {0} /\ NoneLeft(pvcs', p.at - 1)
      <4>1. \A a \in Attempts : a <= p.at - 1 => a <= me.at - 1 \/ a = me.at
        BY <1>4, <2>1 DEF Attempts
      <4> QED  BY <1>4, <2>1, <2>4, <4>1 DEF NoneLeft
    <3>2. PassHolds(p, obj, cache, pvcs')
      BY <1>1, <1>2, <2>1, <3>1 DEF PassHolds, SameRun, AtWorkOn
    <3> QED  BY <1>3, <2>4, <3>2 DEF HandOverInv
  <2>5. CASE me' = p /\ pvcs' = [pvcs EXCEPT ![me.at] = "released"]
    <3>1. Held(obj, cache, pvcs') /\ NoneLeft(pvcs', me.at - 1)  BY <1>4, <2>5, FewerHeld, Zenon
    <3>2. me.at \in Attempts => pvcs'[me.at] # "retained"  BY <1>2, <2>5
    <3> QED  BY <2>4, <2>5, <3>1, <3>2
  <2> QED  BY <1>2, <1>4, <2>2, <2>3, <2>4, <2>5
<1> QED  BY <1>5, <1>6

\* What is patched is what was cleaned, and a stale pass releases nothing.
LEMMA PatchHandsOver ==
    ASSUME OperatorInv, HandOverInv, Patch
    PROVE  HandOverInv'
<1> DEFINE p == [me EXCEPT !.pc = "release"]
           s == me.run.status
<1>1. me.pc = "patch"  BY DEF Patch
<1>2. /\ DOMAIN me = PassFields /\ DOMAIN obj = RunFields /\ (me.fresh => me.before = obj.status)
      /\ PassHolds(me, obj, cache, pvcs) /\ Held(obj, cache, pvcs)
  BY <1>1, PassHere, Zenon DEF PassSound, HandOverInv, OperatorInv, RunsSound
<1>3. UNCHANGED <<cache, pvcs>>  BY DEF Patch
<1>4. SameRun(p, me) /\ p.pc = "release" /\ p.run = me.run
  BY <1>2 DEF SameRun, PassFields
<1>5. AfterPatch => \/ me' = Idle
                    \/ me' = p /\ me.run.deleting /\ s.cleanup \in {"complete", "escalated"}
  BY DEF AfterPatch, Goto, End
<1> HIDE DEF p
<1>6. CASE NoWrite /\ me' = Idle  BY <1>2, <1>3, <1>6 DEF NoWrite, HandOverInv
<1>7. CASE NoWrite /\ s = me.before /\ AfterPatch
  <2>1. obj' = obj  BY <1>7 DEF NoWrite
  <2>2. CASE me' = p /\ me.run.deleting /\ s.cleanup \in {"complete", "escalated"}
    <3>1. PassHolds(p, obj, cache, pvcs)
      BY <1>1, <1>2, <1>4, <1>7, <2>2 DEF PassHolds, SameRun, AtWorkOn
    <3> QED  BY <1>2, <1>3, <2>1, <2>2, <3>1 DEF HandOverInv
  <2> QED  BY <1>5, <1>6, <1>7, <2>2
<1>8. CASE me.fresh /\ obj' = [obj EXCEPT !.status = s] /\ AfterPatch
  <2> DEFINE o == [obj EXCEPT !.status = s]
  <2>1. /\ o.exists = obj.exists /\ o.finalizer = obj.finalizer /\ o.deleting = obj.deleting
        /\ o.status = s /\ obj' = o
    BY <1>2, <1>8 DEF RunFields
  <2> HIDE DEF o
  <2>2. obj.exists  BY <1>2, <1>8 DEF PassHolds
  <2>3. Held(o, cache, pvcs)  BY <1>2, <2>1, <2>2 DEF Held
  <2>4. CASE me' = p /\ me.run.deleting /\ s.cleanup \in {"complete", "escalated"}
    <3>1. PassHolds(p, o, cache, pvcs)
      BY <1>1, <1>2, <1>4, <2>1, <2>4 DEF PassHolds, SameRun, AtWorkOn
    <3> QED  BY <1>3, <2>1, <2>3, <2>4, <3>1 DEF HandOverInv
  <2> QED  BY <1>3, <1>5, <1>8, <2>1, <2>3, <2>4 DEF HandOverInv
<1> QED  BY <1>6, <1>7, <1>8 DEF Patch, Write, End

\* The finalizer is only removed from a run whose workspaces were handed over.
LEMMA ReleaseHandsOver ==
    ASSUME OperatorInv, HandOverInv, RemoveFinalizer
    PROVE  HandOverInv'
<1> DEFINE o == [obj EXCEPT !.finalizer = FALSE, !.exists = FALSE]
<1>1. me.pc = "release"  BY DEF RemoveFinalizer
<1>2. /\ DOMAIN obj = RunFields /\ Sound(obj.status, obj.valid, evidence)
      /\ ChildrenSound(jobs, jobCache, pvcs, obj.status, evidence)
      /\ PassHolds(me, obj, cache, pvcs) /\ Held(obj, cache, pvcs)
  BY <1>1, PassHere DEF HandOverInv, OperatorInv, RunsSound
<1>3. UNCHANGED <<cache, pvcs>> /\ me' = Idle  BY DEF RemoveFinalizer, outside, End
<1>4. CASE NoWrite  BY <1>2, <1>3, <1>4 DEF NoWrite, HandOverInv
<1>5. CASE me.fresh /\ obj' = o
  <2>1. /\ o.exists = FALSE /\ o.finalizer = FALSE /\ o.deleting = obj.deleting
        /\ o.status = obj.status
    BY <1>2 DEF RunFields
  <2> HIDE DEF o
  <2>2. obj.status = me.run.status /\ me.run.deleting
        /\ obj.status.cleanup \in {"complete", "escalated"}
    BY <1>1, <1>2, <1>5 DEF PassHolds
  <2>3. obj.status.cleanup # "escalated" => NoneLeft(pvcs, Now(obj.status))
    BY <1>1, <1>2, <2>2 DEF PassHolds
  <2>4. NoneLeft(pvcs, Now(obj.status)) => NoneLeft(pvcs, MaxAttempts)
    BY <1>2 DEF NoneLeft, ChildrenSound
  <2>5. cache.deleting  BY <1>2, <2>2 DEF PassHolds
  <2>6. Held(o, cache, pvcs)
    BY <1>2, <2>1, <2>3, <2>4, <2>5, Zenon DEF Held
  <2> QED  BY <1>3, <1>5, <2>6 DEF HandOverInv
<1> QED  BY <1>4, <1>5, Zenon DEF RemoveFinalizer, Write

\* A failed call, whether or not it was carried out.
LEMMA FailsHandsOver ==
    ASSUME OperatorInv, HandOverInv, CallFails
    PROVE  HandOverInv'
<1>0. cache' = cache  BY DEF CallFails
<1>1. PICK kind \in FaultKinds, done \in BOOLEAN :
        \/ /\ me.pc \in AtWorkOn /\ obj' = obj
           /\ me' = PrerequisiteFailed(kind) \/ me' = CancelFailed(kind)
           /\ pvcs' = pvcs \/ Claim(Here)
        \/ /\ me.pc = "cleanup" /\ me' = CleanupFailed /\ obj' = obj
           /\ pvcs' = pvcs \/ pvcs' = [pvcs EXCEPT ![me.at] = "released"]
        \/ /\ me' = Idle /\ pvcs' = pvcs
           /\ \/ obj' = obj
              \/ me.pc = "finalizer" /\ me.fresh /\ obj' = [obj EXCEPT !.finalizer = TRUE]
              \/ me.pc = "patch" /\ me.fresh /\ obj' = [obj EXCEPT !.status = me.run.status]
              \/ me.pc = "release" /\ me.fresh /\ obj' = [obj EXCEPT !.status.cleanup = "pending"]
  BY Zenon DEF CallFails, Goto, End, Write, NoWrite, AtWorkOn
<1>2. Held(obj, cache, pvcs) /\ DOMAIN obj = RunFields
  BY DEF HandOverInv, OperatorInv, RunsSound
<1>3. CASE /\ me.pc \in AtWorkOn /\ obj' = obj
           /\ me' = PrerequisiteFailed(kind) \/ me' = CancelFailed(kind)
           /\ pvcs' = pvcs \/ Claim(Here)
  <2>1. SameRun(me', me) /\ me'.pc = "patch"  BY <1>3, WorkFields
  <2> QED  BY <1>0, <1>3, <2>1, WorkHolds
<1>4. CASE /\ me.pc = "cleanup" /\ me' = CleanupFailed /\ obj' = obj
           /\ pvcs' = pvcs \/ pvcs' = [pvcs EXCEPT ![me.at] = "released"]
  <2>1. Held(obj, cache, pvcs')  BY <1>2, <1>4, FewerHeld
  <2>2. PassHolds(CleanupFailed, obj, cache, pvcs')  BY <1>4, CleanedHolds DEF CleanupFailed
  <2> QED  BY <1>0, <1>4, <2>1, <2>2 DEF HandOverInv
<1>5. CASE me' = Idle /\ pvcs' = pvcs /\ obj' = obj
  BY <1>0, <1>2, <1>5 DEF HandOverInv
<1>6. CASE /\ me' = Idle /\ pvcs' = pvcs /\ me.fresh
           /\ \/ me.pc = "finalizer" /\ obj' = [obj EXCEPT !.finalizer = TRUE]
              \/ me.pc = "patch" /\ obj' = [obj EXCEPT !.status = me.run.status]
              \/ me.pc = "release" /\ obj' = [obj EXCEPT !.status.cleanup = "pending"]
  <2>1. obj.exists  BY <1>6, PassHere DEF HandOverInv, PassHolds
  <2>2. /\ obj'.exists = obj.exists /\ obj'.deleting = obj.deleting
        /\ obj'.finalizer = obj.finalizer \/ obj'.finalizer = TRUE
    BY <1>2, <1>6 DEF RunFields
  <2>3. Held(obj', cache, pvcs)  BY <1>2, <2>1, <2>2, Zenon DEF Held
  <2> QED  BY <1>0, <1>6, <2>3 DEF HandOverInv
<1> QED  BY <1>1, <1>3, <1>4, <1>5, <1>6

\* A restart, and the informers catching up.
LEMMA SyncHandsOver ==
    ASSUME OperatorInv, HandOverInv, Restart \/ SyncRun \/ SyncChildren
    PROVE  HandOverInv'
<1>1. Held(obj, cache, pvcs)  BY DEF HandOverInv
<1>2. Held(obj, obj, pvcs)  BY <1>1 DEF Held
<1>3. CASE Restart  BY <1>2, <1>3 DEF Restart, HandOverInv
<1>4. CASE SyncRun
  <2>1. PassHolds(me, obj, cache, pvcs) => PassHolds(me, obj, obj, pvcs)
    BY <1>1 DEF PassHolds, Held
  <2> QED  BY <1>2, <1>4, <2>1 DEF SyncRun, HandOverInv
<1>5. CASE SyncChildren  BY <1>5 DEF SyncChildren, kube, HandOverInv
<1> QED  BY <1>3, <1>4, <1>5

\* A deletion of the object waits for the finalizer, if there is one.
LEMMA RequestHandsOver ==
    ASSUME OperatorInv, HandOverInv, RequestCancel \/ RequestDelete
    PROVE  HandOverInv'
<1>1. Held(obj, cache, pvcs) /\ DOMAIN obj = RunFields
  BY DEF HandOverInv, OperatorInv, RunsSound
<1>2. /\ obj.exists /\ UNCHANGED <<cache, pvcs>>
      /\ me' = IF me = Idle THEN me ELSE [me EXCEPT !.fresh = FALSE]
  BY DEF RequestCancel, RequestDelete, Written, outside
<1>3. /\ obj'.finalizer = obj.finalizer /\ obj'.status = obj.status
      /\ \/ obj'.exists = obj.exists /\ obj'.deleting = obj.deleting
         \/ obj'.exists = obj.finalizer /\ obj'.deleting = TRUE
  BY <1>1, Zenon DEF RequestCancel, RequestDelete, Written, Write, RunFields
<1>4. Held(obj', cache, pvcs)
  BY <1>1, <1>2, <1>3, Zenon DEF Held
<1>5. me' = Idle \/ PassHolds(me', obj', cache, pvcs)
  <2>1. CASE me = Idle  BY <1>2, <2>1
  <2>2. CASE me # Idle
    <3> DEFINE p == [me EXCEPT !.fresh = FALSE]
    <3>1. PassHolds(me, obj, cache, pvcs) /\ DOMAIN me = PassFields
      BY <2>2 DEF HandOverInv, OperatorInv, PassSound
    <3>2. /\ p.pc = me.pc /\ p.run = me.run /\ p.fresh = FALSE /\ p.at = me.at
      BY <3>1 DEF PassFields
    <3>3. me' = p  BY <1>2, <2>2
    <3> HIDE DEF p
    <3>4. PassHolds(p, obj', cache, pvcs)
      BY <1>1, <1>2, <1>3, <3>1, <3>2, Zenon DEF PassHolds, Held
    <3> QED  BY <3>3, <3>4
  <2> QED  BY <2>1, <2>2
<1> QED  BY <1>2, <1>4, <1>5 DEF HandOverInv

\* The object starts without a finalizer and without workspaces.
LEMMA InitialHandOver ==
    ASSUME Init
    PROVE  HandOverInv
<1>1. /\ obj.exists = TRUE /\ obj.finalizer = FALSE /\ cache.finalizer = FALSE
      /\ cache.deleting = FALSE /\ me = Idle
      /\ \A a \in Attempts : pvcs[a] = "absent"
  BY DEF Init
<1> QED  BY <1>1, Zenon DEF HandOverInv, Held, NoneLeft

\* No step loses a workspace.
LEMMA StepsHandOver ==
    ASSUME OperatorInv, HandOverInv, "pvcs" \notin Lagging, [Next]_vars
    PROVE  HandOverInv'
<1>1. CASE Reconciler
  <2>1. CASE FetchNothing  BY <2>1 DEF FetchNothing, kube, outside, HandOverInv
  <2> QED
    BY <1>1, <2>1, FetchHandsOver, FinalizerHandsOver, WorkHandsOver, CleanupHandsOver,
       PatchHandsOver, ReleaseHandsOver DEF Reconciler
<1>2. CASE CallFails  BY <1>2, FailsHandsOver
<1>3. CASE Restart \/ SyncRun \/ SyncChildren  BY <1>3, SyncHandsOver
<1>4. CASE RequestCancel \/ RequestDelete  BY <1>4, RequestHandsOver
<1>5. CASE \E a \in Attempts : JobRuns(a) \/ JobStops(a) \/ JobGone(a) \/ JobRemoved(a)
  BY <1>5 DEF JobRuns, JobStops, JobGone, JobRemoved, Becomes, HandOverInv
<1>6. CASE \/ \E what \in {"configuration", "storage"} : Available(what)
           \/ \E deadline \in Deadlines : Elapse(deadline)
  BY <1>6 DEF Available, Elapse, kube, HandOverInv
<1>7. CASE UNCHANGED vars  BY <1>7 DEF vars, HandOverInv
<1> QED  BY <1>1, <1>2, <1>3, <1>4, <1>5, <1>6, <1>7 DEF Next

\* A deleted AgentRun leaves no retained workspace behind unless its clean-up
\* was escalated, whatever order the deletion, the claims, the conflicts and
\* the restarts come in, provided that clean-up reads the claims themselves
\* and not a lagging informer.
THEOREM WorkspacesAreHandedOver ==
    ASSUME "pvcs" \notin Lagging
    PROVE  Spec => []WorkspacesHandedOver
<1>1. Init => HandOverInv  BY InitialHandOver
<1>2. OperatorInv /\ HandOverInv /\ [Next]_vars => HandOverInv'  BY StepsHandOver
<1>3. HandOverInv => WorkspacesHandedOver
  <2>1. \A a \in Attempts : a <= MaxAttempts  BY OperatorConstants DEF Attempts
  <2> QED  BY <2>1 DEF HandOverInv, Held, NoneLeft, WorkspacesHandedOver
<1> QED  BY <1>1, <1>2, <1>3, OperatorInvariant, PTL DEF Spec
-----------------------------------------------------------------------------
(* A Job is only called missing once it was there, as long as it is read as  *)
(* it is.                                                                    *)

\* The attempts whose Job a status remembers, those it fails as INTERNAL, and
\* the attempts whose Job is on its way out or gone.
Remembered(s) == {a \in Attempts : s.attempt > a \/ (s.attempt = a /\ s.job # 0)}
Internal(s) == {a \in Attempts : s.history[a].failure = "INTERNAL"}
Gone(js) == {a \in Attempts : js[a] \in Ending \union {"deleted"}}

\* A status names only a Job that was made, and holds INTERNAL against an
\* attempt only once it has failed.
Honest(s, js) ==
    /\ s.failure = "INTERNAL" => s.phase = "Failed"
    /\ s.attempt = 0 => s.job = 0
    /\ s.job # 0 => js[Now(s)] # "absent"

RunsHonest(run, copy, js) ==
    /\ Honest(run.status, js) /\ Honest(copy.status, js)
    /\ Remembered(copy.status) \subseteq Remembered(run.status)
    /\ Internal(run.status) \union Internal(copy.status)
         \subseteq Gone(js) \intersect Remembered(copy.status)

PassHonest(m, run, copy, js) ==
    /\ Honest(m.before, js) /\ Honest(m.run.status, js)
    /\ Remembered(m.before) \subseteq Remembered(copy.status) \intersect Remembered(m.run.status)
    /\ UNION {Internal(run.status), Internal(copy.status), Internal(m.before), Internal(m.run.status)}
         \subseteq Gone(js) \intersect Remembered(m.before)
    /\ m.pc \in {"prepare", "job", "cancel"} => m.run.status.job = m.before.job
    /\ m.pc = "observe" => m.run.status.job # 0

MissingJobInv ==
    /\ RunsHonest(obj, cache, jobs)
    /\ me = Idle \/ PassHonest(me, obj, cache, jobs)

\* One status after another in a pass that holds INTERNAL against no attempt
\* but those of extra.
Evolves(s, t, js, extra) ==
    /\ Honest(t, js)
    /\ Remembered(s) \subseteq Remembered(t)
    /\ Internal(t) \subseteq Internal(s) \union extra

\* Steps of a status add up.
LEMMA EvolvesOn ==
    ASSUME NEW s, NEW t, NEW u, NEW js, NEW extra, Evolves(s, t, js, extra), Evolves(t, u, js, {})
    PROVE  Evolves(s, u, js, extra)
BY DEF Evolves

\* A status that keeps its history and its Job.
LEMMA NotedEvolves ==
    ASSUME NEW s, NEW t, NEW js, s.attempt \in Nat, Honest(s, js),
           t.history = s.history, t.job = s.job, t.attempt \in {s.attempt, Now(s)},
           t.failure # "INTERNAL" \/ (t.failure = s.failure /\ t.phase = s.phase)
    PROVE  Evolves(s, t, js, {})
<1>1. Now(t) = Now(s) /\ (t.attempt = s.attempt \/ (s.attempt = 0 /\ t.attempt = 1))
  BY DEF Now
<1>2. Honest(t, js)  BY <1>1 DEF Honest
<1>3. Remembered(s) \subseteq Remembered(t)  BY <1>1 DEF Remembered, Honest, Attempts
<1>4. Internal(t) = Internal(s)  BY DEF Internal
<1> QED  BY <1>2, <1>3, <1>4 DEF Evolves

\* upsertAttempt writes only the current attempt's entry.
LEMMA UpsertEntry ==
    ASSUME NEW u, DOMAIN u = StatusFields, DOMAIN u.history = Attempts, u.attempt \in Nat \ {0}
    PROVE  /\ Upsert(u).attempt = u.attempt /\ Upsert(u).job = u.job
           /\ Upsert(u).failure = u.failure /\ Upsert(u).phase = u.phase
           /\ \A a \in Attempts : Upsert(u).history[a].failure =
                IF a = u.attempt THEN u.failure ELSE u.history[a].failure
<1>1. CurrentAttempt(u) = u.attempt  BY CurrentIsNow DEF Now
<1>2. DOMAIN u = StatusFields /\ DOMAIN u.history = Attempts  OBVIOUS
<1> DEFINE t == Upsert(u)
           e == [phase |-> u.phase, failure |-> u.failure]
<1>3. t = [u EXCEPT !.history = [@ EXCEPT ![u.attempt] = e]]
  BY <1>1 DEF Upsert
<1>4. e.failure = u.failure  OBVIOUS
<1> HIDE DEF e
<1>5. /\ t.attempt = u.attempt /\ t.job = u.job /\ t.failure = u.failure /\ t.phase = u.phase
      /\ t.history = [u.history EXCEPT ![u.attempt] = e]
  BY <1>2, <1>3 DEF StatusFields
<1> HIDE DEF t
<1>6. \A a \in Attempts : t.history[a].failure =
                IF a = u.attempt THEN u.failure ELSE u.history[a].failure
  BY <1>2, <1>4, <1>5
<1> QED  BY <1>5, <1>6 DEF t

\* It holds INTERNAL against that attempt only if the status says so.
LEMMA UpsertEvolves ==
    ASSUME NEW s, NEW u, NEW js, NEW extra, Honest(s, js), s.attempt \in Nat \ {0},
           DOMAIN u = StatusFields, DOMAIN u.history = Attempts,
           u.history = s.history, u.attempt = s.attempt, u.job = s.job,
           u.failure = "INTERNAL" => u.phase = "Failed" /\ s.attempt \in extra
    PROVE  Evolves(s, Upsert(u), js, extra)
<1> DEFINE t == Upsert(u)
<1>1. /\ t.attempt = s.attempt /\ t.job = s.job /\ t.failure = u.failure /\ t.phase = u.phase
      /\ \A a \in Attempts : t.history[a].failure =
           IF a = s.attempt THEN u.failure ELSE s.history[a].failure
  BY UpsertEntry
<1> HIDE DEF t
<1>2. Honest(t, js)  BY <1>1 DEF Honest, Now
<1>3. Remembered(s) \subseteq Remembered(t)  BY <1>1 DEF Remembered
<1>4. Internal(t) \subseteq Internal(s) \union extra  BY <1>1 DEF Internal
<1>5. Evolves(s, t, js, extra)  BY <1>2, <1>3, <1>4 DEF Evolves
<1> QED  BY <1>5 DEF t

\* No failure is not a failure.
LEMMA NoFailureIsNot == NoFailure # "INTERNAL"
BY Zenon DEF NoFailure

\* A retry remembers the Jobs of the attempts before it.
LEMMA RetryEvolves ==
    ASSUME NEW s, NEW g, NEW ev, NEW js, Sound(s, TRUE, ev), Honest(s, js), RetryAllowed(s)
    PROVE  Evolves(s, ReconcileRetry(s, g), js, {})
<1>0. /\ s.attempt \in Nat /\ s.attempt < MaxAttempts /\ s.attempt # 0 /\ MaxAttempts \in Nat
      /\ DOMAIN s = StatusFields /\ DOMAIN s.history = Attempts
  BY Numbered, Zenon DEF Sound, RetryAllowed
<1>1. CASE ~("backoff" \in overdue /\ (s.completed \/ s.backoff))
  <2> DEFINE t == [s EXCEPT !.backoff = TRUE]
  <2>1. /\ t.history = s.history /\ t.attempt = s.attempt /\ t.job = s.job
        /\ t.phase = s.phase /\ t.failure = s.failure
    BY <1>0 DEF StatusFields
  <2>2. ReconcileRetry(s, g) = t  BY <1>1 DEF ReconcileRetry
  <2> HIDE DEF t
  <2> QED  BY <1>0, <2>1, <2>2, NotedEvolves
<1>2. CASE "backoff" \in overdue /\ (s.completed \/ s.backoff)
  <2> DEFINE u == [s EXCEPT !.attempt = @ + 1, !.phase = "Pending", !.job = 0,
                            !.completed = FALSE, !.failure = NoFailure,
                            !.observed = g, !.backoff = FALSE]
             t == Upsert(u)
  <2>1. /\ DOMAIN u = StatusFields /\ u.history = s.history /\ u.attempt = s.attempt + 1
        /\ u.job = 0 /\ u.failure = NoFailure
    BY <1>0 DEF StatusFields
  <2>2. ReconcileRetry(s, g) = t  BY <1>2 DEF ReconcileRetry
  <2> HIDE DEF u
  <2>3. /\ t.attempt = u.attempt /\ t.job = u.job /\ t.failure = u.failure
        /\ \A a \in Attempts : t.history[a].failure =
             IF a = u.attempt THEN u.failure ELSE u.history[a].failure
    <3>1. DOMAIN u.history = Attempts /\ u.attempt \in Nat \ {0}  BY <1>0, <2>1
    <3> QED  BY <2>1, <3>1, UpsertEntry
  <2> HIDE DEF t
  <2>4. Honest(t, js)  BY <1>0, <2>1, <2>3, NoFailureIsNot DEF Honest
  <2>5. Remembered(s) \subseteq Remembered(t)
    BY <1>0, <2>1, <2>3 DEF Remembered, Attempts
  <2>6. Internal(t) \subseteq Internal(s)
    BY <2>1, <2>3, NoFailureIsNot DEF Internal
  <2> QED  BY <2>2, <2>4, <2>5, <2>6 DEF Evolves
<1> QED  BY <1>1, <1>2

\* projectLifecycle may hold INTERNAL against the current attempt.
LEMMA ProjectEvolves ==
    ASSUME NEW s, NEW o, NEW ev, NEW js, NEW extra, Sound(s, TRUE, ev), Honest(s, js),
           s.attempt # 0,
           o.failure = "INTERNAL" => o.phase = "Failed" /\ s.attempt \in extra
    PROVE  Evolves(s, ProjectLifecycle(s, o), js, extra)
<1> DEFINE u == ProjectedOnly(s, o)
<1>1. DOMAIN s = StatusFields /\ DOMAIN s.history = Attempts /\ s.attempt \in Nat \ {0}
  BY Numbered, Zenon DEF Sound
<1>2. /\ DOMAIN u = StatusFields /\ u.history = s.history /\ u.attempt = s.attempt
      /\ u.job = s.job /\ u.failure = o.failure /\ u.phase = o.phase
  BY <1>1 DEF ProjectedOnly, StatusFields
<1> HIDE DEF u
<1>3. Evolves(s, Upsert(u), js, extra)  BY <1>1, <1>2, UpsertEvolves
<1> QED  BY <1>3 DEF ProjectLifecycle, u

\* Cancellation holds nothing new against an attempt under way.
LEMMA CancelEvolves ==
    ASSUME NEW s, NEW ev, NEW js, Sound(s, TRUE, ev), Honest(s, js), s.attempt # 0,
           s.failure # "INTERNAL"
    PROVE  Evolves(s, Cancelled(s), js, {}) /\ Evolves(s, Cancelling(s), js, {})
<1> DEFINE d == [s EXCEPT !.phase = "Cancelled", !.completed = TRUE, !.cancelling = FALSE]
           b == [s EXCEPT !.phase = "Cancelling", !.cancelling = TRUE]
<1>1. DOMAIN s = StatusFields /\ DOMAIN s.history = Attempts /\ s.attempt \in Nat \ {0}
  BY Numbered, Zenon DEF Sound
<1>2. /\ DOMAIN d = StatusFields /\ d.history = s.history /\ d.attempt = s.attempt
      /\ d.job = s.job /\ d.failure = s.failure
      /\ DOMAIN b = StatusFields /\ b.history = s.history /\ b.attempt = s.attempt
      /\ b.job = s.job /\ b.failure = s.failure
  BY <1>1 DEF StatusFields
<1>3. Cancelled(s) = Upsert(d) /\ Cancelling(s) = Upsert(b)  BY DEF Cancelled, Cancelling
<1> HIDE DEF d, b
<1>4. Evolves(s, Upsert(d), js, {})  BY <1>1, <1>2, UpsertEvolves
<1>5. Evolves(s, Upsert(b), js, {})  BY <1>1, <1>2, UpsertEvolves
<1> QED  BY <1>3, <1>4, <1>5

\* What is observed of a Job that is there is never INTERNAL.
LEMMA ObserveNotInternal ==
    ASSUME NEW state \in JobStates, state \notin NoJob, NEW o \in Observe(state)
    PROVE  o.failure # "INTERNAL"
<1>1. state \in {"pending", "unpullable", "rejected", "running", "terminating", "killed",
                 "complete", "unproven", "failed", "evicted"}
  BY DEF JobStates, NoJob, Ending, Live, Finished
<1>0. Waiting.failure # "INTERNAL"  BY NoFailureIsNot DEF Waiting, Observation
<1>2. CASE state = "pending"  BY <1>0, <1>2 DEF Observe, Ending
<1>3. CASE state = "unpullable"  BY <1>0, <1>3 DEF Observe, Observation, Ending
<1>4. CASE state = "rejected"  BY <1>0, <1>4 DEF Observe, Observation, Ending
<1>5. CASE state \in {"running"} \union Ending
  <2>1. state \in {"running", "terminating", "killed"}  BY <1>5 DEF Ending
  <2> QED  BY <1>0, <1>5, <2>1, NoFailureIsNot DEF Observe, Observation
<1>6. CASE state = "complete"  BY <1>0, <1>6, NoFailureIsNot DEF Observe, Observation, Ending
<1>7. CASE state = "unproven"  BY <1>0, <1>7 DEF Observe, Observation, Ending
<1>8. CASE state = "failed"  BY <1>0, <1>8 DEF Observe, Observation, Ending
<1>9. CASE state = "evicted"  BY <1>0, <1>9 DEF Observe, Observation, Ending
<1> QED  BY <1>1, <1>2, <1>3, <1>4, <1>5, <1>6, <1>7, <1>8, <1>9 DEF Ending

-----------------------------------------------------------------------------
\* A step of the Jobs that none of the attempts in R notices.
JobsKept(js, after, R) ==
    \A a \in Attempts :
        /\ js[a] # "absent" => after[a] # "absent"
        /\ a \in R /\ a \in Gone(js) => a \in Gone(after)

\* What is said of statuses stays true of Jobs that move on.
LEMMA HonestStays ==
    ASSUME NEW s, NEW js, NEW after, NEW R, NEW valid, NEW ev, Sound(s, valid, ev),
           Honest(s, js), JobsKept(js, after, R)
    PROVE  Honest(s, after)
<1>1. Now(s) \in Attempts
  <2>1. s.attempt \in Nat /\ s.attempt <= MaxAttempts /\ MaxAttempts \in Nat  BY Numbered
  <2> QED  BY <2>1, OperatorConstants DEF Now, Attempts
<1> QED  BY <1>1 DEF Honest, JobsKept

\* The statuses of the object, its copy and the pass are all sound.
LEMMA AllSound ==
    ASSUME OperatorInv
    PROVE  /\ Sound(obj.status, obj.valid, evidence) /\ Sound(cache.status, obj.valid, evidence)
           /\ me # Idle => /\ Sound(me.before, obj.valid, evidence)
                           /\ Sound(me.run.status, obj.valid, evidence)
BY DEF OperatorInv, RunsSound, PassSound

\* A pass moves, and the Jobs it may remember keep what was said of them.
LEMMA PassHonestMoves ==
    ASSUME OperatorInv, MissingJobInv, me # Idle, UNCHANGED <<obj, cache>>,
           JobsKept(jobs, jobs', Remembered(me.before)),
           PassHonest(me', obj, cache, jobs')
    PROVE  MissingJobInv'
<1>1. RunsHonest(obj, cache, jobs) /\ PassHonest(me, obj, cache, jobs)
  BY DEF MissingJobInv
<1>2. Honest(obj.status, jobs') /\ Honest(cache.status, jobs')
  BY <1>1, AllSound, HonestStays DEF RunsHonest
<1>3. Internal(obj.status) \union Internal(cache.status) \subseteq Gone(jobs')
  BY <1>1 DEF PassHonest, JobsKept, Gone
<1>4. RunsHonest(obj, cache, jobs')
  BY <1>1, <1>2, <1>3 DEF RunsHonest
<1> QED  BY <1>4 DEF MissingJobInv

\* What a pass at work is told of its status and its attempt.
LEMMA WorkHonest ==
    ASSUME OperatorInv, MissingJobInv, me.pc \in AtWorkOn
    PROVE  /\ me # Idle /\ PassHonest(me, obj, cache, jobs)
           /\ DOMAIN me = PassFields /\ DOMAIN me.run = RunFields
           /\ Sound(me.run.status, TRUE, evidence) /\ Honest(me.run.status, jobs)
           /\ Here \in Attempts /\ Here = Now(me.before)
           /\ Here = me.run.status.attempt /\ me.run.status.attempt \in Nat \ {0}
           /\ me.run.status.failure # "INTERNAL"
<1>1. me # Idle /\ Working(me)  BY AtWork DEF AtWorkOn
<1>2. /\ PassSound(me, obj.status, TRUE, evidence)
      /\ Here \in Attempts /\ Sound(me.run.status, TRUE, evidence)
  BY <1>1, HereCommitted, Zenon
<1>3. PassHonest(me, obj, cache, jobs)  BY <1>1 DEF MissingJobInv
<1>4. Honest(me.run.status, jobs)  BY <1>3 DEF PassHonest
<1>5. me.run.status.failure # "INTERNAL"
  BY <1>1, <1>4 DEF Working, Terminal, Honest
<1>6. Here = Now(me.before) /\ Here = me.run.status.attempt  BY <1>1 DEF Working, Here
<1>7. me.run.status.attempt \in Nat \ {0}  BY <1>2, <1>6 DEF Attempts
<1>8. DOMAIN me = PassFields /\ DOMAIN me.run = RunFields  BY <1>2, Zenon DEF PassSound
<1> QED  BY <1>1, <1>2, <1>3, <1>4, <1>5, <1>6, <1>7, <1>8, Zenon

\* A pass goes on to patch a status that follows from its own.
LEMMA PatchHonest ==
    ASSUME OperatorInv, MissingJobInv, me # Idle, NEW p, NEW extra,
           p.before = me.before, p.pc \in {"patch", "release", "cleanup"},
           Evolves(me.run.status, p.run.status, jobs, extra),
           extra \subseteq Gone(jobs) \intersect Remembered(me.before)
    PROVE  PassHonest(p, obj, cache, jobs)
<1>1. PassHonest(me, obj, cache, jobs)  BY DEF MissingJobInv
<1>2. Internal(p.run.status) \subseteq Gone(jobs) \intersect Remembered(me.before)
  BY <1>1 DEF PassHonest, Evolves
<1>3. Honest(p.run.status, jobs) /\ Remembered(me.before) \subseteq Remembered(p.run.status)
  BY <1>1 DEF PassHonest, Evolves
<1> QED  BY <1>1, <1>2, <1>3 DEF PassHonest

\* So does a pass whose step touches the Jobs.
LEMMA PatchHonestMoves ==
    ASSUME OperatorInv, MissingJobInv, me # Idle, NEW extra, UNCHANGED <<obj, cache>>,
           JobsKept(jobs, jobs', Remembered(me.before)),
           me'.before = me.before, me'.pc \in {"patch", "release", "cleanup"},
           OperatorInv', me' # Idle,
           Evolves(me.run.status, me'.run.status, jobs, extra),
           extra \subseteq Gone(jobs) \intersect Remembered(me.before)
    PROVE  MissingJobInv'
<1>1. PassHonest(me', obj, cache, jobs)  BY PatchHonest
<1>2. Sound(me'.before, obj'.valid, evidence') /\ Sound(me'.run.status, obj'.valid, evidence')
  BY DEF OperatorInv, PassSound
<1>3. Honest(me'.before, jobs') /\ Honest(me'.run.status, jobs')
  BY <1>1, <1>2, HonestStays DEF PassHonest
<1>4. UNION {Internal(obj.status), Internal(cache.status), Internal(me'.before),
             Internal(me'.run.status)} \subseteq Gone(jobs')
  BY <1>1 DEF PassHonest, JobsKept, Gone
<1>5. PassHonest(me', obj, cache, jobs')  BY <1>1, <1>3, <1>4 DEF PassHonest
<1> QED  BY <1>5, PassHonestMoves

\* The status of a pass at work, wherever it ends.
LEMMA WorkEvolves ==
    ASSUME OperatorInv, MissingJobInv, me.pc \in AtWorkOn, NEW kind, NEW q
    PROVE  /\ Evolves(me.run.status, Provisioning.run.status, jobs, {})
           /\ Evolves(me.run.status, PrerequisiteFailed(kind).run.status, jobs, {})
           /\ Evolves(me.run.status, CancelFailed(kind).run.status, jobs, {})
           /\ Provisioning.before = me.before /\ PrerequisiteFailed(kind).before = me.before
           /\ CancelFailed(kind).before = me.before
<1> DEFINE s == me.run.status
<1>1. /\ DOMAIN me = PassFields /\ DOMAIN me.run = RunFields
      /\ Sound(s, TRUE, evidence) /\ Honest(s, jobs) /\ s.attempt \in Nat \ {0}
      /\ s.failure # "INTERNAL"
  BY WorkHonest, Zenon
<1>2. DOMAIN s = StatusFields /\ s.attempt \in Nat  BY <1>1, Zenon DEF Sound
<1>3. \A t, r : With("patch", t, r).run.status = t /\ With("patch", t, r).before = me.before
  BY <1>1, WithFields
<1>4. Evolves(s, Provisioning.run.status, jobs, {}) /\ Provisioning.before = me.before
  <2> DEFINE t == [s EXCEPT !.phase = "Provisioning"]
  <2>1. t.history = s.history /\ t.attempt = s.attempt /\ t.job = s.job /\ t.failure = s.failure
    BY <1>2 DEF StatusFields
  <2>2. \E r : Provisioning = With("patch", t, r)  BY Zenon DEF Provisioning
  <2> HIDE DEF t
  <2>3. Evolves(s, t, jobs, {})  BY <1>1, <1>2, <2>1, NotedEvolves
  <2> QED  BY <1>3, <2>2, <2>3
<1>5. Evolves(s, PrerequisiteFailed(kind).run.status, jobs, {})
      /\ PrerequisiteFailed(kind).before = me.before
  <2> DEFINE t == IF kind = "permanent" THEN [s EXCEPT !.phase = "Failed", !.failure = "POLICY"]
                  ELSE [s EXCEPT !.phase = "Provisioning", !.failure = "TRANSIENT_DEPENDENCY"]
  <2>1. t.history = s.history /\ t.attempt = s.attempt /\ t.job = s.job /\ t.failure # "INTERNAL"
    BY <1>2 DEF StatusFields
  <2>2. \E r : PrerequisiteFailed(kind) = With("patch", t, r)  BY Zenon DEF PrerequisiteFailed
  <2> HIDE DEF t
  <2>3. Evolves(s, t, jobs, {})  BY <1>1, <1>2, <2>1, NotedEvolves
  <2> QED  BY <1>3, <2>2, <2>3
<1>6. Evolves(s, CancelFailed(kind).run.status, jobs, {}) /\ CancelFailed(kind).before = me.before
  <2> DEFINE c == Cancelling(s)
             f == IF kind = "permanent" THEN "POLICY" ELSE "TRANSIENT_DEPENDENCY"
             t == [c EXCEPT !.failure = f]
             b == [s EXCEPT !.phase = "Cancelling", !.cancelling = TRUE]
  <2>1. Evolves(s, c, jobs, {})  BY <1>1, CancelEvolves, Zenon
  <2>2. \E r : CancelFailed(kind) = With("patch", t, r)  BY DEF CancelFailed
  <2>3. f # "INTERNAL"  OBVIOUS
  <2>4. /\ DOMAIN b = StatusFields /\ b.history = s.history /\ b.attempt = s.attempt
        /\ c = Upsert(b)
    BY <1>2 DEF StatusFields, Cancelling
  <2> HIDE DEF b, f
  <2>5. DOMAIN c = StatusFields /\ c.attempt = s.attempt
    <3>1. DOMAIN b.history = Attempts  BY <1>1, <2>4, Zenon DEF Sound
    <3>2. b.attempt \in Nat \ {0}  BY <1>1, <2>4
    <3>3. DOMAIN Upsert(b) = DOMAIN b  BY DEF Upsert
    <3>4. Upsert(b).attempt = b.attempt  BY <2>4, <3>1, <3>2, UpsertEntry
    <3> QED  BY <2>4, <3>3, <3>4
  <2> HIDE DEF c
  <2>6. t.history = c.history /\ t.attempt = c.attempt /\ t.job = c.job /\ t.failure = f
    BY <2>5 DEF StatusFields
  <2> HIDE DEF t
  <2>7. Honest(c, jobs)  BY <2>1 DEF Evolves
  <2>8. Evolves(c, t, jobs, {})  BY <1>2, <2>3, <2>5, <2>6, <2>7, NotedEvolves
  <2>9. Evolves(s, t, jobs, {})  BY <2>1, <2>8, EvolvesOn
  <2> QED  BY <1>3, <2>2, <2>9
<1> QED  BY <1>4, <1>5, <1>6

\* An observation of the current attempt, and the retry it may call for.
LEMMA ObservedEvolves ==
    ASSUME OperatorInv, MissingJobInv, me.pc \in AtWorkOn, NEW o, NEW extra, NEW q,
           o.phase = "Succeeded" => Here \in evidence,
           o.failure = "INTERNAL" => o.phase = "Failed" /\ Here \in extra
    PROVE  LET t == ProjectLifecycle(me.run.status, o)
           IN  /\ Evolves(me.run.status, Projected(t).run.status, jobs, extra)
               /\ Projected(t).before = me.before
               /\ Evolves(me.run.status, With("patch", t, q).run.status, jobs, extra)
               /\ With("patch", t, q).before = me.before
<1> DEFINE s == me.run.status
           t == ProjectLifecycle(s, o)
           u == ReconcileRetry(t, me.run.generation)
<1>1. /\ DOMAIN me = PassFields /\ DOMAIN me.run = RunFields
      /\ Sound(s, TRUE, evidence) /\ Honest(s, jobs) /\ s.attempt # 0 /\ Here = s.attempt
  BY WorkHonest, Zenon
<1>2. Evolves(s, t, jobs, extra)  BY <1>1, ProjectEvolves, Zenon
<1>3. Sound(t, TRUE, evidence)  BY <1>1, ProjectSound, Zenon
<1>4. \A v, r : With("patch", v, r).run.status = v /\ With("patch", v, r).before = me.before
  BY <1>1, WithFields
<1>5. Honest(t, jobs)  BY <1>2 DEF Evolves
<1> HIDE DEF t
<1>6. RetryAllowed(t) => Evolves(t, u, jobs, {})  BY <1>3, <1>5, RetryEvolves, Zenon
<1>7. \/ RetryAllowed(t) /\ \E r : Projected(t) = With("patch", u, r)
      \/ \E r : Projected(t) = With("patch", t, r)
  BY Zenon DEF Projected
<1> HIDE DEF u
<1>8. RetryAllowed(t) => Evolves(s, u, jobs, extra)  BY <1>2, <1>6, EvolvesOn
<1>9. Evolves(s, Projected(t).run.status, jobs, extra) /\ Projected(t).before = me.before
  BY <1>2, <1>4, <1>7, <1>8
<1> QED  BY <1>2, <1>4, <1>9 DEF t

\* Nothing happens to the Jobs.
LEMMA JobsStay ==
    ASSUME NEW R
    PROVE  JobsKept(jobs, jobs, R)
BY DEF JobsKept

\* A Job that is deleted was there.
LEMMA DeleteKeeps ==
    ASSUME OperatorInv, NEW a \in Attempts, NEW forced, NEW R, Delete(a, forced)
    PROVE  JobsKept(jobs, jobs', R)
<1>1. jobs \in [Attempts -> JobStates]  BY DEF OperatorInv, ChildrenSound
<1>2. \/ jobs' = jobs
      \/ jobs[a] \notin NoJob /\ jobs' = [jobs EXCEPT ![a] = "killed"]
      \/ jobs[a] \notin NoJob /\ jobs' = [jobs EXCEPT ![a] = "terminating"]
  BY DEF Delete
<1> QED  BY <1>1, <1>2 DEF JobsKept, Gone, Ending

\* A Job is made for an attempt that does not remember one.
LEMMA ApplyKeeps ==
    ASSUME OperatorInv, MissingJobInv, me.pc = "job" \/ me.pc = "observe",
           "jobs" \notin Lagging, Apply(Here),
           me.run.status.job = 0 \/ ReadJob(Here) \notin NoJob
    PROVE  /\ JobsKept(jobs, jobs', Remembered(me.before))
           /\ jobs'[Here] # "absent"
<1>1. jobs \in [Attempts -> JobStates]  BY DEF OperatorInv, ChildrenSound
<1>2. PassHonest(me, obj, cache, jobs) /\ Here \in Attempts /\ Here = Now(me.before)
      /\ Sound(me.before, obj.valid, evidence)
  BY WorkHonest, AllSound, Zenon DEF AtWorkOn
<1>3. \/ jobs' = jobs /\ jobs[Here] \notin NoJob
      \/ jobs[Here] \in NoJob /\ me.run.status.job = 0 /\ jobs' = [jobs EXCEPT ![Here] = "pending"]
  BY DEF Apply, ReadJob
<1>4. CASE jobs' = jobs /\ jobs[Here] \notin NoJob  BY <1>4, JobsStay DEF NoJob
<1>5. CASE jobs[Here] \in NoJob /\ me.run.status.job = 0 /\ jobs' = [jobs EXCEPT ![Here] = "pending"]
  <2>1. me.before.job = 0  BY <1>2, <1>5 DEF PassHonest
  <2>2. Here \notin Remembered(me.before)
    <3>1. me.before.attempt \in Nat  BY <1>2, Numbered
    <3>2. me.before.attempt = Here \/ (me.before.attempt = 0 /\ Here = 1)
      BY <1>2, <3>1 DEF Now
    <3> QED  BY <2>1, <3>1, <3>2 DEF Remembered
  <2> QED  BY <1>1, <1>2, <1>5, <2>2 DEF JobsKept, Gone
<1> QED  BY <1>3, <1>4, <1>5

\* Preparing an attempt blames no Job.
LEMMA PrepareHonest ==
    ASSUME OperatorInv, MissingJobInv, OperatorInv', Prepare
    PROVE  MissingJobInv'
<1>1. me.pc = "prepare"  BY DEF Prepare
<1>2. me # Idle /\ PassHonest(me, obj, cache, jobs) /\ DOMAIN me = PassFields
  BY <1>1, WorkHonest DEF AtWorkOn
<1>3. UNCHANGED <<obj, cache>> /\ jobs' = jobs  BY DEF Prepare, outside
<1>4. JobsKept(jobs, jobs', Remembered(me.before))  BY <1>3, JobsStay
<1>5. CASE me' = Provisioning \/ me' = PrerequisiteFailed("transient")
  <2>1. me'.pc = "patch" /\ me'.before = me.before /\ Evolves(me.run.status, me'.run.status, jobs, {})
    BY <1>1, <1>5, WorkFields, WorkEvolves DEF AtWorkOn
  <2>2. me' # Idle  BY <2>1 DEF Idle
  <2> QED  BY <1>2, <1>3, <1>4, <2>1, <2>2, PatchHonestMoves
<1>6. CASE me' = [me EXCEPT !.pc = "job"]
  <2>1. me'.pc = "job" /\ me'.run = me.run /\ me'.before = me.before
    BY <1>2, <1>6 DEF PassFields
  <2>2. PassHonest(me', obj, cache, jobs')  BY <1>1, <1>2, <1>3, <2>1 DEF PassHonest
  <2> QED  BY <1>2, <1>3, <1>4, <2>2, PassHonestMoves
<1> QED  BY <1>5, <1>6 DEF Prepare, Goto

\* INTERNAL is held against an attempt whose Job was made and is gone.
LEMMA MissingHonest ==
    ASSUME OperatorInv, MissingJobInv, OperatorInv', "jobs" \notin Lagging, JobMissing
    PROVE  MissingJobInv'
<1> DEFINE o == Observation("Failed", "INTERNAL", me.run.status.completed)
<1>1. me.pc = "job" /\ me.run.status.job # 0  BY DEF JobMissing
<1>2. /\ me # Idle /\ PassHonest(me, obj, cache, jobs) /\ Honest(me.run.status, jobs)
      /\ Here \in Attempts /\ Here = Now(me.before) /\ Here = me.run.status.attempt
      /\ me.run.status.attempt \in Nat \ {0} /\ Sound(me.before, obj.valid, evidence)
  BY <1>1, WorkHonest, AllSound DEF AtWorkOn
<1>3. jobs[Here] \in NoJob \union Ending  BY DEF JobMissing, ReadJob
<1>4. jobs[Here] # "absent"  BY <1>1, <1>2 DEF Honest, Now
<1>5. Here \in Gone(jobs)  BY <1>2, <1>3, <1>4 DEF Gone, NoJob
<1>6. Here \in Remembered(me.before)
  <2>1. me.before.job # 0 /\ me.before.attempt # 0
    BY <1>1, <1>2 DEF PassHonest, Honest
  <2> QED  BY <1>2, <2>1 DEF Remembered, Now
<1>7. me' = Projected(ProjectLifecycle(me.run.status, o))  BY DEF JobMissing, Goto
<1>8. o.phase = "Failed"  BY DEF Observation
<1> HIDE DEF o
<1>9. Evolves(me.run.status, me'.run.status, jobs, {Here}) /\ me'.before = me.before
  BY <1>1, <1>7, <1>8, ObservedEvolves, Zenon DEF AtWorkOn
<1>10. me'.pc = "patch"  BY <1>1, <1>7, WorkFields DEF AtWorkOn
<1>11. me' # Idle  BY <1>10 DEF Idle
<1>12. UNCHANGED <<obj, cache>> /\ jobs' = jobs  BY DEF JobMissing, kube, outside
<1>13. JobsKept(jobs, jobs', Remembered(me.before))  BY <1>12, JobsStay
<1> QED
  BY <1>2, <1>5, <1>6, <1>9, <1>10, <1>11, <1>12, <1>13, PatchHonestMoves

\* A pass remembers the Job that it has made.
LEMMA EnsureHonest ==
    ASSUME OperatorInv, MissingJobInv, OperatorInv', "jobs" \notin Lagging, EnsureJob
    PROVE  MissingJobInv'
<1> DEFINE s == me.run.status
           t == me'.run.status
<1>1. me.pc = "job"  BY DEF EnsureJob
<1>2. /\ me # Idle /\ PassHonest(me, obj, cache, jobs) /\ Honest(s, jobs)
      /\ DOMAIN me = PassFields /\ DOMAIN me.run = RunFields /\ Sound(s, TRUE, evidence)
      /\ Here \in Attempts /\ Here = Now(me.before) /\ Here = s.attempt
      /\ s.attempt \in Nat \ {0} /\ s.failure # "INTERNAL"
  BY <1>1, WorkHonest, Zenon DEF AtWorkOn
<1>3. me' = [me EXCEPT !.pc = "observe", !.run.status.job = Here]  BY DEF EnsureJob, Goto
<1>4. UNCHANGED <<obj, cache>> /\ Apply(Here) /\ (s.job = 0 \/ ReadJob(Here) \notin NoJob)
  BY DEF EnsureJob, outside
<1>5. JobsKept(jobs, jobs', Remembered(me.before)) /\ jobs'[Here] # "absent"
  BY <1>1, <1>4, ApplyKeeps
<1>6. /\ me'.pc = "observe" /\ me'.before = me.before
      /\ t.job = Here /\ t.attempt = s.attempt /\ t.history = s.history /\ t.failure = s.failure
  BY <1>2, <1>3, Zenon DEF PassFields, RunFields, StatusFields, Sound
<1> HIDE DEF t
<1>7. Honest(t, jobs')  BY <1>2, <1>5, <1>6 DEF Honest, Now
<1>8. Honest(me.before, jobs')
  <2>1. Honest(me.before, jobs) /\ Sound(me.before, obj.valid, evidence)
    BY <1>2, AllSound DEF PassHonest
  <2> QED  BY <1>5, <2>1, HonestStays
<1>9. Remembered(s) \subseteq Remembered(t) /\ Internal(t) = Internal(s)
  BY <1>2, <1>6 DEF Remembered, Internal
<1>10. UNION {Internal(obj.status), Internal(cache.status), Internal(me.before), Internal(t)}
         \subseteq Gone(jobs') \intersect Remembered(me.before)
  BY <1>2, <1>5, <1>9 DEF PassHonest, JobsKept, Gone
<1>11. Remembered(me.before) \subseteq Remembered(cache.status) \intersect Remembered(t)
  BY <1>2, <1>9 DEF PassHonest
<1>12. t.job # 0  BY <1>2, <1>6
<1>13. PassHonest(me', obj, cache, jobs')
  BY <1>6, <1>7, <1>8, <1>10, <1>11, <1>12 DEF PassHonest, t
<1> QED  BY <1>2, <1>4, <1>5, <1>13, PassHonestMoves

\* What is observed of a Job is not that it is missing.
LEMMA ObserveHonest ==
    ASSUME OperatorInv, MissingJobInv, OperatorInv', ObserveJob
    PROVE  MissingJobInv'
<1>1. me.pc = "observe" /\ me.pc \in AtWorkOn  BY DEF ObserveJob, AtWorkOn
<1>2. me # Idle /\ Here \in Attempts  BY <1>1, WorkHonest
<1>3. UNCHANGED <<obj, cache>> /\ jobs' = jobs  BY DEF ObserveJob, kube, outside
<1>4. JobsKept(jobs, jobs', Remembered(me.before))  BY <1>3, JobsStay
<1>5. me'.pc = "patch" /\ me'.before = me.before /\ Evolves(me.run.status, me'.run.status, jobs, {})
  <2>1. CASE ReadJob(Here) \in NoJob
    <3>1. me' = PrerequisiteFailed("transient")  BY <2>1 DEF ObserveJob, Goto
    <3> QED  BY <1>1, <3>1, WorkFields, WorkEvolves
  <2>2. CASE ReadJob(Here) \notin NoJob
    <3>1. PICK o \in Observe(ReadJob(Here)) :
             me' = Projected(ProjectLifecycle(me.run.status, o))
      BY <2>2 DEF ObserveJob, Goto
    <3>2. /\ o.phase = "Succeeded" => Here \in evidence
          /\ o.failure # "INTERNAL"
      BY <1>2, <2>2, ObservationIsTrue, ReadSound, ObserveNotInternal
    <3> QED  BY <1>1, <3>1, <3>2, WorkFields, ObservedEvolves
  <2> QED  BY <2>1, <2>2
<1>6. me' # Idle  BY <1>5 DEF Idle
<1> QED  BY <1>2, <1>3, <1>4, <1>5, <1>6, PatchHonestMoves

\* A cancellation blames no Job.
LEMMA CancelHonest ==
    ASSUME OperatorInv, MissingJobInv, OperatorInv', CancelAbsent \/ CancelPresent
    PROVE  MissingJobInv'
<1> DEFINE s == me.run.status
<1>1. me.pc = "cancel" /\ me.pc \in AtWorkOn  BY Zenon DEF CancelAbsent, CancelPresent, AtWorkOn
<1>2. /\ me # Idle /\ Here \in Attempts
      /\ DOMAIN me = PassFields /\ DOMAIN me.run = RunFields
      /\ Sound(s, TRUE, evidence) /\ Honest(s, jobs) /\ s.attempt # 0 /\ s.failure # "INTERNAL"
  BY <1>1, WorkHonest, Zenon
<1>3. UNCHANGED <<obj, cache>>  BY Zenon DEF CancelAbsent, CancelPresent, kube, outside
<1>4. Evolves(s, Cancelled(s), jobs, {}) /\ Evolves(s, Cancelling(s), jobs, {})
  BY <1>2, CancelEvolves, Zenon
<1>5. \A t, r : /\ With("patch", t, r).run.status = t /\ With("patch", t, r).before = me.before
                /\ With("patch", t, r).pc = "patch"
  BY <1>2, WithFields
<1>6. /\ me'.pc = "patch" /\ me'.before = me.before /\ Evolves(s, me'.run.status, jobs, {})
      /\ JobsKept(jobs, jobs', Remembered(me.before))
  <2>1. CASE CancelAbsent
    <3>1. me' = With("patch", Cancelled(s), FALSE) /\ jobs' = jobs
      BY <2>1 DEF CancelAbsent, Goto, kube
    <3> QED  BY <1>4, <1>5, <3>1, JobsStay, Zenon
  <2>2. CASE CancelPresent
    <3>0. ReadJob(Here) \notin NoJob  BY <2>2 DEF CancelPresent
    <3> DEFINE forced == s.cancelling /\ "cancellation" \in overdue
    <3>1. PICK o \in Observe(ReadJob(Here)) :
            \/ me' = With("patch", ProjectLifecycle(s, o), FALSE) /\ jobs' = jobs
            \/ me' = With("patch", Cancelling(s), TRUE) /\ Delete(Here, forced)
      BY <2>2, Zenon DEF CancelPresent, Goto
    <3> HIDE DEF forced
    <3>2. CASE me' = With("patch", ProjectLifecycle(s, o), FALSE) /\ jobs' = jobs
      <4>1. /\ o.phase = "Succeeded" => Here \in evidence
            /\ o.failure # "INTERNAL"
        BY <1>2, <3>0, ObservationIsTrue, ReadSound, ObserveNotInternal
      <4> DEFINE t == ProjectLifecycle(s, o)
      <4>2. Evolves(s, With("patch", t, s).run.status, jobs, {})
        BY <1>1, <4>1, ObservedEvolves
      <4> HIDE DEF t
      <4>3. Evolves(s, t, jobs, {})  BY <1>5, <4>2
      <4>4. me' = With("patch", t, FALSE)  BY <3>2 DEF t
      <4>5. me'.run.status = t /\ me'.before = me.before /\ me'.pc = "patch"
        BY <1>5, <4>4, Zenon
      <4>6. JobsKept(jobs, jobs', Remembered(me.before))  BY <3>2, JobsStay
      <4> QED  BY <4>3, <4>5, <4>6
    <3>3. CASE me' = With("patch", Cancelling(s), TRUE) /\ Delete(Here, forced)
      <4>1. JobsKept(jobs, jobs', Remembered(me.before))
        <5> DEFINE R == Remembered(me.before)
        <5> HIDE DEF R
        <5>1. JobsKept(jobs, jobs', R)  BY <1>2, <3>3, DeleteKeeps, Zenon
        <5> QED  BY <5>1 DEF R
      <4> QED  BY <1>4, <1>5, <3>3, <4>1, Zenon
    <3> QED  BY <3>1, <3>2, <3>3, Zenon
  <2> QED  BY <2>1, <2>2
<1>7. me' # Idle  BY <1>6 DEF Idle
<1> QED  BY <1>2, <1>3, <1>6, <1>7, PatchHonestMoves

\* Clean-up leaves attempts and Jobs alone.
LEMMA CleanedHonest ==
    ASSUME OperatorInv, MissingJobInv, me.pc = "cleanup", NEW state
    PROVE  /\ PassHonest(Cleaned(state), obj, cache, jobs)
           /\ PassHonest([me EXCEPT !.at = @ + 1], obj, cache, jobs)
<1> DEFINE s == me.run.status
           t == [s EXCEPT !.cleanup = state]
           p == Cleaned(state)
           n == [me EXCEPT !.at = @ + 1]
<1>1. /\ me # Idle /\ DOMAIN me = PassFields /\ DOMAIN me.run = RunFields /\ DOMAIN s = StatusFields
      /\ PassHonest(me, obj, cache, jobs) /\ Honest(s, jobs) /\ s.attempt \in Nat
  BY PassHere, Numbered, Zenon DEF PassSound, Sound, MissingJobInv, PassHonest
<1>2. /\ t.history = s.history /\ t.attempt = s.attempt /\ t.job = s.job
      /\ t.phase = s.phase /\ t.failure = s.failure
  BY <1>1 DEF StatusFields
<1>3. \E r : p = With("patch", t, r)  BY Zenon DEF Cleaned
<1> HIDE DEF t
<1>4. Evolves(s, t, jobs, {})  BY <1>1, <1>2, NotedEvolves
<1> HIDE DEF p
<1>5. p.run.status = t /\ p.before = me.before /\ p.pc = "patch"  BY <1>1, <1>3, WithFields
<1>6. PassHonest(p, obj, cache, jobs)  BY <1>1, <1>4, <1>5, PatchHonest
<1>7. n.run = me.run /\ n.before = me.before /\ n.pc = me.pc  BY <1>1 DEF PassFields
<1> HIDE DEF n
<1>8. PassHonest(n, obj, cache, jobs)  BY <1>1, <1>7 DEF PassHonest
<1> QED  BY <1>6, <1>8 DEF p, n

\* Clean-up blames no Job.
LEMMA CleanupHonest ==
    ASSUME OperatorInv, MissingJobInv, CleanupNext \/ CleanupDone
    PROVE  MissingJobInv'
<1>1. me.pc = "cleanup"  BY DEF CleanupNext, CleanupDone
<1>2. /\ PassHonest(CleanupFailed, obj, cache, jobs)
      /\ PassHonest(Cleaned("complete"), obj, cache, jobs)
      /\ PassHonest([me EXCEPT !.at = @ + 1], obj, cache, jobs)
  BY <1>1, CleanedHonest DEF CleanupFailed
<1>3. \/ me' = [me EXCEPT !.at = @ + 1] \/ me' = CleanupFailed \/ me' = Cleaned("complete")
  BY DEF CleanupNext, CleanupDone, Goto
<1>4. PassHonest(me', obj, cache, jobs)  BY <1>2, <1>3, Zenon
<1>5. UNCHANGED <<obj, cache, jobs>>  BY DEF CleanupNext, CleanupDone, kube, outside
<1> QED  BY <1>4, <1>5 DEF MissingJobInv

\* A pass that was only just read.
LEMMA LoadedHonest ==
    ASSUME OperatorInv, MissingJobInv, NEW p, p.before = cache.status,
           Evolves(cache.status, p.run.status, jobs, {}),
           p.pc \in {"prepare", "cancel"} => p.run.status.job = cache.status.job,
           p.pc \notin {"job", "observe"}
    PROVE  PassHonest(p, obj, cache, jobs)
<1>1. RunsHonest(obj, cache, jobs)  BY DEF MissingJobInv
<1> QED  BY <1>1 DEF RunsHonest, PassHonest, Evolves

\* Dispatch keeps the Job and the history of the status it starts from.
LEMMA DispatchEvolves ==
    ASSUME NEW m, NEW js, NEW ev, DOMAIN m = PassFields, DOMAIN m.run = RunFields,
           Sound(m.run.status, TRUE, ev), Honest(m.run.status, js)
    PROVE  /\ Evolves(m.run.status, Dispatch(m).run.status, js, {})
           /\ Dispatch(m).before = m.before /\ Dispatch(m).pc \in {"prepare", "cancel", "patch"}
           /\ Dispatch(m).pc # "patch" => Dispatch(m).run.status.job = m.run.status.job
<1> DEFINE s == m.run.status
<1>1. /\ DOMAIN s = StatusFields /\ s.attempt \in Nat /\ CurrentAttempt(s) = Now(s)
  BY Numbered, CurrentIsNow, Zenon DEF Sound
<1>2. \A pc, t, q : /\ Into(m, pc, t, q).run.status = t /\ Into(m, pc, t, q).before = m.before
                    /\ Into(m, pc, t, q).pc = pc
  BY IntoFields
<1>3. CASE /\ AttemptTerminal(s) /\ m.run.desired = "Running" /\ RetryAllowed(s)
  <2> DEFINE t == ReconcileRetry(s, m.run.generation)
  <2>1. Evolves(s, t, js, {})  BY <1>3, RetryEvolves, Zenon
  <2>2. PICK q : Dispatch(m) = Into(m, "patch", t, q)  BY <1>3, Zenon DEF Dispatch
  <2> HIDE DEF t
  <2>3. /\ Into(m, "patch", t, q).run.status = t /\ Into(m, "patch", t, q).before = m.before
        /\ Into(m, "patch", t, q).pc = "patch"
    BY <1>2
  <2> QED  BY <2>1, <2>2, <2>3
<1>4. CASE ~(AttemptTerminal(s) /\ m.run.desired = "Running" /\ RetryAllowed(s))
  <2>0. Dispatch(m) = Continue(m)  BY <1>4, Zenon DEF Dispatch
  <2>1. CASE AttemptTerminal(s)
    <3> DEFINE t == Refreshed(m.run)
    <3>1. /\ t.history = s.history /\ t.attempt = s.attempt /\ t.job = s.job
          /\ t.phase = s.phase /\ t.failure = s.failure
      BY <1>1 DEF Refreshed, StatusFields
    <3>2. PICK q : Dispatch(m) = Into(m, "patch", t, q)  BY <2>0, <2>1, Zenon DEF Continue
    <3> HIDE DEF t
    <3>3. Evolves(s, t, js, {})  BY <1>1, <3>1, NotedEvolves
    <3>4. /\ Into(m, "patch", t, q).run.status = t /\ Into(m, "patch", t, q).before = m.before
          /\ Into(m, "patch", t, q).pc = "patch"
      BY <1>2
    <3> QED  BY <3>2, <3>3, <3>4
  <2>2. CASE ~AttemptTerminal(s)
    <3> DEFINE cancel == m.run.desired = "Cancelled"
               t == IF cancel THEN Initialized(m.run) ELSE Accepted(m.run)
    <3>1. /\ t.history = s.history /\ t.attempt = Now(s) /\ t.job = s.job
          /\ t.failure = s.failure \/ t.failure = NoFailure
      BY <1>1 DEF Initialized, Accepted, StatusFields
    <3>2. PICK q : Dispatch(m) = Into(m, "cancel", t, q) \/ Dispatch(m) = Into(m, "prepare", t, q)
      BY <2>0, <2>2, Zenon DEF Continue
    <3> HIDE DEF t
    <3>3. s.phase # "Failed"
      <4>1. s.attempt # 0 => s.phase # "Failed"  BY <1>1, <2>2 DEF AttemptTerminal, Now
      <4>2. s.attempt = 0 => s.phase # "Failed"
        <5>1. s.attempt = 0 => s.phase = ""  BY Zenon DEF Sound
        <5>2. "" # "Failed"  BY Zenon
        <5> QED  BY <5>1, <5>2, Zenon
      <4> QED  BY <4>1, <4>2
    <3>4. t.failure # "INTERNAL"  BY <3>1, <3>3, NoFailureIsNot DEF Honest
    <3>5. Evolves(s, t, js, {})  BY <1>1, <3>1, <3>4, NotedEvolves
    <3>6. \A pc : /\ Into(m, pc, t, q).run.status = t /\ Into(m, pc, t, q).before = m.before
                  /\ Into(m, pc, t, q).pc = pc
      BY <1>2
    <3> QED  BY <3>1, <3>2, <3>5, <3>6
  <2> QED  BY <2>1, <2>2
<1> QED  BY <1>3, <1>4

\* What the informer has was honest when it was written.
LEMMA FetchHonest ==
    ASSUME OperatorInv, MissingJobInv, Fetch
    PROVE  MissingJobInv'
<1> DEFINE s == cache.status
<1>1. /\ Loaded.run = cache /\ Loaded.before = s /\ Loaded.pc = "patch"
      /\ DOMAIN Loaded = PassFields /\ DOMAIN Loaded.run = RunFields
      /\ RunsHonest(obj, cache, jobs) /\ Honest(s, jobs)
      /\ Sound(s, obj.valid, evidence) /\ DOMAIN s = StatusFields
      /\ DOMAIN cache = RunFields /\ obj.valid \in BOOLEAN /\ cache.valid = obj.valid
  BY LoadedSound, Zenon DEF OperatorInv, RunsSound, Sound, MissingJobInv, RunsHonest
<1>2. s.attempt \in Nat  BY <1>1, Numbered, Zenon
<1>3. UNCHANGED <<obj, cache, jobs>>  BY DEF Fetch, kube, outside
<1>4. /\ me'.before = s /\ Evolves(s, me'.run.status, jobs, {})
      /\ me'.pc \in {"prepare", "cancel"} => me'.run.status.job = s.job
      /\ me'.pc \notin {"job", "observe"}
  <2>1. CASE cache.deleting
    <3> DEFINE t == Deleting(cache)
    <3>1. me' = [Loaded EXCEPT !.pc = "cleanup", !.run.status = t]  BY <2>1 DEF Fetch
    <3>2. /\ t.history = s.history /\ t.attempt = s.attempt /\ t.job = s.job
          /\ t.phase = s.phase /\ t.failure = s.failure
      BY <1>1 DEF Deleting, StatusFields
    <3> HIDE DEF t
    <3>3. me'.pc = "cleanup" /\ me'.run.status = t /\ me'.before = s
      BY <1>1, <3>1 DEF PassFields, RunFields
    <3>4. Evolves(s, t, jobs, {})  BY <1>1, <1>2, <3>2, NotedEvolves
    <3> QED  BY <3>3, <3>4
  <2>2. CASE ~cache.deleting /\ ~cache.valid
    <3> DEFINE t == Invalid(cache)
    <3>1. me' = [Loaded EXCEPT !.run.status = t]  BY <2>2 DEF Fetch, ValidateAgentRun
    <3>2. /\ t.history = s.history /\ t.attempt = 1 /\ t.job = s.job /\ t.failure # "INTERNAL"
      BY <1>1 DEF Invalid, StatusFields
    <3> HIDE DEF t
    <3>3. me'.pc = "patch" /\ me'.run.status = t /\ me'.before = s
      BY <1>1, <3>1 DEF PassFields, RunFields
    <3>4. Now(s) = 1
      <4>1. s.attempt <= 1  BY <1>1, <2>2, Zenon DEF Sound
      <4> QED  BY <1>2, <4>1 DEF Now
    <3>5. Evolves(s, t, jobs, {})  BY <1>1, <1>2, <3>2, <3>4, NotedEvolves
    <3> QED  BY <3>3, <3>5
  <2>3. CASE ~cache.deleting /\ cache.valid /\ Retain /\ ~cache.finalizer
    <3>1. me' = [Loaded EXCEPT !.pc = "finalizer"]  BY <2>3 DEF Fetch, ValidateAgentRun
    <3>2. me'.pc = "finalizer" /\ me'.run.status = s /\ me'.before = s
      BY <1>1, <3>1 DEF PassFields
    <3>3. Evolves(s, s, jobs, {})  BY <1>1, <1>2, NotedEvolves
    <3> QED  BY <3>2, <3>3
  <2>4. CASE ~cache.deleting /\ cache.valid /\ ~(Retain /\ ~cache.finalizer)
    <3>1. me' = Dispatch(Loaded)  BY <2>4 DEF Fetch, ValidateAgentRun
    <3>2. obj.valid = TRUE  BY <1>1, <2>4
    <3>3. Sound(Loaded.run.status, TRUE, evidence) /\ Honest(Loaded.run.status, jobs)
      BY <1>1, <3>2, Zenon
    <3>4. /\ Evolves(Loaded.run.status, me'.run.status, jobs, {})
          /\ me'.before = Loaded.before /\ me'.pc \in {"prepare", "cancel", "patch"}
          /\ me'.pc # "patch" => me'.run.status.job = Loaded.run.status.job
      BY <1>1, <3>1, <3>3, DispatchEvolves, Zenon
    <3> QED  BY <1>1, <3>4
  <2> QED  BY <2>1, <2>2, <2>3, <2>4
<1>5. PassHonest(me', obj, cache, jobs)  BY <1>4, LoadedHonest
<1> QED  BY <1>1, <1>3, <1>5 DEF MissingJobInv

\* A write that leaves the status alone.
LEMMA BesideHonest ==
    ASSUME MissingJobInv, obj'.status = obj.status, UNCHANGED <<cache, jobs>>,
           \/ me' = Idle
           \/ PassHonest(me', obj, cache, jobs)
    PROVE  MissingJobInv'
BY DEF MissingJobInv, RunsHonest, PassHonest

\* The finalizer leaves the status alone.
LEMMA FinalizerHonest ==
    ASSUME OperatorInv, MissingJobInv, AddFinalizer
    PROVE  MissingJobInv'
<1>1. me.pc = "finalizer"  BY DEF AddFinalizer
<1>2. /\ DOMAIN me = PassFields /\ DOMAIN me.run = RunFields /\ DOMAIN obj = RunFields
      /\ PassHonest(me, obj, cache, jobs) /\ Sound(me.run.status, obj.valid, evidence)
      /\ obj.valid = TRUE /\ me.run.status = me.before
  BY <1>1, PassHere, Zenon DEF PassSound, Working, OperatorInv, RunsSound, MissingJobInv
<1>3. UNCHANGED <<cache, jobs>>  BY DEF AddFinalizer, outside
<1>4. CASE NoWrite /\ me' = Idle
  BY <1>3, <1>4, BesideHonest DEF NoWrite
<1>5. CASE /\ obj' = [obj EXCEPT !.finalizer = TRUE]
           /\ me' = Dispatch([me EXCEPT !.run.finalizer = TRUE])
  <2> DEFINE p == [me EXCEPT !.run.finalizer = TRUE]
  <2>1. obj'.status = obj.status  BY <1>2, <1>5 DEF RunFields
  <2>2. /\ DOMAIN p = PassFields /\ DOMAIN p.run = RunFields /\ p.run.status = me.run.status
        /\ p.before = me.before
    BY <1>2 DEF PassFields, RunFields
  <2>3. me' = Dispatch(p)  BY <1>5
  <2> HIDE DEF p
  <2>4. Sound(p.run.status, TRUE, evidence)  BY <1>2, <2>2, Zenon
  <2>5. Honest(p.run.status, jobs)  BY <1>2, <2>2 DEF PassHonest
  <2>6. /\ Evolves(p.run.status, me'.run.status, jobs, {})
        /\ me'.before = p.before /\ me'.pc \in {"prepare", "cancel", "patch"}
        /\ me'.pc # "patch" => me'.run.status.job = p.run.status.job
    BY <2>2, <2>3, <2>4, <2>5, DispatchEvolves, Zenon
  <2>7. PassHonest(me', obj, cache, jobs)
    BY <1>2, <2>2, <2>6 DEF PassHonest, Evolves
  <2> QED  BY <1>3, <2>1, <2>7, BesideHonest, Zenon
<1> QED  BY <1>4, <1>5 DEF AddFinalizer, Write, Goto, End

\* A fresh pass replaces the status that it started from.
LEMMA WriteHonest ==
    ASSUME OperatorInv, MissingJobInv, me.pc = "patch", me.fresh,
           obj' = [obj EXCEPT !.status = me.run.status]
    PROVE  /\ RunsHonest(obj', cache, jobs)
           /\ PassHonest(me, obj', cache, jobs)
<1>1. /\ me # Idle /\ PassHonest(me, obj, cache, jobs) /\ me.before = obj.status
      /\ RunsHonest(obj, cache, jobs) /\ DOMAIN obj = RunFields
  BY PassHere, Zenon DEF PassSound, MissingJobInv, OperatorInv, RunsSound
<1>2. obj'.status = me.run.status  BY <1>1 DEF RunFields
<1>3. RunsHonest(obj', cache, jobs)  BY <1>1, <1>2 DEF RunsHonest, PassHonest
<1>4. PassHonest(me, obj', cache, jobs)  BY <1>1, <1>2 DEF PassHonest
<1> QED  BY <1>3, <1>4

\* A patch writes what the pass has found.
LEMMA PatchedHonest ==
    ASSUME OperatorInv, MissingJobInv, Patch
    PROVE  MissingJobInv'
<1> DEFINE p == [me EXCEPT !.pc = "release"]
<1>1. me.pc = "patch"  BY DEF Patch
<1>2. /\ DOMAIN me = PassFields /\ PassHonest(me, obj, cache, jobs) /\ RunsHonest(obj, cache, jobs)
  BY <1>1, PassHere, Zenon DEF PassSound, MissingJobInv
<1>3. UNCHANGED <<cache, jobs>>  BY DEF Patch
<1>4. p.run = me.run /\ p.before = me.before /\ p.pc = "release"  BY <1>2 DEF PassFields
<1>5. me' = Idle \/ me' = p  BY DEF Patch, AfterPatch, Goto, End
<1> HIDE DEF p
<1>6. \A run : PassHonest(me, run, cache, jobs) => PassHonest(p, run, cache, jobs)
  BY <1>4 DEF PassHonest
<1>7. CASE obj' = obj  BY <1>2, <1>3, <1>5, <1>6, <1>7 DEF MissingJobInv
<1>8. CASE me.fresh /\ obj' = [obj EXCEPT !.status = me.run.status]
  <2>1. RunsHonest(obj', cache, jobs) /\ PassHonest(me, obj', cache, jobs)
    BY <1>1, <1>8, WriteHonest
  <2> QED  BY <1>3, <1>5, <1>6, <2>1 DEF MissingJobInv
<1> QED  BY <1>7, <1>8, Zenon DEF Patch, Write, NoWrite

\* The last write leaves the status alone.
LEMMA ReleaseHonest ==
    ASSUME OperatorInv, MissingJobInv, RemoveFinalizer
    PROVE  MissingJobInv'
<1>1. UNCHANGED <<cache, jobs>> /\ me' = Idle  BY DEF RemoveFinalizer, outside, End
<1>2. DOMAIN obj = RunFields  BY DEF OperatorInv, RunsSound
<1>3. obj'.status = obj.status  BY <1>2, Zenon DEF RemoveFinalizer, Write, NoWrite, RunFields
<1> QED  BY <1>1, <1>3, BesideHonest

\* A call that fails blames a dependency, never the Job.
LEMMA FailsHonest ==
    ASSUME OperatorInv, MissingJobInv, OperatorInv', "jobs" \notin Lagging, CallFails
    PROVE  MissingJobInv'
<1>0. cache' = cache  BY DEF CallFails
<1>1. PICK kind \in FaultKinds, done \in BOOLEAN :
        \/ /\ me.pc \in AtWorkOn /\ obj' = obj
           /\ me' = PrerequisiteFailed(kind) \/ me' = CancelFailed(kind)
           /\ \/ jobs' = jobs
              \/ me.pc \in {"job", "observe"} /\ me.run.status.job = 0 /\ Apply(Here)
              \/ Delete(Here, FALSE)
        \/ me.pc = "cleanup" /\ me' = CleanupFailed /\ obj' = obj /\ jobs' = jobs
        \/ /\ me' = Idle /\ jobs' = jobs
           /\ \/ obj' = obj
              \/ obj' = [obj EXCEPT !.finalizer = TRUE]
              \/ me.pc = "patch" /\ me.fresh /\ obj' = [obj EXCEPT !.status = me.run.status]
              \/ obj' = [obj EXCEPT !.status.cleanup = "pending"]
  BY Zenon DEF CallFails, Goto, End, Write, NoWrite, AtWorkOn
<1>2. RunsHonest(obj, cache, jobs) /\ DOMAIN obj = RunFields /\ DOMAIN obj.status = StatusFields
  BY Zenon DEF MissingJobInv, OperatorInv, RunsSound, Sound
<1>3. CASE /\ me.pc \in AtWorkOn /\ obj' = obj
           /\ me' = PrerequisiteFailed(kind) \/ me' = CancelFailed(kind)
           /\ \/ jobs' = jobs
              \/ me.pc \in {"job", "observe"} /\ me.run.status.job = 0 /\ Apply(Here)
              \/ Delete(Here, FALSE)
  <2>1. me'.pc = "patch" /\ me'.before = me.before /\ Evolves(me.run.status, me'.run.status, jobs, {})
    BY <1>3, WorkFields, WorkEvolves
  <2>2. me' # Idle  BY <2>1 DEF Idle
  <2>3. me # Idle /\ Here \in Attempts  BY <1>3, WorkHonest, Zenon
  <2>4. JobsKept(jobs, jobs', Remembered(me.before))
    <3>1. CASE jobs' = jobs  BY <3>1, JobsStay
    <3>2. CASE me.pc \in {"job", "observe"} /\ me.run.status.job = 0 /\ Apply(Here)
      BY <3>2, ApplyKeeps
    <3>3. CASE Delete(Here, FALSE)
      <4> DEFINE R == Remembered(me.before)
      <4> HIDE DEF R
      <4>1. JobsKept(jobs, jobs', R)  BY <2>3, <3>3, DeleteKeeps, Zenon
      <4> QED  BY <4>1 DEF R
    <3> QED  BY <1>3, <3>1, <3>2, <3>3, Zenon
  <2>5. {} \subseteq Gone(jobs) \intersect Remembered(me.before)  OBVIOUS
  <2>6. UNCHANGED <<obj, cache>> /\ me'.pc \in {"patch", "release", "cleanup"}
    BY <1>0, <1>3, <2>1
  <2> QED  BY <2>1, <2>2, <2>3, <2>4, <2>5, <2>6, PatchHonestMoves
<1>4. CASE me.pc = "cleanup" /\ me' = CleanupFailed /\ obj' = obj /\ jobs' = jobs
  <2>1. PassHonest(CleanupFailed, obj, cache, jobs)  BY <1>4, CleanedHonest DEF CleanupFailed
  <2> QED  BY <1>0, <1>2, <1>4, <2>1 DEF MissingJobInv
<1>5. CASE me' = Idle /\ jobs' = jobs /\ (obj' = obj \/ obj' = [obj EXCEPT !.finalizer = TRUE])
  <2>1. obj'.status = obj.status  BY <1>2, <1>5 DEF RunFields
  <2> QED  BY <1>0, <1>5, <2>1, BesideHonest
<1>6. CASE /\ me' = Idle /\ jobs' = jobs /\ me.pc = "patch" /\ me.fresh
           /\ obj' = [obj EXCEPT !.status = me.run.status]
  <2>1. RunsHonest(obj', cache, jobs)  BY <1>6, WriteHonest
  <2> QED  BY <1>0, <1>6, <2>1 DEF MissingJobInv
<1>7. CASE me' = Idle /\ jobs' = jobs /\ obj' = [obj EXCEPT !.status.cleanup = "pending"]
  <2> DEFINE s == obj.status
             t == obj'.status
  <2>1. /\ t.history = s.history /\ t.attempt = s.attempt /\ t.job = s.job
        /\ t.phase = s.phase /\ t.failure = s.failure
    BY <1>2, <1>7 DEF RunFields, StatusFields
  <2>2. Honest(s, jobs)  BY <1>2 DEF RunsHonest
  <2> HIDE DEF s, t
  <2>3. Internal(t) = Internal(s) /\ Remembered(t) = Remembered(s) /\ Honest(t, jobs)
    BY <2>1, <2>2 DEF Internal, Remembered, Honest, Now
  <2>4. RunsHonest(obj', cache, jobs)  BY <1>2, <2>3 DEF RunsHonest, s, t
  <2> QED  BY <1>0, <1>7, <2>4 DEF MissingJobInv
<1> QED  BY <1>1, <1>3, <1>4, <1>5, <1>6, <1>7, Zenon

\* A restart, and the informers catching up.
LEMMA SyncHonest ==
    ASSUME MissingJobInv, Restart \/ SyncRun \/ SyncChildren
    PROVE  MissingJobInv'
<1>1. RunsHonest(obj, cache, jobs)  BY DEF MissingJobInv
<1>2. RunsHonest(obj, obj, jobs)  BY <1>1 DEF RunsHonest
<1>3. CASE Restart  BY <1>2, <1>3 DEF Restart, MissingJobInv
<1>4. CASE SyncRun
  <2>1. PassHonest(me, obj, cache, jobs) => PassHonest(me, obj, obj, jobs)
    BY <1>1 DEF PassHonest, RunsHonest
  <2> QED  BY <1>2, <1>4, <2>1 DEF SyncRun, MissingJobInv
<1>5. CASE SyncChildren  BY <1>5 DEF SyncChildren, kube, MissingJobInv
<1> QED  BY <1>3, <1>4, <1>5

\* The callers do not touch the status.
LEMMA RequestHonest ==
    ASSUME OperatorInv, MissingJobInv, RequestCancel \/ RequestDelete
    PROVE  MissingJobInv'
<1>1. DOMAIN obj = RunFields  BY DEF OperatorInv, RunsSound
<1>2. /\ UNCHANGED <<cache, jobs>> /\ obj'.status = obj.status
      /\ me' = IF me = Idle THEN me ELSE [me EXCEPT !.fresh = FALSE]
  BY <1>1, Zenon DEF RequestCancel, RequestDelete, Written, Write, outside, RunFields
<1>3. CASE me = Idle  BY <1>2, <1>3, BesideHonest
<1>4. CASE me # Idle
  <2>1. PassHonest(me, obj, cache, jobs) /\ DOMAIN me = PassFields
    BY <1>4, Zenon DEF MissingJobInv, OperatorInv, PassSound
  <2>2. me'.pc = me.pc /\ me'.run = me.run /\ me'.before = me.before
    BY <1>2, <1>4, <2>1 DEF PassFields
  <2>3. PassHonest(me', obj, cache, jobs)  BY <2>1, <2>2 DEF PassHonest
  <2> QED  BY <1>2, <2>3, BesideHonest
<1> QED  BY <1>3, <1>4

\* A Job on its way out does not come back by itself.
LEMMA JobHonest ==
    ASSUME OperatorInv, MissingJobInv, NEW a \in Attempts,
           JobRuns(a) \/ JobStops(a) \/ JobGone(a) \/ JobRemoved(a)
    PROVE  MissingJobInv'
<1>1. UNCHANGED <<obj, cache, me>>  BY DEF JobRuns, JobStops, JobGone, JobRemoved, Becomes
<1>2. jobs \in [Attempts -> JobStates]  BY DEF OperatorInv, ChildrenSound
<1>3. \/ /\ jobs[a] \notin Ending \union {"deleted"}
         /\ \E state \in JobStates \ {"absent"} : jobs' = [jobs EXCEPT ![a] = state]
      \/ jobs' = [jobs EXCEPT ![a] = "deleted"]
  BY DEF JobRuns, JobStops, JobGone, JobRemoved, Becomes, JobStates, NoJob, Ending, Live, Finished
<1>4. JobsKept(jobs, jobs', Attempts)  BY <1>2, <1>3 DEF JobsKept, Gone
<1>5. RunsHonest(obj, cache, jobs')
  <2>1. RunsHonest(obj, cache, jobs)  BY DEF MissingJobInv
  <2>2. Honest(obj.status, jobs') /\ Honest(cache.status, jobs')
    BY <1>4, <2>1, AllSound, HonestStays, Zenon DEF RunsHonest
  <2> QED  BY <1>4, <2>1, <2>2 DEF RunsHonest, JobsKept, Gone
<1>6. me # Idle => PassHonest(me, obj, cache, jobs')
  <2> SUFFICES ASSUME me # Idle PROVE PassHonest(me, obj, cache, jobs')
    OBVIOUS
  <2>1. PassHonest(me, obj, cache, jobs)  BY DEF MissingJobInv
  <2>2. Honest(me.before, jobs') /\ Honest(me.run.status, jobs')
    BY <1>4, <2>1, AllSound, HonestStays, Zenon DEF PassHonest
  <2> QED  BY <1>4, <2>1, <2>2 DEF PassHonest, JobsKept, Gone
<1> QED  BY <1>1, <1>5, <1>6 DEF MissingJobInv

\* Nothing is blamed at first.
LEMMA InitialHonest ==
    ASSUME Init
    PROVE  MissingJobInv
<1>1. obj.status = NewStatus /\ cache.status = NewStatus /\ me = Idle  BY DEF Init
<1> DEFINE s == NewStatus
           none == [a \in Attempts |-> NoEntry]
<1>2. s.attempt = 0 /\ s.job = 0 /\ s.failure = NoFailure /\ s.history = none
  BY DEF NewStatus
<1>3. \A a \in Attempts : none[a].failure = NoFailure  BY Zenon DEF NoEntry
<1> HIDE DEF s, none
<1>4. Honest(s, jobs) /\ Internal(s) = {}
  BY <1>2, <1>3, NoFailureIsNot DEF Honest, Internal
<1>5. RunsHonest(obj, cache, jobs)  BY <1>1, <1>4 DEF RunsHonest, s
<1> QED  BY <1>1, <1>5 DEF MissingJobInv

\* No step forgets a Job or invents one.
LEMMA StepsHonest ==
    ASSUME OperatorInv, MissingJobInv, "jobs" \notin Lagging, [Next]_vars
    PROVE  MissingJobInv'
<1>0. OperatorInv'  BY StepsKeepInvariant
<1>1. CASE Reconciler
  <2>1. CASE FetchNothing  BY <2>1 DEF FetchNothing, kube, outside, MissingJobInv
  <2> QED
    BY <1>0, <1>1, <2>1, FetchHonest, FinalizerHonest, PrepareHonest, MissingHonest,
       EnsureHonest, ObserveHonest, CancelHonest, CleanupHonest, PatchedHonest, ReleaseHonest
       DEF Reconciler
<1>2. CASE CallFails  BY <1>0, <1>2, FailsHonest
<1>3. CASE Restart \/ SyncRun \/ SyncChildren  BY <1>3, SyncHonest
<1>4. CASE RequestCancel \/ RequestDelete  BY <1>4, RequestHonest
<1>5. CASE \E a \in Attempts : JobRuns(a) \/ JobStops(a) \/ JobGone(a) \/ JobRemoved(a)
  BY <1>5, JobHonest
<1>6. CASE \/ \E what \in {"configuration", "storage"} : Available(what)
           \/ \E deadline \in Deadlines : Elapse(deadline)
  BY <1>6 DEF Available, Elapse, kube, MissingJobInv
<1>7. CASE UNCHANGED vars  BY <1>7 DEF vars, MissingJobInv
<1> QED  BY <1>1, <1>2, <1>3, <1>4, <1>5, <1>6, <1>7 DEF Next

\* An attempt fails as INTERNAL/JobMissing only if its Job was made and is
\* gone or going, for ever after: no stale pass recreates a Job that some
\* status calls missing.  Provided that Jobs are read as they are.
THEOREM MissingJobIsAlwaysGone ==
    ASSUME "jobs" \notin Lagging
    PROVE  Spec => []MissingJobIsGone
<1>1. Init => MissingJobInv  BY InitialHonest
<1>2. OperatorInv /\ MissingJobInv /\ [Next]_vars => MissingJobInv'  BY StepsHonest
<1>3. MissingJobInv => MissingJobIsGone
  BY DEF MissingJobInv, RunsHonest, Internal, Gone, MissingJobIsGone
<1> QED  BY <1>1, <1>2, <1>3, OperatorInvariant, PTL DEF Spec
=============================================================================
