---------------------------- MODULE AgentRunner ----------------------------
(***************************************************************************)
(* The workload of an attempt: cmd/agent-runner and internal/runner.  Each *)
(* execution is the process of one Job.  Its main goroutine verifies the   *)
(* signed task, runs the commands in a process group, publishes the        *)
(* artifacts with the manifest last, and only then writes the termination  *)
(* evidence the operator reads.  A heartbeat goroutine writes to the same  *)
(* trajectory; SIGTERM and the deadline end the context at any moment; the *)
(* kubelet may kill the process between any two steps.                     *)
(*                                                                         *)
(* Contents are abstract: a SHA-256 digest stands for the bytes it is of.  *)
(***************************************************************************)
EXTENDS Integers, Sequences, FiniteSets, FiniteSetsExt

CONSTANTS
    Executions,     \* [id, attempt]: attemptId and attempt of a runtime config
    Signed,         \* the attempt number in the signed envelope of each id
    Backends,       \* the artifact backends a configuration may name
    Tests,          \* commands in the task envelope
    Children,       \* what a command may leave running beside itself
    MaxRunning,     \* bound on runner processes alive at one time
    MaxBeats,       \* bound on heartbeats of an execution
    MaxFaults,      \* bound on I/O errors and kills
    None,           \* nobody: no object under a key
    Other           \* the origin of bytes nobody meant to write

ASSUME RunnerConstants ==
    /\ Executions \subseteq [id: DOMAIN Signed, attempt: Nat]
    /\ None \notin Executions /\ Other \notin Executions
    /\ \A i, j \in DOMAIN Signed : Signed[i] = Signed[j] => i = j
    /\ Backends \subseteq {"filesystem", "s3"}
    /\ Tests \in Nat \ {0}
    /\ Children \subseteq {"none", "holding", "detached"}
    /\ MaxRunning \in Nat /\ MaxBeats \in Nat /\ MaxFaults \in Nat

VARIABLES
    me,         \* the process of each execution, with its memory
    store,      \* the artifact store, by key
    evidence,   \* the termination log of each execution
    faults      \* I/O errors and kills so far

vars == <<me, store, evidence, faults>>

Objects == <<"source", "report", "trajectory", "stdout", "stderr">>
Commit == Len(Objects) + 1                  \* the position of the manifest
Key(e, i) == <<e.attempt, i>>               \* .../attempts/<attempt>/<name>
Keys == {Key(e, i) : e \in Executions, i \in 1..Commit}

\* What is under a key without an object, and under one with other bytes.
Nothing == [of |-> None]
Foreign == [of |-> Other]

Killed == 137

\* The context (live, or why it is done), main goroutine (pc, why, results,
\* backend, pos, try, digest, last, published, view: the slice of the buffer
\* that is published), heartbeat goroutine (beat, beats, stopped), trajectory
\* sink (seq, bytes) and command (leader, child, over: too much output).
Process == [pc |-> "new", ctx |-> "live", why |-> "", results |-> <<>>,
            backend |-> "", pos |-> 0, try |-> 0, digest |-> None, last |-> 0,
            published |-> <<>>, view |-> <<>>,
            beat |-> "off", beats |-> 0, stopped |-> FALSE,
            seq |-> 0, bytes |-> <<>>,
            leader |-> "none", child |-> "none", over |-> FALSE, exit |-> 0]

Init ==
    /\ me = [e \in Executions |-> Process]
    /\ store = [k \in Keys |-> Nothing]
    /\ evidence = [e \in Executions |-> "none"]
    /\ faults = 0

Alive(e) == me[e].pc \notin {"new", "exited"}
At(e, pc) == me[e].pc = pc
Set(e, row) == me' = [me EXCEPT ![e] = row]
Goto(e, pc) == Set(e, [me[e] EXCEPT !.pc = pc])
\* os.Exit: the goroutines and the memory of the process are gone.
Exit(e, code) == Set(e, [Process EXCEPT !.pc = "exited", !.exit = code])

\* A step that needs an I/O error uses up one of the faults.
Fault == faults < MaxFaults /\ faults' = faults + 1

-----------------------------------------------------------------------------
(* Start: configuration, signed task, redactor (Run, up to the goroutine). *)

\* The mounts of a Pod: the workspace path and the runtime configuration; the
\* projected task envelope; the trust bundles; a valid signature by a trusted
\* key; the secrets to redact.
Mounts == [config: BOOLEAN, envelope: BOOLEAN, bundles: 0..2, signature: BOOLEAN,
           secrets: BOOLEAN]

\* Exactly one of the configuration references holds a trust bundle.
loadTrustBundle(bundles) == bundles = 1

\* The signed envelope is of the attempt id of the AgentRun; its attempt
\* number was fixed when it was signed.
Validate(e) == Signed[e.id] = e.attempt

LoadSignedTask(e, m) ==
    /\ m.envelope
    /\ loadTrustBundle(m.bundles)
    /\ m.signature
    /\ Validate(e)

StartProcess(e) ==
    /\ At(e, "new")
    /\ Cardinality({x \in Executions : Alive(x)}) < MaxRunning
    /\ Goto(e, "load")
    /\ UNCHANGED <<store, evidence, faults>>

Load(e) ==
    /\ At(e, "load")
    /\ \E m \in Mounts :
         IF ~m.config \/ ~LoadSignedTask(e, m)
         THEN Exit(e, 2) /\ UNCHANGED faults
         ELSE \/ Exit(e, 8) /\ Fault                                \* MkdirAll
              \/ ~m.secrets /\ Exit(e, 2) /\ UNCHANGED faults      \* NewRedactor
              \/ /\ m.secrets
                 /\ Set(e, [me[e] EXCEPT !.pc = "run.started", !.beat = "idle"])
                 /\ UNCHANGED faults
    /\ UNCHANGED <<store, evidence>>

-----------------------------------------------------------------------------
(* The trajectory sink and the heartbeats.                                 *)

Record(n, state) == [seq |-> n, state |-> state]

\* A process that emits a record.  The log writer comes first in the
\* MultiWriter: when it fails the number is used up and the buffer not written.
Emitted(row, state) ==
    [row EXCEPT !.seq = row.seq + 1, !.bytes = Append(row.bytes, Record(row.seq + 1, state))]
Dropped(row) == [row EXCEPT !.seq = row.seq + 1]

\* What follows each Emit of the main goroutine, and the exit code of its error.
AfterEmit(e) ==
    CASE At(e, "run.started") -> "template"
      [] At(e, "workspace.ready") -> "stat"
      [] At(e, "command.started") -> "start"
      [] At(e, "command.finished") ->
           IF Len(me[e].results) < Tests THEN "command.started" ELSE "tests.passed"
      [] At(e, "tests.passed") -> "stop"
      [] At(e, "run.succeeded") -> "return"
EmitError(e) ==
    IF me[e].pc \in {"command.started", "command.finished"} THEN 4 ELSE 8

\* Mutant of EmitFails: the last record is as good as any other.
EmitAlwaysFails(e) == Exit(e, EmitError(e))

\* The error of the last Emit is dropped: the evidence has been written.
EmitFails(e) ==
    IF At(e, "run.succeeded")
    THEN Set(e, [Dropped(me[e]) EXCEPT !.pc = "return"])
    ELSE Exit(e, EmitError(e))

Emit(e) ==
    /\ me[e].pc \in {"run.started", "workspace.ready", "command.started",
                     "command.finished", "tests.passed", "run.succeeded"}
    /\ me[e].beat # "writing"                                      \* sink.mu
    /\ \/ /\ Set(e, [Emitted(me[e], "whole") EXCEPT !.pc = AfterEmit(e)])
          /\ UNCHANGED faults
       \/ Fault /\ EmitFails(e)
    /\ UNCHANGED <<store, evidence>>

\* emitHeartbeats: the select takes any ready case, so a tick may still win
\* over a closed channel.  bytes.Buffer grows before it copies: until
\* FinishBeat the last record is not all there for a reader without the lock.
StartBeat(e) ==
    /\ Alive(e) /\ me[e].beat = "idle" /\ me[e].beats < MaxBeats
    /\ \/ /\ Set(e, [Emitted(me[e], "torn") EXCEPT !.beat = "writing", !.beats = me[e].beats + 1])
          /\ UNCHANGED faults
       \/ Fault /\ Set(e, [Dropped(me[e]) EXCEPT !.beats = me[e].beats + 1])
    /\ UNCHANGED <<store, evidence>>

Completed(bytes) ==
    [i \in 1..Len(bytes) |->
       IF bytes[i].state = "torn" THEN Record(bytes[i].seq, "whole") ELSE bytes[i]]

FinishBeat(e) ==
    /\ Alive(e) /\ me[e].beat = "writing"
    /\ Set(e, [me[e] EXCEPT !.beat = "idle", !.bytes = Completed(me[e].bytes),
                            !.view = Completed(me[e].view)])
    /\ UNCHANGED <<store, evidence, faults>>

StopBeats(e) ==
    /\ Alive(e) /\ me[e].beat = "idle"
    /\ me[e].ctx # "live" \/ me[e].stopped
    /\ Set(e, [me[e] EXCEPT !.beat = "off"])
    /\ UNCHANGED <<store, evidence, faults>>

-----------------------------------------------------------------------------
(* Commands (runTests and Executor.Run).                                   *)

WriteTemplate(e) ==
    /\ At(e, "template")
    /\ \/ Goto(e, "workspace.ready") /\ UNCHANGED faults
       \/ Exit(e, 8) /\ Fault
    /\ UNCHANGED <<store, evidence>>

StatTemplate(e) ==
    /\ At(e, "stat")
    /\ \/ Goto(e, "command.started") /\ UNCHANGED faults
       \/ Exit(e, 4) /\ Fault
    /\ UNCHANGED <<store, evidence>>

\* The policy refuses the command (3), it cannot be started (4), or it runs in
\* a process group of its own.
StartCommand(e) ==
    /\ At(e, "start")
    /\ \/ Exit(e, 3) /\ UNCHANGED faults
       \/ Exit(e, 4) /\ Fault
       \/ /\ \E child \in Children :
               Set(e, [me[e] EXCEPT !.pc = "wait", !.leader = "running", !.child = child,
                                    !.over = FALSE])
          /\ UNCHANGED faults
    /\ UNCHANGED <<store, evidence>>

\* command.Wait returns once the leader is reaped and its pipes are closed.
Waited(e) == me[e].leader # "running" /\ me[e].child = "none"

\* The processes of the command: they end when they like, or write too much.
Work(e) ==
    /\ Alive(e)
    /\ \/ /\ me[e].leader = "running"
          /\ \E end \in {"passed", "failed"} : Set(e, [me[e] EXCEPT !.leader = end])
       \/ /\ me[e].child # "none"
          /\ Set(e, [me[e] EXCEPT !.child = "none"])
       \/ /\ ~Waited(e) /\ ~me[e].over
          /\ Set(e, [me[e] EXCEPT !.over = TRUE])
    /\ UNCHANGED <<store, evidence, faults>>

\* A signal that ends the group: a process outside the group is not reached.
Struck(row) ==
    [row EXCEPT !.leader = IF row.leader = "running" THEN "failed" ELSE row.leader,
                !.child = IF row.child = "holding" THEN "none" ELSE row.child]

\* Mutant of Terminated: one SIGTERM and no SIGKILL.
NotTerminated(row) == row

\* SIGKILL to the group.
Terminated(row) == Struck(row)

\* Mutant of CommandFailed: the exit status is not looked at.
OutputExceeded(e) == me[e].over

CommandFailed(e) == me[e].over \/ me[e].leader = "failed"

CtxExit(e) == IF me[e].ctx = "deadline" THEN 5 ELSE 6
RunError(e) == IF me[e].why = "ctx" THEN CtxExit(e) ELSE 4

\* The select of Executor.Run: any ready case.
Await(e) ==
    /\ At(e, "wait")
    /\ \/ /\ Waited(e)
          /\ IF CommandFailed(e)
             THEN Exit(e, 4)
             ELSE Set(e, [me[e] EXCEPT !.pc = "command.finished",
                                       !.results = Append(me[e].results, me[e].leader)])
       \/ \E row \in {me[e], Struck(me[e])} :                       \* SIGTERM
            \/ me[e].ctx # "live" /\ Set(e, [row EXCEPT !.pc = "term", !.why = "ctx"])
            \/ me[e].over /\ Set(e, [row EXCEPT !.pc = "term", !.why = "output"])
    /\ UNCHANGED <<store, evidence, faults>>

\* One second for the SIGTERM, then SIGKILL and wait.
Reap(e) ==
    /\ me[e].pc \in {"term", "kill"}
    /\ \/ Waited(e) /\ Exit(e, RunError(e))
       \/ At(e, "term") /\ Set(e, [Terminated(me[e]) EXCEPT !.pc = "kill"])
    /\ UNCHANGED <<store, evidence, faults>>

-----------------------------------------------------------------------------
(* Publication (LoadArtifactStore, publishArtifacts, putVerified).         *)

\* stop() closes the channel and does not wait for the goroutine.
LoadArtifactStore(e) ==
    /\ At(e, "stop")
    /\ \/ Exit(e, 7) /\ Fault
       \/ /\ \E b \in Backends :
               Set(e, [me[e] EXCEPT !.pc = "publish", !.stopped = TRUE, !.backend = b])
          /\ UNCHANGED faults
    /\ UNCHANGED <<store, evidence>>

\* trajectory.Bytes() without the sink's lock.  While a heartbeat is written
\* the racing read sees the old length, the new length over bytes that are
\* still to come, or bytes that never come (the buffer was moved).
Bytes(row) ==
    LET n == Len(row.bytes)
    IN  IF row.beat # "writing" THEN {row.bytes}
        ELSE {SubSeq(row.bytes, 1, n - 1), row.bytes,
              [row.bytes EXCEPT ![n] = Record(row.bytes[n].seq, "garbage")]}

Publish(e) ==
    /\ At(e, "publish")
    /\ \/ Exit(e, 7) /\ Fault                                 \* sourceSnapshot
       \/ /\ \E v \in Bytes(me[e]) :
               Set(e, [me[e] EXCEPT !.pc = "put", !.view = v, !.pos = 1, !.try = 1])
          /\ UNCHANGED faults
    /\ UNCHANGED <<store, evidence>>

Manifest(e) == [of |-> e, artifacts |-> me[e].published, last |-> me[e].last]
Contents(e) ==
    IF me[e].pos = Commit THEN Manifest(e)
    ELSE CASE Objects[me[e].pos] = "report" -> [of |-> e, results |-> me[e].results]
           [] Objects[me[e].pos] = "trajectory" -> [of |-> e, bytes |-> me[e].view]
           [] OTHER -> [of |-> e, object |-> Objects[me[e].pos]]
Here(e) == Key(e, me[e].pos)

\* The select after a failed attempt: the context is looked at first because
\* the timer has just been started.
Failed(e) ==
    IF me[e].ctx = "live" THEN Goto(e, "backoff")
    ELSE Exit(e, IF me[e].ctx = "canceled" THEN 6 ELSE 7)

Digest(e, pc) == Set(e, [me[e] EXCEPT !.pc = pc, !.digest = Contents(e)])
Write(e, c) == store' = [store EXCEPT ![Here(e)] = c]
\* A request of the S3 client also fails because its context is done.
RequestFails(e) ==
    \/ Fault
    \/ me[e].backend = "s3" /\ me[e].ctx # "live" /\ UNCHANGED faults

\* filesystemStore.Put: temporary file and rename, then the digest.
FilePut(e) ==
    /\ me[e].backend = "filesystem"
    /\ \/ At(e, "put") /\ Write(e, Contents(e)) /\ Goto(e, "sent") /\ UNCHANGED faults
       \/ At(e, "put") /\ Failed(e) /\ RequestFails(e) /\ UNCHANGED store
       \/ At(e, "sent") /\ Digest(e, "head") /\ UNCHANGED <<store, faults>>
    /\ UNCHANGED evidence

\* s3Store.Put: the digest, then the upload; the answer may be lost, and a
\* backend may acknowledge bytes it did not keep.
ObjectPut(e) ==
    /\ me[e].backend = "s3"
    /\ \/ At(e, "put") /\ Digest(e, "sent") /\ UNCHANGED <<store, faults>>
       \/ At(e, "sent") /\ Write(e, Contents(e)) /\ Goto(e, "head") /\ UNCHANGED faults
       \/ At(e, "sent") /\ Write(e, Foreign) /\ Goto(e, "head") /\ Fault
       \/ /\ At(e, "sent") /\ Failed(e) /\ RequestFails(e)
          /\ Write(e, Contents(e)) \/ UNCHANGED store
    /\ UNCHANGED evidence

\* The number of the last line that parses; numbers only grow.
trajectorySequence(bytes) ==
    LET parsed == {bytes[i].seq : i \in {j \in 1..Len(bytes) : bytes[j].state = "whole"}}
    IN  Max(parsed \union {0})

\* Mutant of Verified: the evidence does not wait for the manifest.
VerifiedObjects(e) ==
    IF me[e].pos = Len(Objects)
    THEN Goto(e, "evidence")
    ELSE Set(e, [me[e] EXCEPT !.pc = "put", !.pos = me[e].pos + 1, !.try = 1,
                              !.published = Append(me[e].published, me[e].digest),
                              !.last = trajectorySequence(me[e].view)])

\* The object is verified: the next one, the manifest, or the evidence.
Verified(e) ==
    IF me[e].pos = Commit
    THEN Goto(e, "evidence")
    ELSE Set(e, [me[e] EXCEPT !.pc = "put", !.pos = me[e].pos + 1, !.try = 1,
                              !.published = Append(me[e].published, me[e].digest),
                              !.last = trajectorySequence(me[e].view)])

\* Mutant of Matches: any object under the key will do.
Present(e) == store[Here(e)] # Nothing

\* The digest and size of the object in the store are those of the upload.
Matches(e) == store[Here(e)] = me[e].digest

HeadObject(e) ==
    /\ At(e, "head")
    /\ \/ Matches(e) /\ Verified(e) /\ UNCHANGED faults
       \/ ~Matches(e) /\ Failed(e) /\ UNCHANGED faults
       \/ RequestFails(e) /\ Failed(e)
    /\ UNCHANGED <<store, evidence>>

Backoff(e) ==
    /\ At(e, "backoff")
    /\ \/ me[e].ctx # "live" /\ Exit(e, IF me[e].ctx = "canceled" THEN 6 ELSE 7)
       \/ me[e].try < 3 /\ Set(e, [me[e] EXCEPT !.pc = "put", !.try = me[e].try + 1])
       \/ me[e].try = 3 /\ Exit(e, 7)
    /\ UNCHANGED <<store, evidence, faults>>

writeTerminationEvidence(e) ==
    /\ At(e, "evidence")
    /\ \/ /\ evidence' = [evidence EXCEPT ![e] = "complete"]
          /\ Goto(e, "run.succeeded") /\ UNCHANGED faults
       \/ /\ Fault /\ Exit(e, 7)
          /\ \E left \in {"none", "partial"} : evidence' = [evidence EXCEPT ![e] = left]
    /\ UNCHANGED store

Return(e) ==
    /\ At(e, "return") /\ Exit(e, 0)
    /\ UNCHANGED <<store, evidence, faults>>

-----------------------------------------------------------------------------
(* What happens to a runner, and the specification.                        *)

SIGTERM(e) ==
    /\ Alive(e) /\ me[e].ctx = "live"
    /\ Set(e, [me[e] EXCEPT !.ctx = "canceled"])
    /\ UNCHANGED <<store, evidence, faults>>

Deadline(e) ==
    /\ Alive(e) /\ ~At(e, "load") /\ me[e].ctx = "live"
    /\ Set(e, [me[e] EXCEPT !.ctx = "deadline"])
    /\ UNCHANGED <<store, evidence, faults>>

\* SIGKILL: the end of the grace period, the memory limit, a lost node.
Kill(e) ==
    /\ Alive(e) /\ Exit(e, Killed) /\ Fault
    /\ UNCHANGED <<store, evidence>>

\* One step of the main goroutine.
Main(e) ==
    \/ Load(e) \/ Emit(e) \/ WriteTemplate(e) \/ StatTemplate(e)
    \/ StartCommand(e) \/ Await(e) \/ Reap(e)
    \/ LoadArtifactStore(e) \/ Publish(e) \/ FilePut(e) \/ ObjectPut(e)
    \/ HeadObject(e) \/ Backoff(e) \/ writeTerminationEvidence(e) \/ Return(e)

Next ==
    \E e \in Executions :
        \/ StartProcess(e) \/ Main(e)
        \/ StartBeat(e) \/ FinishBeat(e) \/ StopBeats(e)
        \/ Work(e)
        \/ SIGTERM(e) \/ Deadline(e) \/ Kill(e)

Spec == Init /\ [][Next]_vars

\* The runtime schedules both goroutines and the timer of the context fires.
\* Nothing is assumed of the commands: they may run for ever.
FairSpec ==
    /\ Spec
    /\ \A e \in Executions :
         WF_vars(Main(e)) /\ WF_vars(FinishBeat(e)) /\ WF_vars(Deadline(e))

-----------------------------------------------------------------------------
(* Properties.                                                             *)

\* A manifest in the store is the commit point of publishArtifacts: every
\* object it lists is there with the digest it gives, whatever uploads were
\* lost, retried or answered wrongly.
ManifestIsLast ==
    \A e \in Executions :
        LET m == store[Key(e, Commit)] IN
        m.of \notin {None, Other} =>
            /\ Len(m.artifacts) = Len(Objects)
            /\ \A i \in 1..Len(Objects) : store[Key(e, i)] = m.artifacts[i]

\* Valid termination evidence is only ever there with the manifest it names,
\* and that manifest is of the same attempt id: no other execution, not even
\* the operator's retry of an older attempt, which may bear the same number,
\* replaces a proof that was given.
EvidenceIsDurable ==
    \A e \in Executions :
        evidence[e] = "complete" =>
            store[Key(e, Commit)].of = e

\* Exit code 0 comes with evidence, and every other code of Run without: what
\* the operator reads never contradicts how the process ended.
ExitMatchesEvidence ==
    \A e \in Executions :
        At(e, "exited") =>
            /\ me[e].exit = 0 => evidence[e] = "complete"
            /\ me[e].exit \in 2..8 => evidence[e] # "complete"

\* Evidence is earned: the published report lists every command of the task,
\* and each of them passed, although a command may have been stopped at the
\* output limit, by the context, or have failed while either happened.
EvidenceIsEarned ==
    \A e \in Executions :
        evidence[e] = "complete" =>
            store[Key(e, 2)].results = [i \in 1..Tests |-> "passed"]

\* A runner always ends, although its commands may hang, ignore SIGTERM or
\* leave descendants in the group: the deadline ends the context, and every
\* wait of the main goroutine looks at the context or is bounded.
RunEnds == \A e \in Executions : At(e, "load") ~> At(e, "exited")
=============================================================================
