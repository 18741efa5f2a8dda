------------------------- MODULE AgentRunnerProofs -------------------------
(***************************************************************************)
(* What the operator may conclude from the evidence of a runner, proved    *)
(* for any number of executions, commands, heartbeats and faults.          *)
(*                                                                         *)
(* The argument: only one execution of an attempt number gets past Load,   *)
(* so nobody else writes under its keys, and what it has under them is     *)
(* determined by how far its main goroutine has come.                      *)
(***************************************************************************)
EXTENDS AgentRunner, SequenceTheorems, TLAPS

Fields == {"pc", "ctx", "why", "results", "backend", "pos", "try", "digest", "last", "published",
           "view", "beat", "beats", "stopped", "seq", "bytes", "leader", "child", "over", "exit"}

Before == {"new", "load", "run.started", "template", "workspace.ready", "stat",
           "command.started", "start", "wait", "term", "kill", "command.finished",
           "tests.passed", "stop", "publish"}
Putting == {"put", "sent", "head", "backoff"}
Closed == {"run.succeeded", "return"}

AllPassed == [i \in 1..Tests |-> "passed"]
ReportOf(e) == [of |-> e, results |-> AllPassed]
ManifestOf(e, row) == [of |-> e, artifacts |-> row.published, last |-> row.last]

\* What each execution has in the store.
Shelf == [e \in Executions |-> [i \in 1..Commit |-> store[Key(e, i)]]]

\* The objects on a shelf as a manifest lists them.
Listed(shelf, n) == [i \in 1..n |-> shelf[i]]

\* Commands that have passed so far.
ResultsSound(row) ==
    /\ row.results \in Seq({"passed"}) /\ Len(row.results) <= Tests
    /\ row.leader \in {"none", "running", "passed", "failed"}
    /\ row.pc \in {"command.started", "start", "wait"} => Len(row.results) < Tests
    /\ row.pc \in {"new", "load", "run.started", "template", "workspace.ready", "stat"} =>
         row.results = <<>>
    /\ row.pc = "wait" => row.leader # "none"
    /\ row.pc \in {"tests.passed", "stop", "publish", "evidence"} \union Putting \union Closed =>
         row.results = AllPassed

\* Publication: what was verified is on the shelf, what is to come is not.
PutSound(e, row, shelf) ==
    /\ row.pos \in 1..Commit
    /\ row.published = Listed(shelf, row.pos - 1)
    /\ \A i \in 1..Commit : i > row.pos => shelf[i] = Nothing
    /\ row.pos > 2 => shelf[2] = ReportOf(e)
    /\ row.pos = Commit => shelf[Commit] \in {Nothing, Foreign, ManifestOf(e, row)}
    /\ row.pc = "head" \/ (row.pc = "sent" /\ row.backend = "s3") =>
         /\ row.pos = 2 => row.digest = ReportOf(e)
         /\ row.pos = Commit => row.digest = ManifestOf(e, row)
    /\ row.pc = "evidence" => row.pos = Commit /\ shelf[Commit] = ManifestOf(e, row)

\* A manifest lists what is on the shelf, with the report of commands that passed.
ShelfSound(e, shelf) ==
    shelf[Commit].of \notin {None, Other} =>
        /\ shelf[Commit].of = e
        /\ shelf[Commit].artifacts = Listed(shelf, Len(Objects))
        /\ shelf[2] = ReportOf(e)

ExitSound(row, ev) ==
    row.pc = "exited" => /\ row.exit = 0 => ev = "complete"
                         /\ row.exit \in 2..8 => ev # "complete"

\* An execution whose number is not the signed one gets no further than Load.
Sound(e, row, shelf, ev) ==
    /\ DOMAIN row = Fields
    /\ ExitSound(row, ev)
    /\ IF ~Validate(e)
       THEN row.pc \in {"new", "load", "exited"} /\ ev # "complete"
       ELSE /\ row.pc \in Before \union Putting \union Closed \union {"evidence", "exited"}
            /\ ResultsSound(row)
            /\ ShelfSound(e, shelf)
            /\ row.pc \in Before =>
                 /\ row.published = <<>>
                 /\ \A i \in 1..Commit : shelf[i] = Nothing
            /\ row.pc \in Putting \union {"evidence"} => PutSound(e, row, shelf)
            /\ ev = "complete" => /\ row.pc \in Closed \union {"exited"}
                                  /\ shelf[Commit].of = e
            /\ row.pc \in Closed => ev = "complete"

\* Whoever wrote under a key is the execution the number was signed for.
Owned ==
    \A e \in Executions, i \in 1..Commit :
        store[Key(e, i)] # Nothing =>
            \E f \in Executions : Validate(f) /\ f.attempt = e.attempt

RunnerInv ==
    /\ DOMAIN me = Executions /\ DOMAIN store = Keys /\ DOMAIN evidence = Executions
    /\ \A e \in Executions : Sound(e, me[e], Shelf[e], evidence[e])
    /\ Owned

-----------------------------------------------------------------------------
\* The objects of a publication, and the place of the manifest.
LEMMA Sizes == Len(Objects) = 5 /\ Commit = 6
BY DEF Objects, Commit

\* Executions that get past Load have keys of their own.
LEMMA OwnKeys ==
  ASSUME NEW e \in Executions, NEW f \in Executions, Validate(e), Validate(f), e # f
  PROVE  \A i, j \in 1..Commit : Key(e, i) # Key(f, j)
<1>1. e.attempt # f.attempt
  <2>1. ASSUME e.attempt = f.attempt PROVE FALSE
    <3>1. e.id = f.id
      BY <2>1, RunnerConstants DEF Validate
    <3> QED BY <2>1, <3>1, RunnerConstants
  <2> QED BY <2>1
<1> QED BY <1>1 DEF Key

\* The process of an execution moves; nobody else does, and the store is written
\* only under its own keys.
LEMMA LocalStep ==
  ASSUME RunnerInv, NEW e \in Executions, NEW row, Set(e, row),
         NEW ev, DOMAIN evidence' = Executions, evidence'[e] = ev,
         \A d \in Executions \ {e} : evidence'[d] = evidence[d],
         \/ UNCHANGED store
         \/ /\ Validate(e)
            /\ \E i \in 1..Commit : \E c : store' = [store EXCEPT ![Key(e, i)] = c],
         Sound(e, row, Shelf'[e], ev)
  PROVE  RunnerInv'
<1>1. /\ DOMAIN me' = Executions /\ DOMAIN store' = Keys /\ DOMAIN evidence' = Executions
      /\ me'[e] = row /\ evidence'[e] = ev
      /\ \A d \in Executions \ {e} : me'[d] = me[d] /\ evidence'[d] = evidence[d]
  BY DEF RunnerInv, Set
<1>2. ASSUME NEW d \in Executions \ {e}, Validate(d) PROVE Shelf'[d] = Shelf[d]
  <2>1. CASE UNCHANGED store
    BY <2>1 DEF Shelf
  <2>2. CASE Validate(e) /\ \E i \in 1..Commit : \E c : store' = [store EXCEPT ![Key(e, i)] = c]
    <3>1. PICK i \in 1..Commit : \E c : store' = [store EXCEPT ![Key(e, i)] = c]
      BY <2>2
    <3>2. \A j \in 1..Commit : Key(d, j) # Key(e, i) /\ Key(d, j) \in Keys
      BY <1>2, <2>2, OwnKeys DEF Keys
    <3>3. \A j \in 1..Commit : store'[Key(d, j)] = store[Key(d, j)]
      BY <3>1, <3>2 DEF RunnerInv
    <3> QED BY <3>3 DEF Shelf
  <2> QED BY <2>1, <2>2
<1>3. ASSUME NEW d \in Executions PROVE Sound(d, me'[d], Shelf'[d], evidence'[d])
  <2>1. CASE d = e
    BY <1>1, <2>1
  <2>2. CASE d # e
    <3>1. Sound(d, me[d], Shelf[d], evidence[d]) /\ me'[d] = me[d] /\ evidence'[d] = evidence[d]
      BY <1>1, <2>2 DEF RunnerInv
    <3>2. CASE Validate(d)
      BY <1>2, <2>2, <3>1, <3>2
    <3>3. CASE ~Validate(d)
      BY <3>1, <3>3 DEF Sound
    <3> QED BY <3>2, <3>3
  <2> QED BY <2>1, <2>2
<1>4. Owned'
  <2>1. CASE UNCHANGED store
    BY <2>1 DEF RunnerInv, Owned
  <2>2. CASE Validate(e) /\ \E i \in 1..Commit : \E c : store' = [store EXCEPT ![Key(e, i)] = c]
    <3>1. PICK i \in 1..Commit : \E c : store' = [store EXCEPT ![Key(e, i)] = c]
      BY <2>2
    <3> SUFFICES ASSUME NEW d \in Executions, NEW j \in 1..Commit, store'[Key(d, j)] # Nothing
                 PROVE  \E f \in Executions : Validate(f) /\ f.attempt = d.attempt
      BY DEF Owned
    <3>2. CASE Key(d, j) = Key(e, i)
      <4>1. d.attempt = e.attempt
        BY <3>2 DEF Key
      <4> QED BY <2>2, <4>1
    <3>3. CASE Key(d, j) # Key(e, i)
      <4>1. store'[Key(d, j)] = store[Key(d, j)]
        BY <3>1, <3>3 DEF RunnerInv, Keys
      <4> QED BY <4>1 DEF RunnerInv, Owned
    <3> QED BY <3>2, <3>3
  <2> QED BY <2>1, <2>2
<1> QED BY <1>1, <1>3, <1>4 DEF RunnerInv

\* Most steps touch neither the store nor the evidence.
LEMMA QuietStep ==
  ASSUME RunnerInv, NEW e \in Executions, NEW row, Set(e, row), UNCHANGED <<store, evidence>>,
         Sound(e, row, Shelf[e], evidence[e])
  PROVE  RunnerInv'
<1>1. Shelf' = Shelf
  BY DEF Shelf
<1>2. Sound(e, row, Shelf'[e], evidence[e])
  BY <1>1
<1>3. DOMAIN evidence' = Executions /\ evidence'[e] = evidence[e]
      /\ \A d \in Executions \ {e} : evidence'[d] = evidence[d]
  BY DEF RunnerInv
<1> QED BY <1>2, <1>3, LocalStep

-----------------------------------------------------------------------------
(* Rows. *)

\* The row of a process that has ended is sound with whatever it has left.
LEMMA ExitedRow ==
  ASSUME NEW e, NEW row, NEW shelf, NEW ev, Sound(e, row, shelf, ev), NEW left,
         left = "complete" => ev = "complete", NEW code,
         code = 0 => left = "complete", code \in 2..8 => left # "complete"
  PROVE  Sound(e, [Process EXCEPT !.pc = "exited", !.exit = code], shelf, left)
<1> DEFINE new == [Process EXCEPT !.pc = "exited", !.exit = code]
<1>1. /\ DOMAIN new = Fields /\ new.pc = "exited" /\ new.exit = code
      /\ new.results = <<>> /\ new.leader = "none"
  BY DEF Process, Fields
<1> HIDE DEF new
<1>2. ResultsSound(new)
  <2>1. <<>> \in Seq({"passed"}) /\ Len(<<>>) <= Tests
    BY RunnerConstants
  <2> QED BY <1>1, <2>1 DEF ResultsSound, Putting, Closed
<1>3. Sound(e, new, shelf, left)
  BY <1>1, <1>2 DEF Sound, ExitSound, Before, Putting, Closed
<1> QED BY <1>3 DEF new

\* A step that leaves alone what the main goroutine has come to.
LEMMA InertRow ==
  ASSUME NEW e, NEW row, NEW shelf, NEW ev, Sound(e, row, shelf, ev), NEW new,
         DOMAIN new = Fields, new.pc = row.pc, new.results = row.results, new.pos = row.pos,
         new.published = row.published, new.last = row.last, new.digest = row.digest,
         new.backend = row.backend, new.exit = row.exit,
         new.leader = row.leader \/ new.leader \in {"passed", "failed"}
  PROVE  Sound(e, new, shelf, ev)
<1>1. ExitSound(new, ev)
  BY DEF Sound, ExitSound
<1>2. Validate(e) => ResultsSound(new)
  BY DEF Sound, ResultsSound
<1>3. Validate(e) /\ new.pc \in Putting \union {"evidence"} => PutSound(e, new, shelf)
  BY DEF Sound, PutSound, ManifestOf
<1> QED BY <1>1, <1>2, <1>3 DEF Sound

\* A step before publication.
LEMMA EarlyRow ==
  ASSUME NEW e, Validate(e), NEW row, NEW shelf, NEW ev, Sound(e, row, shelf, ev),
         row.pc \in Before, NEW new, DOMAIN new = Fields, new.pc \in Before,
         new.published = row.published, ResultsSound(new)
  PROVE  Sound(e, new, shelf, ev)
<1>1. ev # "complete"
  BY DEF Sound, Before, Closed
<1>2. new.pc \notin Putting \union {"evidence"} \union Closed \union {"exited"}
  BY DEF Before, Putting, Closed
<1> QED BY <1>1, <1>2 DEF Sound, ExitSound

-----------------------------------------------------------------------------
(* Actions that do not publish. *)

\* A process that ends on an error, or is killed, has given no evidence yet
\* unless it is past writing it.
LEMMA ExitStep ==
  ASSUME RunnerInv, NEW e \in Executions, NEW code, Exit(e, code), UNCHANGED <<store, evidence>>,
         \/ code = Killed
         \/ code \in 2..8 /\ me[e].pc \notin Closed \union {"exited"}
         \/ code = 0 /\ me[e].pc \in Closed
  PROVE  RunnerInv'
<1>1. Sound(e, me[e], Shelf[e], evidence[e])
  BY DEF RunnerInv
<1>2. /\ code = 0 => evidence[e] = "complete"
      /\ code \in 2..8 => evidence[e] # "complete"
  BY <1>1 DEF Sound, Killed, Closed
<1>3. Sound(e, [Process EXCEPT !.pc = "exited", !.exit = code], Shelf[e], evidence[e])
  BY <1>1, <1>2, ExitedRow
<1> QED BY <1>3, QuietStep DEF Exit

\* Signals, heartbeats and the processes of the commands.
LEMMA BackgroundStep ==
  ASSUME RunnerInv, NEW e \in Executions,
         \/ StartBeat(e) \/ FinishBeat(e) \/ StopBeats(e) \/ Work(e)
         \/ SIGTERM(e) \/ Deadline(e)
  PROVE  RunnerInv'
<1> DEFINE row == me[e]
<1>1. Sound(e, row, Shelf[e], evidence[e]) /\ DOMAIN row = Fields
  BY DEF RunnerInv, Sound
<1>2. UNCHANGED <<store, evidence>>
  BY DEF StartBeat, FinishBeat, StopBeats, Work, SIGTERM, Deadline
<1>3. ASSUME NEW new, Set(e, new),
             DOMAIN new = Fields, new.pc = row.pc, new.results = row.results, new.pos = row.pos,
             new.published = row.published, new.last = row.last, new.digest = row.digest,
             new.backend = row.backend, new.exit = row.exit,
             new.leader = row.leader \/ new.leader \in {"passed", "failed"}
      PROVE  RunnerInv'
  <2>1. Sound(e, new, Shelf[e], evidence[e])
    <3> HIDE DEF row
    <3> QED BY <1>1, <1>3, InertRow
  <2> QED BY <1>2, <1>3, <2>1, QuietStep
<1>4. CASE StartBeat(e)
  <2>1. CASE Set(e, [Emitted(row, "torn") EXCEPT !.beat = "writing", !.beats = row.beats + 1])
    BY <1>1, <1>3, <2>1 DEF Emitted, Fields
  <2>2. CASE Set(e, [Dropped(row) EXCEPT !.beats = row.beats + 1])
    BY <1>1, <1>3, <2>2 DEF Dropped, Fields
  <2> QED BY <1>4, <2>1, <2>2 DEF StartBeat
<1>5. CASE FinishBeat(e)
  BY <1>1, <1>3, <1>5 DEF FinishBeat, Fields
<1>6. CASE StopBeats(e)
  BY <1>1, <1>3, <1>6 DEF StopBeats, Fields
<1>7. CASE Work(e)
  <2>1. ASSUME NEW end \in {"passed", "failed"}, Set(e, [row EXCEPT !.leader = end])
        PROVE  RunnerInv'
    BY <1>1, <1>3, <2>1 DEF Fields
  <2>2. CASE Set(e, [row EXCEPT !.child = "none"]) \/ Set(e, [row EXCEPT !.over = TRUE])
    BY <1>1, <1>3, <2>2 DEF Fields
  <2> QED BY <1>7, <2>1, <2>2 DEF Work
<1>8. CASE SIGTERM(e)
  BY <1>1, <1>3, <1>8 DEF SIGTERM, Fields
<1>9. CASE Deadline(e)
  BY <1>1, <1>3, <1>9 DEF Deadline, Fields
<1> QED BY <1>4, <1>5, <1>6, <1>7, <1>8, <1>9

-----------------------------------------------------------------------------
(* The main goroutine up to publication. *)

\* What holds of an execution that is past Load.
LEMMA PastLoad ==
  ASSUME RunnerInv, NEW e \in Executions, me[e].pc \notin {"new", "load", "exited"}
  PROVE  /\ Validate(e) /\ Sound(e, me[e], Shelf[e], evidence[e])
         /\ DOMAIN me[e] = Fields /\ ResultsSound(me[e])
BY DEF RunnerInv, Sound

\* A step of the main goroutine that leaves the results alone.
LEMMA EarlyStep ==
  ASSUME RunnerInv, NEW e \in Executions, me[e].pc \in Before \ {"new", "load"},
         NEW new, Set(e, new), UNCHANGED <<store, evidence>>,
         DOMAIN new = Fields, new.pc \in Before, new.published = me[e].published, ResultsSound(new)
  PROVE  RunnerInv'
<1>1. Validate(e) /\ Sound(e, me[e], Shelf[e], evidence[e])
  BY PastLoad DEF Before
<1>2. Sound(e, new, Shelf[e], evidence[e])
  BY <1>1, EarlyRow
<1> QED BY <1>2, QuietStep

\* A runner starts.
LEMMA StartProcessStep ==
  ASSUME RunnerInv, NEW e \in Executions, StartProcess(e)
  PROVE  RunnerInv'
<1> DEFINE row == me[e]
           new == [row EXCEPT !.pc = "load"]
<1>1. Sound(e, row, Shelf[e], evidence[e]) /\ row.pc = "new" /\ DOMAIN row = Fields
  BY DEF RunnerInv, Sound, StartProcess, At
<1>2. /\ DOMAIN new = Fields /\ new.pc = "load" /\ new.results = row.results
      /\ new.published = row.published /\ new.leader = row.leader
  BY <1>1 DEF Fields
<1>3. Set(e, new) /\ UNCHANGED <<store, evidence>>
  BY DEF StartProcess, Goto
<1> HIDE DEF new, row
<1>4. CASE Validate(e)
  <2>1. ResultsSound(new)
    BY <1>1, <1>2, <1>4 DEF Sound, ResultsSound, Putting, Closed
  <2>2. Sound(e, new, Shelf[e], evidence[e])
    BY <1>1, <1>2, <1>4, <2>1, EarlyRow DEF Before
  <2> QED BY <1>3, <2>2, QuietStep
<1>5. CASE ~Validate(e)
  <2>1. Sound(e, new, Shelf[e], evidence[e])
    BY <1>1, <1>2, <1>5 DEF Sound, ExitSound
  <2> QED BY <1>3, <2>1, QuietStep
<1> QED BY <1>4, <1>5

\* Load lets only the execution pass whose number was signed.
LEMMA LoadStep ==
  ASSUME RunnerInv, NEW e \in Executions, Load(e)
  PROVE  RunnerInv'
<1> DEFINE row == me[e]
           new == [row EXCEPT !.pc = "run.started", !.beat = "idle"]
<1>1. Sound(e, row, Shelf[e], evidence[e]) /\ row.pc = "load" /\ DOMAIN row = Fields
  BY DEF RunnerInv, Sound, Load, At
<1>2. UNCHANGED <<store, evidence>>
  BY DEF Load
<1>3. CASE Exit(e, 2) \/ Exit(e, 8)
  BY <1>1, <1>2, <1>3, ExitStep DEF Closed
<1>4. CASE Validate(e) /\ Set(e, new)
  <2>1. /\ DOMAIN new = Fields /\ new.pc = "run.started" /\ new.results = row.results
        /\ new.published = row.published /\ new.leader = row.leader
    BY <1>1 DEF Fields
  <2>2. Set(e, new)
    BY <1>4
  <2> HIDE DEF new, row
  <2>3. ResultsSound(new)
    BY <1>1, <1>4, <2>1 DEF Sound, ResultsSound, Putting, Closed
  <2>4. Sound(e, new, Shelf[e], evidence[e])
    BY <1>1, <1>4, <2>1, <2>3, EarlyRow DEF Before
  <2> QED BY <1>2, <2>2, <2>4, QuietStep
<1> QED BY <1>3, <1>4 DEF Load, LoadSignedTask

\* As many results as commands, all of them passed.
LEMMA EnoughResults ==
  ASSUME NEW s \in Seq({"passed"}), Len(s) = Tests
  PROVE  s = AllPassed
BY RunnerConstants DEF AllPassed

\* An event is recorded, or the runner gives up.
LEMMA EmitStep ==
  ASSUME RunnerInv, NEW e \in Executions, Emit(e)
  PROVE  RunnerInv'
<1> DEFINE row == me[e]
           next == AfterEmit(e)
           new == [Emitted(row, "whole") EXCEPT !.pc = next]
<1>1. /\ row.pc \in {"run.started", "workspace.ready", "command.started", "command.finished",
                     "tests.passed", "run.succeeded"}
      /\ UNCHANGED <<store, evidence>>
  BY DEF Emit
<1>2. /\ Validate(e) /\ Sound(e, row, Shelf[e], evidence[e])
      /\ DOMAIN row = Fields /\ ResultsSound(row)
  BY <1>1, PastLoad
<1>3. /\ row.pc = "run.started" => next = "template"
      /\ row.pc = "workspace.ready" => next = "stat"
      /\ row.pc = "command.started" => next = "start"
      /\ row.pc = "command.finished" =>
           next = IF Len(row.results) < Tests THEN "command.started" ELSE "tests.passed"
      /\ row.pc = "tests.passed" => next = "stop"
      /\ row.pc = "run.succeeded" => next = "return"
  BY <1>1 DEF AfterEmit, At
<1>4. CASE row.pc = "run.succeeded"
  <2>1. ASSUME NEW k, DOMAIN k = Fields, k.pc = "return", k.results = row.results,
               k.leader = row.leader, Set(e, k)
        PROVE  RunnerInv'
    <3> HIDE DEF row, next, new
    <3>1. ResultsSound(k)
      BY <1>2, <1>4, <2>1 DEF ResultsSound, Putting, Closed
    <3>2. Sound(e, k, Shelf[e], evidence[e])
      BY <1>2, <1>4, <2>1, <3>1 DEF Sound, ExitSound, Before, Putting, Closed
    <3> QED BY <1>1, <2>1, <3>2, QuietStep
  <2>2. CASE Set(e, new)
    <3>1. /\ DOMAIN new = Fields /\ new.pc = next /\ new.results = row.results
          /\ new.leader = row.leader
      BY <1>2 DEF Emitted, Fields
    <3> QED BY <1>3, <1>4, <2>1, <2>2, <3>1
  <2>3. CASE Set(e, [Dropped(row) EXCEPT !.pc = "return"])
    BY <1>2, <2>1, <2>3 DEF Dropped, Fields
  <2> QED BY <1>4, <2>2, <2>3 DEF Emit, EmitFails, At
<1>5. CASE row.pc # "run.succeeded"
  <2>1. row.pc \in Before \ {"new", "load"}
    BY <1>1, <1>5 DEF Before
  <2>2. CASE Set(e, new)
    <3>1. /\ DOMAIN new = Fields /\ new.pc = next /\ new.results = row.results
          /\ new.leader = row.leader /\ new.published = row.published
      BY <1>2 DEF Emitted, Fields
    <3>2. Set(e, new)
      BY <2>2
    <3> HIDE DEF row, next, new
    <3>3. new.pc \in Before /\ new.pc # "wait"
      BY <1>1, <1>3, <1>5, <3>1 DEF Before
    <3>4. new.pc = "tests.passed" => new.results = AllPassed
      <4>1. ASSUME new.pc = "tests.passed" PROVE row.pc = "command.finished" /\ Len(row.results) = Tests
        <5>1. row.pc = "command.finished" /\ ~(Len(row.results) < Tests)
          BY <1>1, <1>3, <1>5, <3>1, <4>1
        <5> QED BY <1>2, <5>1, RunnerConstants DEF ResultsSound
      <4> QED BY <1>2, <3>1, <4>1, EnoughResults DEF ResultsSound
    <3>5. ResultsSound(new)
      <4>1. new.pc = "start" => Len(row.results) < Tests
        BY <1>1, <1>2, <1>3, <1>5, <3>1 DEF ResultsSound
      <4>2. new.pc = "command.started" => Len(row.results) < Tests
        BY <1>1, <1>3, <1>5, <3>1
      <4>3. new.pc \in {"template", "stat"} => row.results = <<>>
        BY <1>1, <1>2, <1>3, <1>5, <3>1 DEF ResultsSound
      <4>4. new.pc = "stop" => row.results = AllPassed
        BY <1>1, <1>2, <1>3, <1>5, <3>1 DEF ResultsSound
      <4>5. new.pc \in {"template", "stat", "start", "command.started", "tests.passed", "stop"}
        BY <1>1, <1>3, <1>5, <3>1
      <4> QED BY <1>2, <3>1, <3>4, <4>1, <4>2, <4>3, <4>4, <4>5 DEF ResultsSound, Putting, Closed
    <3> QED BY <1>1, <2>1, <3>1, <3>2, <3>3, <3>5, EarlyStep DEF row
  <2>3. CASE EmitFails(e)
    <3>1. Exit(e, 4) \/ Exit(e, 8)
      BY <1>5, <2>3 DEF EmitFails, EmitError, At
    <3> QED BY <1>1, <1>5, <3>1, ExitStep DEF Closed
  <2> QED BY <2>2, <2>3 DEF Emit
<1> QED BY <1>4, <1>5

\* The template is written and found, and a command is started.
LEMMA PrepareStep ==
  ASSUME RunnerInv, NEW e \in Executions, WriteTemplate(e) \/ StatTemplate(e) \/ StartCommand(e)
  PROVE  RunnerInv'
<1> DEFINE row == me[e]
<1>1. /\ row.pc \in {"template", "stat", "start"} /\ UNCHANGED <<store, evidence>>
  BY DEF WriteTemplate, StatTemplate, StartCommand, At
<1>2. DOMAIN row = Fields /\ ResultsSound(row)
  BY <1>1, PastLoad
<1>3. CASE Exit(e, 3) \/ Exit(e, 4) \/ Exit(e, 8)
  BY <1>1, <1>3, ExitStep DEF Closed
<1>4. ASSUME NEW new, Set(e, new), DOMAIN new = Fields, new.results = row.results,
             new.published = row.published,
             \/ new.pc = "workspace.ready" /\ row.pc = "template" /\ new.leader = row.leader
             \/ new.pc = "command.started" /\ row.pc = "stat" /\ new.leader = row.leader
             \/ new.pc = "wait" /\ row.pc = "start" /\ new.leader = "running"
      PROVE  RunnerInv'
  <2>1. Len(<<>>) = 0 /\ Tests > 0 /\ Tests \in Nat
    BY RunnerConstants
  <2> HIDE DEF row
  <2>2. ResultsSound(new)
    BY <1>2, <1>4, <2>1 DEF ResultsSound, Putting, Closed
  <2> QED BY <1>1, <1>4, <2>2, EarlyStep DEF Before, row
<1>5. CASE WriteTemplate(e)
  <2>1. CASE Set(e, [row EXCEPT !.pc = "workspace.ready"])
    BY <1>2, <1>4, <1>5, <2>1 DEF Fields, WriteTemplate, At
  <2> QED BY <1>3, <1>5, <2>1 DEF WriteTemplate, Goto
<1>6. CASE StatTemplate(e)
  <2>1. CASE Set(e, [row EXCEPT !.pc = "command.started"])
    BY <1>2, <1>4, <1>6, <2>1 DEF Fields, StatTemplate, At
  <2> QED BY <1>3, <1>6, <2>1 DEF StatTemplate, Goto
<1>7. CASE StartCommand(e)
  <2>1. ASSUME NEW child \in Children,
               Set(e, [row EXCEPT !.pc = "wait", !.leader = "running", !.child = child,
                                  !.over = FALSE])
        PROVE  RunnerInv'
    BY <1>2, <1>4, <1>7, <2>1 DEF Fields, StartCommand, At
  <2> QED BY <1>3, <1>7, <2>1 DEF StartCommand
<1> QED BY <1>5, <1>6, <1>7

\* Only a command that passed adds a result.
LEMMA AwaitStep ==
  ASSUME RunnerInv, NEW e \in Executions, Await(e)
  PROVE  RunnerInv'
<1> DEFINE row == me[e]
<1>1. row.pc = "wait" /\ UNCHANGED <<store, evidence>>
  BY DEF Await, At
<1>2. DOMAIN row = Fields /\ ResultsSound(row)
  BY <1>1, PastLoad
<1>3. CASE Exit(e, 4)
  BY <1>1, <1>3, ExitStep DEF Closed
<1>4. CASE /\ Waited(e) /\ ~CommandFailed(e)
           /\ Set(e, [row EXCEPT !.pc = "command.finished",
                                 !.results = Append(row.results, row.leader)])
  <2> DEFINE new == [row EXCEPT !.pc = "command.finished",
                                !.results = Append(row.results, row.leader)]
  <2>1. /\ DOMAIN new = Fields /\ new.pc = "command.finished" /\ new.leader = row.leader
        /\ new.results = Append(row.results, row.leader) /\ new.published = row.published
    BY <1>2 DEF Fields
  <2>2. row.leader = "passed"
    BY <1>1, <1>2, <1>4 DEF ResultsSound, Waited, CommandFailed
  <2>3. Set(e, new)
    BY <1>4
  <2>4. /\ Append(row.results, "passed") \in Seq({"passed"})
        /\ Len(Append(row.results, "passed")) <= Tests
    <3>1. row.results \in Seq({"passed"}) /\ Len(row.results) < Tests
      BY <1>1, <1>2 DEF ResultsSound
    <3> HIDE DEF row
    <3>2. Len(Append(row.results, "passed")) = Len(row.results) + 1 /\ Len(row.results) \in Nat
      BY <3>1
    <3> QED BY <3>1, <3>2, RunnerConstants
  <2> HIDE DEF row, new
  <2>5. ResultsSound(new)
    BY <1>2, <2>1, <2>2, <2>4 DEF ResultsSound, Putting, Closed
  <2> QED BY <1>1, <2>1, <2>3, <2>5, EarlyStep DEF Before, row
<1>5. ASSUME NEW r \in {row, Struck(row)}, NEW why, Set(e, [r EXCEPT !.pc = "term", !.why = why])
      PROVE  RunnerInv'
  <2> DEFINE new == [r EXCEPT !.pc = "term", !.why = why]
  <2>1. /\ DOMAIN r = Fields /\ r.results = row.results /\ r.published = row.published
        /\ r.leader \in {row.leader, "failed"}
    BY <1>2 DEF Struck, Fields
  <2>2. /\ DOMAIN new = Fields /\ new.pc = "term" /\ new.results = row.results
        /\ new.published = row.published /\ new.leader \in {row.leader, "failed"} /\ Set(e, new)
    BY <1>5, <2>1 DEF Fields
  <2> HIDE DEF row, new
  <2>3. ResultsSound(new)
    BY <1>2, <2>2 DEF ResultsSound, Putting, Closed
  <2> QED BY <1>1, <2>2, <2>3, EarlyStep DEF Before, row
<1> QED BY <1>3, <1>4, <1>5 DEF Await

\* The process group is terminated, then killed.
LEMMA ReapStep ==
  ASSUME RunnerInv, NEW e \in Executions, Reap(e)
  PROVE  RunnerInv'
<1> DEFINE row == me[e]
           new == [Terminated(row) EXCEPT !.pc = "kill"]
<1>1. row.pc \in {"term", "kill"} /\ UNCHANGED <<store, evidence>>
  BY DEF Reap
<1>2. DOMAIN row = Fields /\ ResultsSound(row)
  BY <1>1, PastLoad
<1>3. CASE Exit(e, RunError(e))
  <2>1. RunError(e) \in {4, 5, 6}
    BY DEF RunError, CtxExit
  <2> QED BY <1>1, <1>3, <2>1, ExitStep DEF Closed
<1>4. CASE Set(e, new)
  <2>1. /\ DOMAIN new = Fields /\ new.pc = "kill" /\ new.results = row.results
        /\ new.published = row.published /\ new.leader \in {row.leader, "failed"} /\ Set(e, new)
    BY <1>2, <1>4 DEF Terminated, Struck, Fields
  <2> HIDE DEF row, new
  <2>2. ResultsSound(new)
    BY <1>2, <2>1 DEF ResultsSound, Putting, Closed
  <2> QED BY <1>1, <2>1, <2>2, EarlyStep DEF Before, row
<1> QED BY <1>3, <1>4 DEF Reap

\* The store is configured, or is not.
LEMMA LoadArtifactStoreStep ==
  ASSUME RunnerInv, NEW e \in Executions, LoadArtifactStore(e)
  PROVE  RunnerInv'
<1> DEFINE row == me[e]
<1>1. row.pc = "stop" /\ UNCHANGED <<store, evidence>>
  BY DEF LoadArtifactStore, At
<1>2. DOMAIN row = Fields /\ ResultsSound(row)
  BY <1>1, PastLoad
<1>3. CASE Exit(e, 7)
  BY <1>1, <1>3, ExitStep DEF Closed
<1>4. ASSUME NEW b \in Backends,
             Set(e, [row EXCEPT !.pc = "publish", !.stopped = TRUE, !.backend = b])
      PROVE  RunnerInv'
  <2> DEFINE new == [row EXCEPT !.pc = "publish", !.stopped = TRUE, !.backend = b]
  <2>1. /\ DOMAIN new = Fields /\ new.pc = "publish" /\ new.results = row.results
        /\ new.published = row.published /\ new.leader = row.leader /\ Set(e, new)
    BY <1>2, <1>4 DEF Fields
  <2> HIDE DEF row, new
  <2>2. ResultsSound(new)
    BY <1>1, <1>2, <2>1 DEF ResultsSound, Putting, Closed
  <2> QED BY <1>1, <2>1, <2>2, EarlyStep DEF Before, row
<1> QED BY <1>3, <1>4 DEF LoadArtifactStore

\* Publication takes its copy of the evidence, or has no source snapshot.
LEMMA PublishStep ==
  ASSUME RunnerInv, NEW e \in Executions, Publish(e)
  PROVE  RunnerInv'
<1> DEFINE row == me[e]
<1>1. row.pc = "publish" /\ UNCHANGED <<store, evidence>>
  BY DEF Publish, At
<1>2. Validate(e) /\ Sound(e, row, Shelf[e], evidence[e]) /\ DOMAIN row = Fields
  BY <1>1, PastLoad
<1>3. CASE Exit(e, 7)
  BY <1>1, <1>3, ExitStep DEF Closed
<1>4. ASSUME NEW v, Set(e, [row EXCEPT !.pc = "put", !.view = v, !.pos = 1, !.try = 1])
      PROVE  RunnerInv'
  <2> DEFINE new == [row EXCEPT !.pc = "put", !.view = v, !.pos = 1, !.try = 1]
  <2>1. /\ DOMAIN new = Fields /\ new.pc = "put" /\ new.pos = 1 /\ new.results = row.results
        /\ new.published = row.published /\ new.leader = row.leader /\ Set(e, new)
    BY <1>2, <1>4 DEF Fields
  <2> DEFINE shelf == Shelf[e]
             ev == evidence[e]
  <2>2. Sound(e, row, shelf, ev)
    BY <1>2
  <2> HIDE DEF row, new, shelf, ev
  <2>3. ev # "complete" /\ row.published = <<>> /\ \A i \in 1..Commit : shelf[i] = Nothing
    BY <1>1, <1>2, <2>2 DEF Sound, Before, Closed
  <2>4. Listed(shelf, 0) = <<>>
    BY DEF Listed
  <2>5. PutSound(e, new, shelf)
    BY <2>1, <2>3, <2>4, Sizes DEF PutSound
  <2>6. ResultsSound(new)
    BY <1>1, <1>2, <2>1, <2>2 DEF Sound, ResultsSound, Putting, Closed
  <2>7. Sound(e, new, shelf, ev)
    BY <1>2, <2>1, <2>2, <2>3, <2>5, <2>6 DEF Sound, ExitSound, Before, Putting, Closed
  <2> QED BY <1>1, <2>1, <2>7, QuietStep DEF shelf, ev
<1> QED BY <1>3, <1>4 DEF Publish

-----------------------------------------------------------------------------
(* Publication. *)

\* The digest that is compared is of the right bytes.
DigestSound(e, row, new) ==
    new.pc = "head" \/ (new.pc = "sent" /\ new.backend = "s3") =>
        /\ row.pos = 2 => new.digest = ReportOf(e)
        /\ row.pos = Commit => new.digest = ManifestOf(e, row)

\* An upload, or its failure: the object in hand may change, and no other.
LEMMA PutRow ==
  ASSUME NEW e, Validate(e), NEW row, NEW shelf, NEW ev, Sound(e, row, shelf, ev),
         row.pc \in Putting, DOMAIN shelf = 1..Commit,
         NEW new, DOMAIN new = Fields, new.pc \in Putting, new.results = row.results,
         new.pos = row.pos, new.published = row.published, new.last = row.last,
         new.leader = row.leader,
         DigestSound(e, row, new),
         NEW after, DOMAIN after = 1..Commit,
         \A i \in 1..Commit : i # row.pos => after[i] = shelf[i],
         row.pos = Commit => after[Commit] \in {shelf[Commit], Foreign, ManifestOf(e, row)}
  PROVE  Sound(e, new, after, ev)
<1>1. /\ PutSound(e, row, shelf) /\ ResultsSound(row) /\ ShelfSound(e, shelf) /\ ev # "complete"
  BY DEF Sound, Putting, Closed
<1>2. ResultsSound(new)
  BY <1>1 DEF ResultsSound, Putting
<1>3. row.pos \in 1..6 /\ Commit = 6
  BY <1>1, Sizes DEF PutSound
<1>4. ManifestOf(e, new) = ManifestOf(e, row)
  BY DEF ManifestOf
<1>5. Listed(after, row.pos - 1) = Listed(shelf, row.pos - 1)
  <2>1. \A i \in 1..(row.pos - 1) : after[i] = shelf[i]
    BY <1>3
  <2> QED BY <2>1 DEF Listed
<1>6. new.pc # "evidence"
  BY DEF Putting
<1>7. row.pos > 2 => after[2] = ReportOf(e)
  BY <1>1, <1>3 DEF PutSound
<1>8. row.pos = Commit => after[Commit] \in {Nothing, Foreign, ManifestOf(e, row)}
  BY <1>1 DEF PutSound
<1>9. \A i \in 1..Commit : i > row.pos => after[i] = Nothing
  BY <1>1, <1>3 DEF PutSound
<1>10. row.published = Listed(after, row.pos - 1)
  BY <1>1, <1>5 DEF PutSound
<1>11. PutSound(e, new, after)
  BY <1>1, <1>3, <1>4, <1>6, <1>7, <1>8, <1>9, <1>10 DEF PutSound, DigestSound
<1>12. ShelfSound(e, after)
  <2>1. CASE row.pos # Commit
    <3>1. after[Commit] = Nothing
      BY <1>3, <1>9, <2>1
    <3> QED BY <3>1 DEF ShelfSound, Nothing
  <2>2. CASE row.pos = Commit
    <3>1. CASE after[Commit] \in {Nothing, Foreign}
      BY <3>1 DEF ShelfSound, Nothing, Foreign
    <3>2. CASE after[Commit] = ManifestOf(e, row)
      BY <1>3, <1>7, <1>10, <2>2, <3>2, Sizes DEF ShelfSound, ManifestOf
    <3> QED BY <1>8, <2>2, <3>1, <3>2
  <2> QED BY <2>1, <2>2
<1> QED BY <1>1, <1>2, <1>11, <1>12 DEF Sound, ExitSound, Before, Putting, Closed

\* What is uploaded as the report, and as the manifest.
LEMMA ContentsOf ==
  ASSUME RunnerInv, NEW e \in Executions, me[e].pc \in Putting
  PROVE  /\ Validate(e) /\ Sound(e, me[e], Shelf[e], evidence[e]) /\ DOMAIN me[e] = Fields
         /\ me[e].pos \in 1..Commit
         /\ me[e].pos = 2 => Contents(e) = ReportOf(e)
         /\ me[e].pos = Commit => Contents(e) = ManifestOf(e, me[e])
<1>1. /\ Validate(e) /\ Sound(e, me[e], Shelf[e], evidence[e]) /\ DOMAIN me[e] = Fields
      /\ ResultsSound(me[e])
  BY PastLoad DEF Putting
<1>2. me[e].pos \in 1..Commit /\ me[e].results = AllPassed
  BY <1>1 DEF Sound, PutSound, ResultsSound, Putting
<1>3. ASSUME me[e].pos = 2 PROVE Contents(e) = ReportOf(e)
  <2>1. Objects[2] = "report" /\ Commit # 2
    BY Sizes DEF Objects
  <2> QED BY <1>2, <1>3, <2>1 DEF Contents, ReportOf
<1>4. ASSUME me[e].pos = Commit PROVE Contents(e) = ManifestOf(e, me[e])
  BY <1>4 DEF Contents, Manifest, ManifestOf
<1> QED BY <1>1, <1>2, <1>3, <1>4

\* A write changes the object in hand.
LEMMA WriteShelf ==
  ASSUME RunnerInv, NEW e \in Executions, me[e].pos \in 1..Commit, NEW c, Write(e, c)
  PROVE  /\ DOMAIN Shelf'[e] = 1..Commit /\ Shelf'[e][me[e].pos] = c
         /\ \A i \in 1..Commit : i # me[e].pos => Shelf'[e][i] = Shelf[e][i]
<1>1. \A i \in 1..Commit : Key(e, i) \in Keys /\ (i # me[e].pos => Key(e, i) # Here(e))
  BY DEF Key, Keys, Here
<1>2. Here(e) = Key(e, me[e].pos)
  BY DEF Here
<1>3. /\ store'[Key(e, me[e].pos)] = c
      /\ \A i \in 1..Commit : i # me[e].pos => store'[Key(e, i)] = store[Key(e, i)]
  BY <1>1, <1>2 DEF RunnerInv, Write
<1> QED BY <1>3 DEF Shelf

\* A step of putVerified that stays with the object in hand.
LEMMA PutStep ==
  ASSUME RunnerInv, NEW e \in Executions, me[e].pc \in Putting, UNCHANGED evidence,
         UNCHANGED store \/ Write(e, Contents(e)) \/ Write(e, Foreign),
         NEW new, Set(e, new), DOMAIN new = Fields, new.pc \in Putting,
         new.results = me[e].results, new.pos = me[e].pos, new.published = me[e].published,
         new.last = me[e].last, new.leader = me[e].leader,
         new.pc = "head" \/ (new.pc = "sent" /\ new.backend = "s3") =>
             \/ new.digest = Contents(e)
             \/ /\ new.digest = me[e].digest /\ new.backend = me[e].backend
                /\ me[e].pc = "head" \/ (me[e].pc = "sent" /\ me[e].backend = "s3")
  PROVE  RunnerInv'
<1> DEFINE row == me[e]
           shelf == Shelf[e]
           after == Shelf'[e]
           ev == evidence[e]
<1>1. /\ Validate(e) /\ Sound(e, row, shelf, ev) /\ row.pos \in 1..Commit
      /\ row.pos = 2 => Contents(e) = ReportOf(e)
      /\ row.pos = Commit => Contents(e) = ManifestOf(e, row)
  BY ContentsOf
<1>2. DOMAIN shelf = 1..Commit
  BY DEF Shelf
<1>3. PutSound(e, row, shelf)
  BY <1>1 DEF Sound
<1>4. DigestSound(e, row, new)
  BY <1>1, <1>3 DEF PutSound, DigestSound
<1>5. /\ DOMAIN after = 1..Commit
      /\ \A i \in 1..Commit : i # row.pos => after[i] = shelf[i]
      /\ row.pos = Commit => after[Commit] \in {shelf[Commit], Foreign, ManifestOf(e, row)}
  <2>1. CASE UNCHANGED store
    <3>1. Shelf' = Shelf
      BY <2>1 DEF Shelf
    <3> QED BY <1>2, <3>1
  <2>2. CASE Write(e, Contents(e))
    <3> DEFINE c == Contents(e)
    <3>1. Write(e, c) /\ (row.pos = Commit => c = ManifestOf(e, row))
      BY <1>1, <2>2
    <3> HIDE DEF c
    <3>2. /\ DOMAIN after = 1..Commit /\ after[row.pos] = c
          /\ \A i \in 1..Commit : i # row.pos => after[i] = shelf[i]
      BY <1>1, <3>1, WriteShelf
    <3> QED BY <3>1, <3>2
  <2>3. CASE Write(e, Foreign)
    <3>1. /\ DOMAIN after = 1..Commit /\ after[row.pos] = Foreign
          /\ \A i \in 1..Commit : i # row.pos => after[i] = shelf[i]
      BY <1>1, <2>3, WriteShelf
    <3> QED BY <3>1
  <2> QED BY <2>1, <2>2, <2>3
<1>6. Sound(e, new, after, ev)
  <2>1. row.pc \in Putting /\ new.results = row.results /\ new.pos = row.pos
        /\ new.published = row.published /\ new.last = row.last /\ new.leader = row.leader
        /\ DOMAIN new = Fields /\ new.pc \in Putting
    OBVIOUS
  <2> HIDE DEF row, shelf, after, ev
  <2> QED BY <1>1, <1>2, <1>4, <1>5, <2>1, PutRow
<1>7. \/ UNCHANGED store
      \/ Validate(e) /\ \E i \in 1..Commit : \E c : store' = [store EXCEPT ![Key(e, i)] = c]
  BY <1>1 DEF Write, Here
<1>8. /\ DOMAIN evidence' = Executions /\ evidence'[e] = ev
      /\ \A d \in Executions \ {e} : evidence'[d] = evidence[d]
  BY DEF RunnerInv
<1> HIDE DEF ev
<1> QED BY <1>6, <1>7, <1>8, LocalStep

\* A failed attempt waits, or ends the process: whatever the store has by then.
LEMMA FailedStep ==
  ASSUME RunnerInv, NEW e \in Executions, me[e].pc \in Putting, UNCHANGED evidence,
         UNCHANGED store \/ Write(e, Contents(e)), Failed(e)
  PROVE  RunnerInv'
<1> DEFINE row == me[e]
           shelf == Shelf[e]
           after == Shelf'[e]
           ev == evidence[e]
<1>1. /\ Validate(e) /\ Sound(e, row, shelf, ev) /\ row.pos \in 1..Commit /\ DOMAIN row = Fields
      /\ row.pos = 2 => Contents(e) = ReportOf(e)
      /\ row.pos = Commit => Contents(e) = ManifestOf(e, row)
  BY ContentsOf
<1>2. CASE Goto(e, "backoff")
  <2> DEFINE new == [row EXCEPT !.pc = "backoff"]
  <2>1. /\ DOMAIN new = Fields /\ new.pc = "backoff" /\ new.results = row.results
        /\ new.pos = row.pos /\ new.published = row.published /\ new.last = row.last
        /\ new.leader = row.leader /\ Set(e, new)
    BY <1>1, <1>2 DEF Fields, Goto
  <2> HIDE DEF new
  <2> QED BY <2>1, PutStep DEF Putting
<1>3. ASSUME NEW code \in {6, 7}, Exit(e, code) PROVE RunnerInv'
  <2> DEFINE new == [row EXCEPT !.pc = "backoff"]
  <2>1. /\ DOMAIN new = Fields /\ new.pc = "backoff" /\ new.results = row.results
        /\ new.pos = row.pos /\ new.published = row.published /\ new.last = row.last
        /\ new.leader = row.leader /\ row.pc \in Putting
    BY <1>1 DEF Fields
  <2>2. DOMAIN shelf = 1..Commit
    BY DEF Shelf
  <2>3. /\ DOMAIN after = 1..Commit
        /\ \A i \in 1..Commit : i # row.pos => after[i] = shelf[i]
        /\ row.pos = Commit => after[Commit] \in {shelf[Commit], Foreign, ManifestOf(e, row)}
    <3>1. CASE UNCHANGED store
      <4>1. Shelf' = Shelf
        BY <3>1 DEF Shelf
      <4> QED BY <2>2, <4>1
    <3>2. CASE Write(e, Contents(e))
      <4> DEFINE c == Contents(e)
      <4>1. Write(e, c) /\ (row.pos = Commit => c = ManifestOf(e, row))
        BY <1>1, <3>2
      <4> HIDE DEF c
      <4>2. /\ DOMAIN after = 1..Commit /\ after[row.pos] = c
            /\ \A i \in 1..Commit : i # row.pos => after[i] = shelf[i]
        BY <1>1, <4>1, WriteShelf
      <4> QED BY <4>1, <4>2
    <3> QED BY <3>1, <3>2
  <2>4. Sound(e, new, after, ev)
    <3> HIDE DEF row, shelf, after, ev, new
    <3>1. new.pc \in Putting /\ DigestSound(e, row, new)
      BY <2>1 DEF Putting, DigestSound
    <3> QED BY <1>1, <2>1, <2>2, <2>3, <3>1, PutRow
  <2>5. ev # "complete"
    BY <1>1 DEF Sound, Putting, Closed
  <2>6. Sound(e, [Process EXCEPT !.pc = "exited", !.exit = code], after, ev)
    <3> HIDE DEF row, shelf, after, ev, new
    <3>1. (code = 0 => ev = "complete") /\ (code \in 2..8 => ev # "complete")
      BY <2>5
    <3> QED BY <2>4, <3>1, ExitedRow
  <2>7. \/ UNCHANGED store
        \/ Validate(e) /\ \E i \in 1..Commit : \E c : store' = [store EXCEPT ![Key(e, i)] = c]
    BY <1>1 DEF Write, Here
  <2>8. /\ DOMAIN evidence' = Executions /\ evidence'[e] = ev
        /\ \A d \in Executions \ {e} : evidence'[d] = evidence[d]
    BY DEF RunnerInv
  <2>9. Set(e, [Process EXCEPT !.pc = "exited", !.exit = code])
    BY <1>3 DEF Exit
  <2> HIDE DEF ev
  <2> QED BY <2>6, <2>7, <2>8, <2>9, LocalStep
<1> QED BY <1>2, <1>3 DEF Failed

\* The row after a step of putVerified that stays with the object in hand.
LEMMA SameObject ==
  ASSUME RunnerInv, NEW e \in Executions, me[e].pc \in Putting, UNCHANGED evidence,
         UNCHANGED store \/ Write(e, Contents(e)) \/ Write(e, Foreign), NEW pc \in Putting,
         \/ /\ Goto(e, pc)
            /\ pc = "sent" => me[e].backend = "filesystem"
            /\ pc = "head" => me[e].pc = "sent" /\ me[e].backend = "s3"
         \/ Digest(e, pc)
         \/ \E try : pc = "put" /\ Set(e, [me[e] EXCEPT !.pc = pc, !.try = try])
  PROVE  RunnerInv'
<1> DEFINE row == me[e]
<1>1. DOMAIN row = Fields
  BY ContentsOf
<1>2. CASE /\ Goto(e, pc)
           /\ pc = "sent" => me[e].backend = "filesystem"
           /\ pc = "head" => me[e].pc = "sent" /\ me[e].backend = "s3"
  <2> DEFINE new == [row EXCEPT !.pc = pc]
  <2>1. /\ DOMAIN new = Fields /\ new.pc = pc /\ new.results = row.results
        /\ new.pos = row.pos /\ new.published = row.published /\ new.last = row.last
        /\ new.leader = row.leader /\ new.digest = row.digest /\ new.backend = row.backend
    BY <1>1 DEF Fields
  <2>2. Set(e, new)
    BY <1>2 DEF Goto
  <2> HIDE DEF new
  <2>3. new.pc = "head" \/ (new.pc = "sent" /\ new.backend = "s3") =>
          /\ new.digest = me[e].digest /\ new.backend = me[e].backend
          /\ me[e].pc = "head" \/ (me[e].pc = "sent" /\ me[e].backend = "s3")
    BY <1>2, <2>1
  <2> QED BY <2>1, <2>2, <2>3, PutStep
<1>3. CASE Digest(e, pc)
  <2> DEFINE new == [row EXCEPT !.pc = pc, !.digest = Contents(e)]
  <2>1. /\ DOMAIN new = Fields /\ new.pc = pc /\ new.results = row.results
        /\ new.pos = row.pos /\ new.published = row.published /\ new.last = row.last
        /\ new.leader = row.leader /\ new.digest = Contents(e)
    BY <1>1 DEF Fields
  <2>2. Set(e, new)
    BY <1>3 DEF Digest
  <2> HIDE DEF new
  <2> QED BY <2>1, <2>2, PutStep
<1>4. ASSUME NEW try, pc = "put", Set(e, [row EXCEPT !.pc = pc, !.try = try])
      PROVE  RunnerInv'
  <2> DEFINE new == [row EXCEPT !.pc = pc, !.try = try]
  <2>1. /\ DOMAIN new = Fields /\ new.pc = pc /\ new.results = row.results
        /\ new.pos = row.pos /\ new.published = row.published /\ new.last = row.last
        /\ new.leader = row.leader
    BY <1>1 DEF Fields
  <2>2. Set(e, new)
    BY <1>4
  <2> HIDE DEF new
  <2> QED BY <1>4, <2>1, <2>2, PutStep
<1> QED BY <1>2, <1>3, <1>4

\* A put to the file store.
LEMMA FilePutStep ==
  ASSUME RunnerInv, NEW e \in Executions, FilePut(e)
  PROVE  RunnerInv'
<1>1. UNCHANGED evidence /\ me[e].backend = "filesystem" /\ me[e].pc \in Putting
  BY DEF FilePut, At, Putting
<1>2. CASE Write(e, Contents(e)) /\ Goto(e, "sent")
  BY <1>1, <1>2, SameObject DEF Putting
<1>3. CASE Failed(e) /\ UNCHANGED store
  BY <1>1, <1>3, FailedStep
<1>4. CASE Digest(e, "head") /\ UNCHANGED store
  BY <1>1, <1>4, SameObject DEF Putting
<1> QED BY <1>2, <1>3, <1>4 DEF FilePut

\* A put to the object store.
LEMMA ObjectPutStep ==
  ASSUME RunnerInv, NEW e \in Executions, ObjectPut(e)
  PROVE  RunnerInv'
<1>1. UNCHANGED evidence /\ me[e].backend = "s3" /\ me[e].pc \in Putting
  BY DEF ObjectPut, At, Putting
<1>2. CASE Digest(e, "sent") /\ UNCHANGED store
  BY <1>1, <1>2, SameObject DEF Putting
<1>3. CASE At(e, "sent") /\ (Write(e, Contents(e)) \/ Write(e, Foreign)) /\ Goto(e, "head")
  BY <1>1, <1>3, SameObject DEF Putting, At
<1>4. CASE Failed(e) /\ (Write(e, Contents(e)) \/ UNCHANGED store)
  BY <1>1, <1>4, FailedStep
<1> QED BY <1>2, <1>3, <1>4 DEF ObjectPut

\* What was just verified joins the list of the manifest.
LEMMA ListedGrows ==
  ASSUME NEW shelf, NEW n \in Nat, n > 0
  PROVE  Append(Listed(shelf, n - 1), shelf[n]) = Listed(shelf, n)
<1> DEFINE short == Listed(shelf, n - 1)
           long == Append(short, shelf[n])
           All == {shelf[i] : i \in 1..n}
<1>1. short \in Seq(All) /\ Len(short) = n - 1 /\ \A i \in 1..(n - 1) : short[i] = shelf[i]
  BY DEF Listed
<1> HIDE DEF short
<1>2. /\ long \in Seq(All) /\ Len(long) = n
      /\ \A i \in 1..(n - 1) : long[i] = short[i]
      /\ long[n] = shelf[n]
  <2> shelf[n] \in All
    OBVIOUS
  <2> HIDE DEF All
  <2> QED BY <1>1, AppendProperties
<1> HIDE DEF long
<1>3. DOMAIN long = 1..n /\ \A i \in 1..n : long[i] = shelf[i]
  <2>1. DOMAIN long = 1..n
    BY <1>2
  <2>2. ASSUME NEW i \in 1..n PROVE long[i] = shelf[i]
    <3>1. i = n \/ i \in 1..(n - 1)
      OBVIOUS
    <3> QED BY <1>1, <1>2, <3>1
  <2> QED BY <2>1, <2>2
<1>4. long = [i \in 1..n |-> shelf[i]]
  <2>1. long = [i \in DOMAIN long |-> long[i]]
    BY <1>2
  <2> QED BY <1>3, <2>1
<1> QED BY <1>4 DEF Listed, long, short

\* The object found in the store is compared.
LEMMA HeadObjectStep ==
  ASSUME RunnerInv, NEW e \in Executions, HeadObject(e)
  PROVE  RunnerInv'
<1> DEFINE row == me[e]
           shelf == Shelf[e]
           ev == evidence[e]
<1>1. row.pc = "head" /\ row.pc \in Putting /\ UNCHANGED <<store, evidence>>
  BY DEF HeadObject, At, Putting
<1>2. /\ Validate(e) /\ Sound(e, row, shelf, ev) /\ DOMAIN row = Fields /\ row.pos \in 1..Commit
  BY <1>1, ContentsOf
<1>3. CASE Failed(e)
  BY <1>1, <1>3, FailedStep
<1>4. CASE Matches(e) /\ Verified(e)
  <2>1. shelf[row.pos] = row.digest
    BY <1>2, <1>4 DEF Matches, Here, Shelf
  <2>2. /\ PutSound(e, row, shelf) /\ ResultsSound(row) /\ ShelfSound(e, shelf)
        /\ ev # "complete" /\ row.results = AllPassed
    BY <1>1, <1>2 DEF Sound, ResultsSound, Putting, Closed
  <2>3. CASE row.pos = Commit
    <3> DEFINE new == [row EXCEPT !.pc = "evidence"]
    <3>1. /\ DOMAIN new = Fields /\ new.pc = "evidence" /\ new.results = row.results
          /\ new.pos = row.pos /\ new.published = row.published /\ new.last = row.last
          /\ new.leader = row.leader /\ Set(e, new)
      BY <1>2, <1>4, <2>3 DEF Fields, Verified, Goto
    <3> HIDE DEF new, row, shelf, ev
    <3>2. shelf[Commit] = ManifestOf(e, row) /\ ManifestOf(e, new) = ManifestOf(e, row)
      BY <1>1, <2>1, <2>2, <2>3, <3>1 DEF PutSound, ManifestOf
    <3>3. PutSound(e, new, shelf)
      BY <2>2, <2>3, <3>1, <3>2 DEF PutSound
    <3>4. ResultsSound(new)
      BY <2>2, <3>1 DEF ResultsSound, Putting, Closed
    <3>5. Sound(e, new, shelf, ev)
      BY <1>2, <2>2, <3>1, <3>3, <3>4 DEF Sound, ExitSound, Before, Putting, Closed
    <3> QED BY <1>1, <3>1, <3>5, QuietStep DEF shelf, ev
  <2>4. CASE row.pos # Commit
    <3> DEFINE new == [row EXCEPT !.pc = "put", !.pos = row.pos + 1, !.try = 1,
                                  !.published = Append(row.published, row.digest),
                                  !.last = trajectorySequence(row.view)]
    <3>1. /\ DOMAIN new = Fields /\ new.pc = "put" /\ new.results = row.results
          /\ new.pos = row.pos + 1 /\ new.published = Append(row.published, row.digest)
          /\ new.leader = row.leader /\ Set(e, new)
      BY <1>2, <1>4, <2>4 DEF Fields, Verified
    <3> HIDE DEF new, row, shelf, ev
    <3>2. row.pos \in 1..5 /\ Commit = 6
      BY <1>2, <2>4, Sizes
    <3>3. new.published = Listed(shelf, new.pos - 1)
      <4>1. Append(Listed(shelf, row.pos - 1), shelf[row.pos]) = Listed(shelf, row.pos)
        <5>1. row.pos \in Nat /\ row.pos > 0
          BY <3>2
        <5> QED BY <5>1, ListedGrows
      <4>2. row.published = Listed(shelf, row.pos - 1)
        BY <2>2 DEF PutSound
      <4>3. new.pos - 1 = row.pos
        BY <3>1, <3>2
      <4> QED BY <2>1, <3>1, <4>1, <4>2, <4>3
    <3>4. row.pos >= 2 => shelf[2] = ReportOf(e)
      BY <1>1, <2>1, <2>2, <3>2 DEF PutSound
    <3>5. \A i \in 1..Commit : i > row.pos => shelf[i] = Nothing
      BY <2>2 DEF PutSound
    <3>6. PutSound(e, new, shelf)
      BY <3>1, <3>2, <3>3, <3>4, <3>5 DEF PutSound
    <3>7. ResultsSound(new)
      BY <2>2, <3>1 DEF ResultsSound, Putting, Closed
    <3>8. Sound(e, new, shelf, ev)
      BY <1>2, <2>2, <3>1, <3>6, <3>7 DEF Sound, ExitSound, Before, Putting, Closed
    <3> QED BY <1>1, <3>1, <3>8, QuietStep DEF shelf, ev
  <2> QED BY <2>3, <2>4
<1> QED BY <1>3, <1>4 DEF HeadObject

\* A put is tried again, or given up.
LEMMA BackoffStep ==
  ASSUME RunnerInv, NEW e \in Executions, Backoff(e)
  PROVE  RunnerInv'
<1>1. me[e].pc = "backoff" /\ me[e].pc \in Putting /\ UNCHANGED <<store, evidence>>
  BY DEF Backoff, At, Putting
<1>2. CASE Exit(e, 6) \/ Exit(e, 7)
  BY <1>1, <1>2, ExitStep DEF Closed
<1>3. CASE Set(e, [me[e] EXCEPT !.pc = "put", !.try = me[e].try + 1])
  <2>1. \E try : Set(e, [me[e] EXCEPT !.pc = "put", !.try = try])
    BY <1>3
  <2> QED BY <1>1, <2>1, SameObject DEF Putting
<1> QED BY <1>2, <1>3 DEF Backoff

\* Evidence is written over a manifest that is there.
LEMMA EvidenceStep ==
  ASSUME RunnerInv, NEW e \in Executions, writeTerminationEvidence(e)
  PROVE  RunnerInv'
<1> DEFINE row == me[e]
           shelf == Shelf[e]
           ev == evidence[e]
<1>1. row.pc = "evidence" /\ UNCHANGED store /\ Shelf' = Shelf
  BY DEF writeTerminationEvidence, At, Shelf
<1>2. /\ Validate(e) /\ Sound(e, row, shelf, ev) /\ DOMAIN row = Fields /\ ResultsSound(row)
  BY <1>1, PastLoad
<1>3. ASSUME NEW left, evidence' = [evidence EXCEPT ![e] = left]
      PROVE  /\ DOMAIN evidence' = Executions /\ evidence'[e] = left
             /\ \A d \in Executions \ {e} : evidence'[d] = evidence[d]
  BY <1>3 DEF RunnerInv
<1>4. CASE evidence' = [evidence EXCEPT ![e] = "complete"] /\ Goto(e, "run.succeeded")
  <2> DEFINE new == [row EXCEPT !.pc = "run.succeeded"]
  <2>1. /\ DOMAIN new = Fields /\ new.pc = "run.succeeded" /\ new.results = row.results
        /\ new.leader = row.leader /\ Set(e, new)
    BY <1>2, <1>4 DEF Fields, Goto
  <2>2. /\ DOMAIN evidence' = Executions /\ evidence'[e] = "complete"
        /\ \A d \in Executions \ {e} : evidence'[d] = evidence[d]
    BY <1>3, <1>4
  <2>3. Sound(e, new, shelf, "complete")
    <3> HIDE DEF row, new, shelf, ev
    <3>1. ResultsSound(new)
      BY <1>1, <1>2, <2>1 DEF ResultsSound, Putting, Closed
    <3>2. shelf[Commit].of = e
      BY <1>1, <1>2 DEF Sound, PutSound, ManifestOf
    <3> QED BY <1>2, <2>1, <3>1, <3>2 DEF Sound, ExitSound, Before, Putting, Closed
  <2>4. Sound(e, new, Shelf'[e], "complete")
    BY <1>1, <2>3
  <2> HIDE DEF new
  <2> QED BY <1>1, <2>1, <2>2, <2>4, LocalStep
<1>5. ASSUME NEW left \in {"none", "partial"}, evidence' = [evidence EXCEPT ![e] = left],
             Exit(e, 7)
      PROVE  RunnerInv'
  <2>1. /\ DOMAIN evidence' = Executions /\ evidence'[e] = left
        /\ \A d \in Executions \ {e} : evidence'[d] = evidence[d]
    BY <1>3, <1>5
  <2>2. Sound(e, [Process EXCEPT !.pc = "exited", !.exit = 7], shelf, left)
    <3>1. left # "complete"
      BY <1>5
    <3> DEFINE code == 7
    <3>2. (code = 0 => left = "complete") /\ (code \in 2..8 => left # "complete")
      BY <3>1
    <3> HIDE DEF row, shelf, ev, code
    <3>3. Sound(e, [Process EXCEPT !.pc = "exited", !.exit = code], shelf, left)
      BY <1>2, <3>1, <3>2, ExitedRow
    <3> QED BY <3>3 DEF code
  <2>3. Sound(e, [Process EXCEPT !.pc = "exited", !.exit = 7], Shelf'[e], left)
    BY <1>1, <2>2
  <2>4. Set(e, [Process EXCEPT !.pc = "exited", !.exit = 7])
    BY <1>5 DEF Exit
  <2> QED BY <1>1, <2>1, <2>3, <2>4, LocalStep
<1> QED BY <1>4, <1>5 DEF writeTerminationEvidence

\* A runner ends.
LEMMA EndStep ==
  ASSUME RunnerInv, NEW e \in Executions, Return(e) \/ Kill(e)
  PROVE  RunnerInv'
BY ExitStep DEF Return, Kill, At, Closed

-----------------------------------------------------------------------------
\* The invariant holds at first.
LEMMA InitSound == Init => RunnerInv
<1> SUFFICES ASSUME Init PROVE RunnerInv
  OBVIOUS
<1>1. /\ DOMAIN Process = Fields /\ Process.pc = "new" /\ Process.results = <<>>
      /\ Process.published = <<>> /\ Process.leader = "none"
  BY DEF Process, Fields
<1>2. \A e \in Executions, i \in 1..Commit : store[Key(e, i)] = Nothing
  BY DEF Init, Keys
<1>3. ResultsSound(Process)
  <2>1. <<>> \in Seq({"passed"}) /\ Len(<<>>) <= Tests
    BY RunnerConstants
  <2> QED BY <1>1, <2>1 DEF ResultsSound, Putting, Closed
<1>4. ASSUME NEW e \in Executions PROVE Sound(e, me[e], Shelf[e], evidence[e])
  <2>1. me[e] = Process /\ evidence[e] = "none"
    BY DEF Init
  <2>2. \A i \in 1..Commit : Shelf[e][i] = Nothing
    BY <1>2 DEF Shelf
  <2> DEFINE shelf == Shelf[e]
  <2>3. \A i \in 1..Commit : shelf[i] = Nothing
    BY <2>2
  <2> HIDE DEF shelf
  <2>4. ShelfSound(e, shelf)
    BY <2>3, Sizes DEF ShelfSound, Nothing
  <2>5. Sound(e, Process, shelf, "none")
    BY <1>1, <1>3, <2>3, <2>4 DEF Sound, ExitSound, Before, Putting, Closed
  <2> QED BY <2>1, <2>5 DEF shelf
<1>5. Owned
  BY <1>2 DEF Owned
<1> QED BY <1>4, <1>5 DEF RunnerInv, Init

\* Every step keeps the invariant.
LEMMA NextSound == RunnerInv /\ [Next]_vars => RunnerInv'
<1> SUFFICES ASSUME RunnerInv, [Next]_vars PROVE RunnerInv'
  OBVIOUS
<1>1. CASE UNCHANGED vars
  <2>1. me' = me /\ evidence' = evidence /\ store' = store
    BY <1>1 DEF vars
  <2>2. Shelf' = Shelf /\ (Owned' <=> Owned)
    BY <2>1 DEF Shelf, Owned
  <2> QED BY <2>1, <2>2 DEF RunnerInv
<1>2. ASSUME NEW e \in Executions,
             \/ StartProcess(e) \/ Main(e)
             \/ StartBeat(e) \/ FinishBeat(e) \/ StopBeats(e) \/ Work(e)
             \/ SIGTERM(e) \/ Deadline(e) \/ Kill(e)
      PROVE  RunnerInv'
  <2>1. CASE StartProcess(e)
    BY <2>1, StartProcessStep
  <2>2. CASE Load(e)
    BY <2>2, LoadStep
  <2>3. CASE Emit(e)
    BY <2>3, EmitStep
  <2>4. CASE WriteTemplate(e) \/ StatTemplate(e) \/ StartCommand(e)
    BY <2>4, PrepareStep
  <2>5. CASE Await(e) \/ Reap(e)
    BY <2>5, AwaitStep, ReapStep
  <2>6. CASE LoadArtifactStore(e) \/ Publish(e)
    BY <2>6, LoadArtifactStoreStep, PublishStep
  <2>7. CASE FilePut(e) \/ ObjectPut(e)
    BY <2>7, FilePutStep, ObjectPutStep
  <2>8. CASE HeadObject(e) \/ Backoff(e)
    BY <2>8, HeadObjectStep, BackoffStep
  <2>9. CASE writeTerminationEvidence(e)
    BY <2>9, EvidenceStep
  <2>10. CASE Return(e) \/ Kill(e)
    BY <2>10, EndStep
  <2>11. CASE \/ StartBeat(e) \/ FinishBeat(e) \/ StopBeats(e) \/ Work(e)
              \/ SIGTERM(e) \/ Deadline(e)
    BY <2>11, BackgroundStep
  <2> QED BY <1>2, <2>1, <2>2, <2>3, <2>4, <2>5, <2>6, <2>7, <2>8, <2>9, <2>10, <2>11 DEF Main
<1> QED BY <1>1, <1>2 DEF Next

\* The inductive invariant: how far the main goroutine of each execution has
\* come determines what it has in the store and in its termination log.
THEOREM RunnerInvariant == Spec => []RunnerInv
BY InitSound, NextSound, PTL DEF Spec

-----------------------------------------------------------------------------
\* publishArtifacts commits with the manifest: what is under the key of a
\* manifest lists exactly what is under the keys beside it, for any number of
\* executions, also of those that bear one number.
THEOREM ManifestIsAlwaysLast == Spec => []ManifestIsLast
<1>1. RunnerInv => ManifestIsLast
  <2> SUFFICES ASSUME RunnerInv, NEW e \in Executions,
                      store[Key(e, Commit)].of \notin {None, Other}
               PROVE  /\ Len(store[Key(e, Commit)].artifacts) = Len(Objects)
                      /\ \A i \in 1..Len(Objects) :
                           store[Key(e, i)] = store[Key(e, Commit)].artifacts[i]
    BY DEF ManifestIsLast
  <2>1. Commit \in 1..Commit /\ store[Key(e, Commit)] # Nothing
    BY Sizes DEF Nothing
  <2>2. PICK f \in Executions : Validate(f) /\ f.attempt = e.attempt
    BY <2>1 DEF RunnerInv, Owned
  <2>3. \A i \in 1..Commit : Shelf[f][i] = store[Key(e, i)]
    BY <2>2 DEF Shelf, Key
  <2>4. ShelfSound(f, Shelf[f])
    BY <2>2 DEF RunnerInv, Sound
  <2>5. Shelf[f][Commit].artifacts = [i \in 1..Len(Objects) |-> Shelf[f][i]]
    BY <2>1, <2>3, <2>4 DEF ShelfSound, Listed
  <2>6. store[Key(e, Commit)].artifacts = [i \in 1..5 |-> Shelf[f][i]]
    BY <2>1, <2>3, <2>5, Sizes
  <2>7. \A i \in 1..5 : Shelf[f][i] = store[Key(e, i)]
    BY <2>3, Sizes
  <2> HIDE DEF Objects
  <2>8. Len([i \in 1..5 |-> Shelf[f][i]]) = 5
    OBVIOUS
  <2> QED BY <2>6, <2>7, <2>8, Sizes
<1> QED BY <1>1, RunnerInvariant, PTL

\* writeTerminationEvidence comes after the manifest of the same attempt id,
\* and no other execution ever replaces that manifest.
THEOREM EvidenceIsAlwaysDurable == Spec => []EvidenceIsDurable
<1>1. RunnerInv => EvidenceIsDurable
  <2> SUFFICES ASSUME RunnerInv, NEW e \in Executions, evidence[e] = "complete"
               PROVE  store[Key(e, Commit)].of = e
    BY DEF EvidenceIsDurable
  <2>1. Shelf[e][Commit] = store[Key(e, Commit)]
    BY Sizes DEF Shelf
  <2>2. Shelf[e][Commit].of = e
    BY DEF RunnerInv, Sound
  <2> QED BY <2>1, <2>2
<1> QED BY <1>1, RunnerInvariant, PTL

\* The exit code of Run and the termination log never contradict each other.
THEOREM ExitAlwaysMatchesEvidence == Spec => []ExitMatchesEvidence
<1>1. RunnerInv => ExitMatchesEvidence
  BY DEF RunnerInv, Sound, ExitSound, ExitMatchesEvidence, At
<1> QED BY <1>1, RunnerInvariant, PTL

\* An execution with evidence has published a report in which every command
\* of the task passed.
THEOREM EvidenceIsAlwaysEarned == Spec => []EvidenceIsEarned
<1>1. RunnerInv => EvidenceIsEarned
  <2> SUFFICES ASSUME RunnerInv, NEW e \in Executions, evidence[e] = "complete"
               PROVE  store[Key(e, 2)].results = [i \in 1..Tests |-> "passed"]
    BY DEF EvidenceIsEarned
  <2>1. Shelf[e][2] = store[Key(e, 2)]
    BY Sizes DEF Shelf
  <2>2. Shelf[e][Commit].of = e /\ ShelfSound(e, Shelf[e])
    BY DEF RunnerInv, Sound
  <2>3. e \notin {None, Other}
    BY RunnerConstants
  <2>4. Shelf[e][2] = ReportOf(e)
    BY <2>2, <2>3 DEF ShelfSound
  <2> QED BY <2>1, <2>4 DEF ReportOf, AllPassed
<1> QED BY <1>1, RunnerInvariant, PTL
=============================================================================
