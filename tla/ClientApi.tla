----------------------------- MODULE ClientApi -----------------------------
(***************************************************************************)
(* What clients of the platform API see: runs created under an idempotency *)
(* key, the history of a project read page by page, and artifacts that are *)
(* deleted.  Several replicas serve requests at once; every transaction    *)
(* and every call of the artifact store is one step, and a request may be  *)
(* abandoned between any two of them: a crash, the request timeout or a    *)
(* lost answer, which are the same to a client.                            *)
(*                                                                         *)
(* One tenant and one project.  What becomes of a run after it was created *)
(* is RunQueue's; here it only changes.                                    *)
(***************************************************************************)
EXTENDS Naturals, FiniteSets

CONSTANTS
    Clients,
    Administrators,     \* clients with the role project-administrator
    Keys, TrimSpace,    \* idempotency keys, and each without surrounding space
    Bodies,             \* requests for a run that are within the rules
    Ids,                \* run ids in the order of the uuid type
    Times,              \* readings of the replicas' clocks
    History,            \* rows of the runs that were created earlier
    Limits,             \* page sizes a client may ask for
    DefaultLimit, MaximumLimit,
    Artifacts, Archived,\* artifacts; those of retention class ARCHIVE
    Stores,             \* the configured store: "s3", "filesystem" or "none"
    MaxFaults,          \* bound: errors of the database and of the store
    None

ASSUME ClientApiConstants ==
    /\ Administrators \subseteq Clients
    /\ TrimSpace \in [Keys -> Keys]
    /\ \A k \in Keys : TrimSpace[TrimSpace[k]] = TrimSpace[k]
    /\ Archived \subseteq Artifacts
    /\ Ids \subseteq Nat /\ Times \subseteq Nat /\ Limits \subseteq Nat \union {None}
    /\ DefaultLimit \in 1..MaximumLimit /\ MaximumLimit \in Nat
    /\ Stores \subseteq {"s3", "filesystem", "none"}
    /\ MaxFaults \in Nat
    /\ None \notin [at: Nat, id: Nat]

VARIABLES
    runs,           \* rows of agent_runs
    payload,        \* artifacts with an object in the store
    tombstones,     \* rows of artifact_deletions
    store,          \* the store this deployment is configured with
    req,            \* the request of each client that is being served
    answers,        \* what clients were told: a run is accepted, an artifact deleted
    faults

vars == <<runs, payload, tombstones, store, req, answers, faults>>

Idle == [op |-> "none"]

Init ==
    /\ runs = History
    /\ payload = Artifacts
    /\ tombstones = {}
    /\ store \in Stores
    /\ req = [c \in Clients |-> Idle]
    /\ answers = {}
    /\ faults = 0

Fault == faults < MaxFaults /\ faults' = faults + 1
Serve(c, r) == req' = [req EXCEPT ![c] = r]
\* An answer that commits the platform, and one that does not.
Tell(c, answer) == Serve(c, Idle) /\ answers' = answers \union {answer}
Refuse(c) == Serve(c, Idle) /\ UNCHANGED answers

-----------------------------------------------------------------------------
(* Creation of a run (Service.Create over AgentRunRepository).             *)

Accepted == [status |-> "QUEUED", attempts |-> 1]

\* Rows that were created before, by the code below: under trimmed keys of their
\* own, with the response they were accepted with.
ASSUME HistoryAssumption ==
    /\ IsFiniteSet(History)
    /\ History \subseteq [id: Nat, key: {x.key : x \in History}, hash: {x.hash : x \in History},
                          at: Nat, now: {x.now : x \in History}, response: {Accepted}]
    /\ \A x, y \in History : x.key = y.key \/ x.id = y.id => x = y
    /\ \A x \in History : x.key \in Keys => TrimSpace[x.key] = x.key

\* What precedes the transaction of Create.  The id and the time are made here,
\* by NewAgentRun, and not by the database.
Create(c) ==
    /\ req[c] = Idle
    /\ \E k \in Keys, b \in Bodies, i \in Ids, t \in Times :
         /\ \A x \in runs : x.id # i
         /\ \A d \in Clients : req[d].op = "create" => req[d].id # i
         /\ Serve(c, [op |-> "create", stage |-> "insert", key |-> k, body |-> b,
                      id |-> i, at |-> t])
    /\ UNCHANGED <<runs, payload, tombstones, store, answers, faults>>

Row(r) == [id |-> r.id, key |-> TrimSpace[r.key], hash |-> r.body, at |-> r.at,
           now |-> Accepted, response |-> Accepted]

\* Mutant of Conflicts: no unique index on tenant and key.
ConflictsOnId(r) == \E x \in runs : x.id = r.id

\* The unique index on tenant and idempotency_key.
Conflicts(r) == \E x \in runs : x.key = TrimSpace[r.key]

\* Repository.Create.  An error of the commit leaves it open whether the rows
\* are there.
Insert(c) ==
    LET r == req[c] IN
    /\ r.op = "create" /\ r.stage = "insert"
    /\ \/ /\ ~Conflicts(r)
          /\ runs' = runs \union {Row(r)}
          /\ \/ Serve(c, [r EXCEPT !.stage = "created"]) /\ UNCHANGED <<answers, faults>>
             \/ Fault /\ Refuse(c)
       \/ /\ Conflicts(r)
          /\ Serve(c, [r EXCEPT !.stage = "lookup"])
          /\ UNCHANGED <<runs, answers, faults>>
       \/ Fault /\ Refuse(c) /\ UNCHANGED runs
    /\ UNCHANGED <<payload, tombstones, store>>

\* The answer 202 to a create.
Created(r, i, state) ==
    [op |-> "create", key |-> TrimSpace[r.key], body |-> r.body, id |-> i, state |-> state]

Respond(c) ==
    LET r == req[c] IN
    /\ r.op = "create" /\ r.stage = "created"
    /\ Tell(c, Created(r, r.id, Accepted))
    /\ UNCHANGED <<runs, payload, tombstones, store, faults>>

\* The status and attempt count stored with the row.  The failure category, the
\* cancellation and the time of completion are not part of what is stored.
applyIdempotencyResponse(x) == x.response

\* GetByIdempotencyKey, by the key as it came, and the comparison of hashes.
Lookup(c) ==
    LET r == req[c]
        found == {x \in runs : x.key = r.key}
    IN
    /\ r.op = "create" /\ r.stage = "lookup"
    /\ \/ found = {} /\ Refuse(c)
       \/ \E x \in found :
            IF x.hash # r.body THEN Refuse(c)
            ELSE Tell(c, Created(r, x.id, applyIdempotencyResponse(x)))
    /\ UNCHANGED <<runs, payload, tombstones, store, faults>>

\* The rest of the platform moves a run on.
Save(x) ==
    /\ x \in runs /\ x.now = Accepted
    /\ runs' = (runs \ {x}) \union {[x EXCEPT !.now = [status |-> "FAILED", attempts |-> 2]]}
    /\ UNCHANGED <<payload, tombstones, store, req, answers, faults>>

-----------------------------------------------------------------------------
(* The history of a project (listRuns and AgentRunRepository.List).        *)

Position(x) == [at |-> x.at, id |-> x.id]

\* order by created_at desc, id desc: p comes further down than q.
After(p, q) == p.at < q.at \/ (p.at = q.at /\ p.id < q.id)

\* Mutant of Below: rows of the cursor's time are taken as seen.
BelowTime(x, cursor) == cursor = None \/ x.at < cursor.at

\* (created_at, id) < (cursor)
Below(x, cursor) == cursor = None \/ After(Position(x), cursor)

\* parseRunPage: no limit, or one within the bounds; else the request is refused.
PageLimit(limit) == IF limit = None THEN {DefaultLimit} ELSE {limit} \intersect (1..MaximumLimit)

\* The repository replaces a limit it does not accept.
RepositoryLimit(n) == IF n \in 1..MaximumLimit THEN n ELSE DefaultLimit

\* The first n rows after the cursor.
Page(cursor, n) ==
    LET rest == {x \in runs : Below(x, cursor)}
    IN  {x \in rest : Cardinality({y \in rest : After(Position(x), Position(y))}) < n}

\* A client starts at the top; "before" are the runs it has to find.
StartList(c) ==
    /\ req[c] = Idle
    /\ \E limit \in Limits : \E n \in PageLimit(limit) :
         Serve(c, [op |-> "list", stage |-> "page", limit |-> n, cursor |-> None,
                   seen |-> {}, count |-> 0, before |-> {x.id : x \in runs}])
    /\ UNCHANGED <<runs, payload, tombstones, store, answers, faults>>

\* One GET: a page that is full carries the position of its last row.
ListPage(c) ==
    LET r == req[c]
        page == Page(r.cursor, RepositoryLimit(r.limit))
        last == CHOOSE x \in page : \A y \in page : ~After(Position(y), Position(x))
        full == Cardinality(page) = r.limit
    IN
    /\ r.op = "list" /\ r.stage = "page"
    /\ Serve(c, [r EXCEPT !.stage = IF full THEN "page" ELSE "end",
                          !.cursor = IF full THEN Position(last) ELSE @,
                          !.seen = @ \union {x.id : x \in page},
                          !.count = @ + Cardinality(page)])
    /\ UNCHANGED <<runs, payload, tombstones, store, answers, faults>>

EndList(c) ==
    /\ req[c].op = "list" /\ req[c].stage = "end"
    /\ Serve(c, Idle)
    /\ UNCHANGED <<runs, payload, tombstones, store, answers, faults>>

-----------------------------------------------------------------------------
(* Deletion of an artifact (Service.Delete over the metadata repository    *)
(* and the store).  List, Get and Download only read.                      *)

\* artifactForRun of the service: metadata with a tombstone is not found.
artifactForRun(a) == a \notin tombstones

\* Mutant of FirstDeleted: the metadata first.
TombstoneFirst == "tombstone"

\* What is deleted first once the request was found to be in order.
FirstDeleted == "payload"

\* Requests that are refused before the first call change nothing.
Delete(c) ==
    /\ req[c] = Idle
    /\ c \in Administrators
    /\ store # "none"
    /\ \E a \in Artifacts \ Archived :
         /\ artifactForRun(a)
         /\ Serve(c, [op |-> "delete", stage |-> FirstDeleted, artifact |-> a])
    /\ UNCHANGED <<runs, payload, tombstones, store, answers, faults>>

\* Delete of the store: S3 does not tell whether there was an object.
StoreDelete(a) == IF store = "s3" \/ a \in payload THEN "ok" ELSE "not found"

\* Mutant of Deleted: an object that is not there is an error.
DeletedNow(outcome) == outcome = "ok"

\* The outcomes after which the tombstone is written.
Deleted(outcome) == outcome # "error"

DeletePayload(c) ==
    LET r == req[c]
        Proceed(outcome) ==
            Serve(c, IF Deleted(outcome) THEN [r EXCEPT !.stage = "tombstone"] ELSE Idle)
    IN
    /\ r.op = "delete" /\ r.stage = "payload"
    /\ \/ /\ Proceed(StoreDelete(r.artifact))
          /\ payload' = payload \ {r.artifact}
          /\ UNCHANGED faults
       \/ /\ Fault
          /\ Proceed("error")
          /\ payload' \in {payload, payload \ {r.artifact}}
    /\ UNCHANGED <<runs, tombstones, store, answers>>

\* RecordDeletion: the key of a tombstone that is there already is no error.
RecordDeletion(c) ==
    LET r == req[c] IN
    /\ r.op = "delete" /\ r.stage = "tombstone"
    /\ \/ /\ tombstones' = tombstones \union {r.artifact}
          /\ Tell(c, [op |-> "delete", artifact |-> r.artifact])
          /\ UNCHANGED faults
       \/ /\ Fault
          /\ Refuse(c)
          /\ tombstones' \in {tombstones, tombstones \union {r.artifact}}
    /\ UNCHANGED <<runs, payload, store>>

\* The replica stops, the request times out or the connection breaks.
Abandon(c) ==
    /\ req[c] # Idle
    /\ Fault
    /\ Serve(c, Idle)
    /\ UNCHANGED <<runs, payload, tombstones, store, answers>>

-----------------------------------------------------------------------------
Handle(c) ==
    \/ Insert(c) \/ Respond(c) \/ Lookup(c)
    \/ ListPage(c) \/ EndList(c)
    \/ DeletePayload(c) \/ RecordDeletion(c)

Next ==
    \/ \E c \in Clients :
         \/ Create(c) \/ StartList(c) \/ Delete(c)
         \/ Handle(c) \/ Abandon(c)
    \/ \E x \in runs : Save(x)

Spec == Init /\ [][Next]_vars

\* A replica goes on with a request it has taken.  No client has to ask.
FairSpec == Spec /\ \A c \in Clients : WF_vars(Handle(c))

-----------------------------------------------------------------------------
(* Properties.                                                             *)

\* An idempotency key stands for one run for ever: whatever requests race,
\* are abandoned and sent again, and however far the run has gone meanwhile,
\* every client that is told "accepted" for a key was told of the same run, as
\* it was accepted, that run is there, and only for the same request.
AnswersAgree ==
    LET told == {a \in answers : a.op = "create"} IN
    /\ \A a, b \in told : a.key = b.key => a = b
    /\ \A a \in told : \E x \in runs :
         x.id = a.id /\ x.key = a.key /\ x.hash = a.body /\ a.state = Accepted

\* A client that follows nextCursor to the end has read every run that was
\* there when it began, and none twice, although runs are created meanwhile,
\* share a creation time, bear an earlier time, or fill the last page.
PagesCoverHistory ==
    \A c \in Clients :
        req[c].op = "list" /\ req[c].stage = "end" =>
            /\ req[c].before \subseteq req[c].seen
            /\ Cardinality(req[c].seen) = req[c].count

\* Metadata never claims a deletion that has not happened: the payload of a
\* tombstoned artifact is gone, a client told 204 finds it tombstoned, and an
\* archived artifact keeps its payload.
TombstonesAreTrue ==
    /\ tombstones \intersect payload = {}
    /\ \A a \in answers : a.op = "delete" => a.artifact \in tombstones
    /\ Archived \subseteq payload

\* A deletion that stopped half-way is finished by asking again: an artifact
\* cannot be asked for and its deletion fail for ever.
DeletionReconciles ==
    \A a \in Artifacts :
        []<>(\E c \in Clients : req[c].op = "delete" /\ req[c].artifact = a)
            => <>(a \in tombstones)
=============================================================================
