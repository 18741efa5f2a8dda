----------------------------- MODULE MCAdmission -----------------------------
(* Instances of Admission for TLC. *)
EXTENDS Admission, TLC

CONSTANTS r1, r2, r3, t1, t2, u1, u2

\* r1 and r2 are runs of t1, r3 of t2.
OwnTenants == [r \in Runs |-> IF r = r3 THEN t2 ELSE t1]
OneUser == [r \in Runs |-> u1]
TwoUsers == [r \in Runs |-> IF r = r1 THEN u1 ELSE u2]
Unit == [r \in Runs |-> 1]
Large == [r \in Runs |-> IF r = r3 THEN 2 ELSE 1]

\* One run at a time, or two within a budget that is soon spent.
Narrow == [t \in Tenants |-> [maxRuns |-> 1, maxUserRuns |-> 1, maxQueued |-> 2,
                              maxSize |-> 2, daily |-> 3]]
Tight == [t \in Tenants |-> [maxRuns |-> 2, maxUserRuns |-> 2, maxQueued |-> 2,
                             maxSize |-> 3, daily |-> 2]]

\* Workers differ only in their names.
WorkerSymmetry == Permutations(Workers)
=============================================================================
