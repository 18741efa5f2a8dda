---------------------------- MODULE MCQueueDrain ----------------------------
(* Instances of QueueDrain for TLC. *)
EXTENDS QueueDrain

CONSTANTS r1, r2, r3, r4, t1, t2

TwoTenants == [r \in Runs |-> IF r = r4 THEN t2 ELSE t1]

\* r1, then r2, and so on.
InOrder == [r \in Runs |->
  CASE r = r1 -> {} [] r = r2 -> {r1} [] r = r3 -> {r1, r2} [] OTHER -> Runs \ {r4}]

\* Two runs ask for more than their tenant may ever use.
Oversized == [r \in Runs |-> IF r \in {r1, r4} THEN 3 ELSE 1]
High == [r \in Runs |-> IF r \in {r1, r2} THEN 2 ELSE 0]
=============================================================================
