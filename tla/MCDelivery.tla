----------------------------- MODULE MCDelivery -----------------------------
(* Instances of Delivery for TLC. *)
EXTENDS Delivery

CONSTANTS v1, v2, bad

\* v1 and v2 are of one run; bad is of another and does not decode.
Requested == [e \in Events |-> CASE e = v1 -> "other" [] e = v2 -> "scheduled" [] OTHER -> "invalid"]
Scheduled == [e \in Events |-> IF e = bad THEN "invalid" ELSE "scheduled"]
Runs == [e \in Events |-> IF e = bad THEN "other" ELSE "run"]
Versions == [e \in Events |-> CASE e = v1 -> 1 [] e = v2 -> 2 [] OTHER -> 1]
=============================================================================
