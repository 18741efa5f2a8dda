----------------------------- MODULE MCRunQueue -----------------------------
(* Instances of RunQueue for TLC. *)
EXTENDS RunQueue

CONSTANTS e1, e2

\* The second engine's clock is one ahead.
SkewOfOne == [e \in Engines |-> IF e = e2 THEN 1 ELSE 0]
=============================================================================
