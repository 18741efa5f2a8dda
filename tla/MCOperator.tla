----------------------------- MODULE MCOperator -----------------------------
(* Instances of the operator for TLC. *)
EXTENDS Operator

Transient == {"TRANSIENT_DEPENDENCY"}
Both == {"TRANSIENT_DEPENDENCY", "INTERNAL"}
=============================================================================
