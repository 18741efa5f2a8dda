--------------------------- MODULE MCAgentRunner ---------------------------
(***************************************************************************)
(* Instances of AgentRunner.                                               *)
(***************************************************************************)
EXTENDS AgentRunner

\* The second attempt of the platform, and the operator's retry of the first
\* one, which bears the same number.
SameNumber == {[id |-> "a2", attempt |-> 2], [id |-> "a1", attempt |-> 2]}
Numbers == [a1 |-> 1, a2 |-> 2]
=============================================================================
