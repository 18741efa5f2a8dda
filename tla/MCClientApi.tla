---------------------------- MODULE MCClientApi ----------------------------
(* Instances of ClientApi for TLC. *)
EXTENDS ClientApi

CONSTANTS k1, padded, b1

\* A key with white space that HTTP does not remove and TrimSpace does.
Trimmed == [k \in Keys |-> IF k = padded THEN k1 ELSE k]

\* Two runs that were created at one moment and have ended since.
Earlier ==
    {[id |-> i, key |-> <<"earlier", i>>, hash |-> b1, at |-> 1, response |-> Accepted,
      now |-> [status |-> "FAILED", attempts |-> 2]] : i \in {2, 4}}
=============================================================================
