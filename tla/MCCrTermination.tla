--------------------------- MODULE MCCrTermination ---------------------------
(***************************************************************************)
(* Two change requests; the first may be terminated by either of two       *)
(* processes, each with an authorization of its own.                        *)
(***************************************************************************)
EXTENDS CrTermination

CONSTANTS p1, p2, c1, c2, a1, a2, a3

ChangeRequest == [a \in Auth |-> IF a = a2 THEN c2 ELSE c1]
Tasks == [p \in Proc |-> IF p = p1 THEN Auth \ {a3} ELSE Auth \ {a1}]
=============================================================================
