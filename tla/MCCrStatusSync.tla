--------------------------- MODULE MCCrStatusSync ---------------------------
(***************************************************************************)
(* Two change requests, each synchronised by a process of its own, and a   *)
(* process that recovers.                                                  *)
(***************************************************************************)
EXTENDS CrStatusSync

CONSTANTS p1, p2, p3, c1, c2, a1, a2, a3

ChangeRequest == [a \in Auth |-> IF a = a2 THEN c2 ELSE c1]
Tasks ==
  [p \in Proc |-> CASE p = p1 -> Auth \ {a2} [] p = p2 -> Auth \intersect {a2} [] p = p3 -> {}]
=============================================================================
