---------------------------- MODULE MCPhaseSlot ----------------------------
(***************************************************************************)
(* One Phase metadata update and one Phase transition, or two transitions,  *)
(* each by a process of its own; both processes may recover.                *)
(***************************************************************************)
EXTENDS PhaseSlot

CONSTANTS p1, p2, md, tr, tr2

Kinds == [t \in Tx |-> IF t \in {tr, tr2} THEN "transition" ELSE "metadata"]
Tasks == [p \in Proc |-> IF p = p1 THEN Tx \ {tr} ELSE Tx \intersect {tr}]
=============================================================================
