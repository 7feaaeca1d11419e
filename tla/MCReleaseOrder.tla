--------------------------- MODULE MCReleaseOrder ---------------------------
(***************************************************************************)
(* Two commands at a time; two candidates for the first action, one event  *)
(* for each of the next two.                                               *)
(***************************************************************************)
EXTENDS ReleaseOrder

CONSTANTS p1, p2, ready, ready2, freeze, decide

Acts ==
  [e \in Event |-> IF e = freeze THEN "freeze-source"
                   ELSE IF e = decide THEN "decide-version" ELSE "candidate-ready"]
=============================================================================
