-------------------------- MODULE MCStateProjection --------------------------
(***************************************************************************)
(* Instances of StateProjection with two files: 1 exists, 2 does not.      *)
(***************************************************************************)
EXTENDS StateProjection, TLC

CONSTANTS v0, v1, v2

MCRef == {1, 2}
MCDisk == 1 :> v0 @@ 2 :> Absent

(* A refresh of both files, or of file 2 alone.                             *)
MCRequest == {1 :> v1 @@ 2 :> v1, 2 :> v2}
=============================================================================
