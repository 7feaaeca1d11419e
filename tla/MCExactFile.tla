----------------------------- MODULE MCExactFile -----------------------------
(***************************************************************************)
(* Instances of ExactFile: two target paths, 1 and 2, in sort order.       *)
(***************************************************************************)
EXTENDS ExactFile, TLC

CONSTANTS a1, a2, a3, v0, v1, v2, v3

MCRef == {1, 2}
MCDisk == 1 :> v0 @@ 2 :> Absent
MCSymmetry == Permutations(Proc)

Move(refs, from1, to1, from2, to2) ==
  [targets |-> refs, before |-> 1 :> from1 @@ 2 :> from2, after |-> 1 :> to1 @@ 2 :> to2]

(* Three plans whose after images differ: a1 and a3 compete for the same    *)
(* preimages, a2 continues from a1's result on path 1.                      *)
ChainPlan ==
  a1 :> Move({1, 2}, v0, v1, Absent, v1) @@
  a2 :> Move({1},    v1, v2, Absent, v1) @@
  a3 :> Move({1, 2}, v0, v3, Absent, v3)

(* The same change authorized twice: a2 retries a1.                         *)
RetryPlan ==
  a1 :> Move({1, 2}, v0, v1, Absent, v1) @@
  a2 :> Move({1, 2}, v0, v1, Absent, v1)
=============================================================================
