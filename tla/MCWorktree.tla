----------------------------- MODULE MCWorktree -----------------------------
(***************************************************************************)
(* Two commands at a time; a switch to the branch of a change request, the *)
(* way back to integration, and the creation of the worktree.              *)
(***************************************************************************)
EXTENDS Worktree

CONSTANTS p1, p2, main, cr, go, back, make

GoalOf == [a \in Switch |-> IF a = go THEN cr ELSE main]
Tasks == [p \in Proc |-> IF p = p1 THEN {go} ELSE {back, make}]
=============================================================================
