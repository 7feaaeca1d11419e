---------------------------- MODULE MCGovernance ----------------------------
(***************************************************************************)
(* File 1 is PROJECT.yaml, which lists the Works, file 2 the WORK.yaml of  *)
(* Work w.  Close c0 has been committed before, and a phase transition has *)
(* rewritten PROJECT.yaml since.                                           *)
(***************************************************************************)
EXTENDS Governance

CONSTANTS c0, c1, i1, m1, w, v, wDone, scope, phase

Put(add, del) == [add |-> add, del |-> del]

Effects ==
  [t \in Tx |->
     CASE t = c0 -> NoFiles
       [] t = c1 -> [r \in {1, 2} |-> Put({wDone}, {w})]
       [] t = i1 -> [r \in {1} |-> Put({v}, {})]
       [] t = m1 -> [r \in {2} |-> Put({scope}, {})]]

Works == [t \in InitId \union AmendId |-> CASE t = i1 -> v [] t = m1 -> w]

Files == [r \in Ref |-> IF r = 1 THEN {w, phase} ELSE {w}]

Manifests ==
  [t \in Tx |->
     IF t # c0 THEN NoManifest
     ELSE [NoManifest EXCEPT !.state = "COMMITTED", !.kept = Ref, !.attempted = Ref,
             !.before = [r \in Ref |-> {}], !.after = [r \in Ref |-> {w}]]]

Transition ==
  {[op |-> "phase", writer |-> phase,
    at |-> [r \in {1} |-> [anchor |-> c0, pred |-> {}, before |-> {w}, after |-> {w, phase}]]]}

\* The instance is one that the theorem about the files speaks of.
ASSUME HypothesesHold == OwnFacts /\ PastIsOver
=============================================================================
