-------------------------- MODULE MCConsumerImport --------------------------
(***************************************************************************)
(* Instances of ConsumerImport: one replay b1, one installed artifact b2.  *)
(***************************************************************************)
EXTENDS ConsumerImport

CONSTANTS p1, p2, b1, b2, a1, a2, a3, v1

MCReturned == [r \in Result |-> v1]

\* Each result has one importing process, b1 with a spare authorization.
ApartJob ==
  [proc : {p1}, result : {b1}, auth : {a1, a2}] \union [proc : {p2}, result : {b2}, auth : {a3}]
=============================================================================
