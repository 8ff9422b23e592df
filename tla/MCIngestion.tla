---------------------------- MODULE MCIngestion ----------------------------
(***************************************************************************)
(* TLC instances of Ingestion.  Clients and workers are interchangeable.   *)
(***************************************************************************)
EXTENDS Ingestion, TLC


Symmetry == Permutations(Clients) \cup Permutations(Workers)
=============================================================================
