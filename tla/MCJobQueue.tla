----------------------------- MODULE MCJobQueue -----------------------------
(* The instance of JobQueue that TLC checks.  Owners and client ids are    *)
(* interchangeable, and no property below is a liveness property, so the   *)
(* symmetry is sound.                                                      *)
EXTENDS JobQueue, TLC

Symmetry == Permutations(Owners) \cup Permutations(ClientIds)
=============================================================================
