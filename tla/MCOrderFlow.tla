---------------------------- MODULE MCOrderFlow -----------------------------
(* The instance of OrderFlow that TLC checks.  Workers and trades are      *)
(* interchangeable; the symmetry is used for safety only.                  *)
EXTENDS OrderFlow, TLC

Symmetry == Permutations(Workers) \cup Permutations(ClientIds)
=============================================================================
