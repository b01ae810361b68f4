---------------------------- MODULE MCExecuteRoute -----------------------------
(* Instances of ExecuteRoute: interchangeable requests and keys.           *)
EXTENDS ExecuteRoute, TLC

Symmetry == Permutations(Requests) \cup Permutations(Keys)
================================================================================
