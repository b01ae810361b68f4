----------------------------- MODULE MCJobManager -----------------------------
(***************************************************************************)
(* Instances of JobManager: two jobs with callers and messages, and, side  *)
(* by side with them, more jobs over a larger table with neither.  Both    *)
(* have the same variables; in a behaviour, part says which it is.         *)
(***************************************************************************)
EXTENDS JobManager, TLC

CONSTANTS TableJobs, TableRetained

VARIABLE part

ASSUME TableAssumption == IsFiniteSet(TableJobs) /\ TableRetained \in Nat \ {0}

Table == INSTANCE JobManager
           WITH Jobs <- TableJobs, Callers <- {}, MaxRetained <- TableRetained,
                MaxQueued <- 1, MaxBytes <- 1, Sizes <- {}, MaxTurns <- 1,
                MaxBatch <- 1

PartsInit == \/ part = "jobs" /\ Init
             \/ part = "table" /\ Table!Init

PartsNext == /\ \/ part = "jobs" /\ Next
                \/ part = "table" /\ Table!Next
             /\ UNCHANGED part

PartsSpec == PartsInit /\ [][PartsNext]_<<part, vars>>

Symmetry == Permutations(Jobs) \cup Permutations(TableJobs \ Jobs)
              \cup Permutations(Callers)

-------------------------------------------------------------------------------
(* Starting a job drops finished ones only, the oldest first, keeps the    *)
(* table bounded and never drops one whose usage line is being written     *)
(* (job_manager.py:475-491).                                               *)
TableRight ==
  [][/\ part = "jobs" =>
          \A j \in Jobs : ResultRetained(j) /\ TableBounded(j)
     /\ part = "table" =>
          \A j \in TableJobs : Table!ResultRetained(j) /\ Table!TableBounded(j)]_vars
===============================================================================
