------------------------------ MODULE MCConductor ------------------------------
(***************************************************************************)
(* Four parts of the conductor that share no state, side by side: the      *)
(* packaging routes (PackageRoute), whose request carries the result of    *)
(* the execution, the runs of the selected candidate (ExecutionStages),    *)
(* its selection (DecisionPipeline), and the overlays with the index       *)
(* (MemoryIndex).  In a behaviour, part says which of them moves: the      *)
(* states add up and do not multiply.                                      *)
(***************************************************************************)
EXTENDS PackageRoute, Integers, TLC

CONSTANTS Parts, Runs, Files, Targets, Tracked, Lone,
          Answers, Objectives, Builders, MaxMedoids, Aligned, Threshold, CloseL1,
          OverlayKeys, OwnerOf(_), OverlayRepos, OverlayTasks, MaxMemory

\* A run is told from nobody and from what the files held before it.
ASSUME RunsAssumption == "none" \notin Runs /\ "base" \notin Runs /\ "candidate" \notin Runs

\* Levels and cosines are whole numbers, of finitely many objectives; a builder
\* is asked at least, and a medoid kept.
ASSUME DecisionAssumption ==
  /\ IsFiniteSet(Objectives)
  /\ Builders \in Nat \ {0} /\ MaxMedoids \in Nat \ {0}
  /\ Aligned \in Int /\ Threshold \in Int /\ CloseL1 \in Int
  /\ \A c \in Answers : c.feature \in Int /\ \A o \in Objectives : c.obj[o] \in Int

ASSUME AdviceAssumption == "none" # Lone

VARIABLES part, mode, stage, verdict, repair, plan, diff, snap, response,
          files, shows, owed, stateRow, transitions, saved, overlap,
          phase, valid, rejected, offered, deduped, frontier, outcome, selected,
          asks, step, target, overlayRows, memoryRows, index, overlapped, answered, fresh

Stages == INSTANCE ExecutionStages WITH row <- stateRow

stageVars == <<mode, stage, verdict, repair, plan, diff, snap, response,
               files, shows, owed, stateRow, transitions, saved, overlap>>

\* What the builders may answer in the run: two objectives on three levels, features in a
\* row of which neighbours are similar, the zero vector, and one failed check.
Candidate(first, second, feature, flaws) ==
  [obj |-> [o \in {"locality", "speed"} |-> IF o = "speed" THEN first ELSE second],
   feature |-> feature, flaws |-> flaws]
SomeAnswers ==
  {Candidate(2, 0, f, {}) : f \in {0, 1, 2}} \cup {Candidate(1, 1, f, {}) : f \in {0, 2, 3}}
    \cup {Candidate(1, 0, 1, {}), Candidate(2, 2, 1, {"rollback"})}

Decision == INSTANCE DecisionPipeline
  WITH Candidates <- Answers, Roles <- Builders, pc <- phase

decisionVars == <<phase, valid, rejected, offered, deduped, frontier, outcome, selected>>

\* Keys of two repositories in the run, and one upsert more than there are runs.
RepoOf(key) == IF key = "alias" THEN "repo" ELSE "other"

Advice == INSTANCE MemoryIndex
  WITH Upserts <- Runs \cup {Lone}, Repos <- OverlayRepos, Keys <- OverlayKeys,
       Owner <- OwnerOf, Tasks <- OverlayTasks,
       rows <- overlayRows, memory <- memoryRows, last <- answered

adviceVars == <<asks, step, target, overlayRows, memoryRows, index, overlapped,
                answered, fresh>>

partVars == <<part, vars, stageVars, decisionVars, adviceVars>>

PartsInit ==
  /\ part \in Parts /\ Init /\ Stages!Init /\ Decision!Init /\ Advice!Init
  /\ part # "stages" => files = [f \in Files |-> "base"] /\ shows
  /\ part # "advice" =>
       asks[Lone] = [key |-> CHOOSE k \in OverlayKeys : TRUE, tasks |-> {}, blank |-> FALSE]
  /\ \A u \in Runs : ~asks[u].blank /\ asks[u].tasks = {}
                     /\ (part # "advice" => asks[u].key = asks[Lone].key)

PartsNext ==
  \/ part = "package" /\ Next /\ UNCHANGED <<part, stageVars, decisionVars, adviceVars>>
  \/ part = "stages" /\ Stages!Next /\ UNCHANGED <<part, vars, decisionVars, adviceVars>>
  \/ part = "decision" /\ Decision!Next /\ UNCHANGED <<part, vars, stageVars, adviceVars>>
  \/ part = "advice" /\ Advice!Next /\ UNCHANGED <<part, vars, stageVars, decisionVars>>

PartsSpec == PartsInit /\ [][PartsNext]_partVars

\* Parts share no state: where runs have the values of requests, a permutation
\* of the requests is one of the runs.
Symmetry == Permutations(Requests) \cup Permutations(Keys)

-------------------------------------------------------------------------------
(* A completed package has all of its memory, a key writes its memory      *)
(* once unless two requests of it overlap, and a duplicate by a retry was  *)
(* approved for it; the telemetry and the report on the job say the same   *)
(* (main.py:349-600, invariants.py:34).                                    *)
PackageWhole ==
  /\ TypeOK /\ CompletedIsWhole /\ NoSecondWrite /\ DuplicatesApproved
  /\ EventsTrue /\ ReportRight

(* A repair writes within its bounds, and one that failed, for whatever    *)
(* reason, wrote nothing after the last request to reset the task          *)
(* (execution.py:200-252).                                                 *)
FailedRepairReset == Stages!RepairInBounds /\ Stages!FailedRepairReset

(* Runs that follow one another keep each other's checkpoints              *)
(* (execution.py:318-330).                                                 *)
CheckpointsKept == Stages!CheckpointsKept

(* The row of the job and the response say what became of its run: a       *)
(* completed candidate is the one that the approving review was shown.     *)
RowIsTrue == Stages!TypeOK /\ Stages!RowIsTrue /\ Stages!ApprovedDiffStands

(* What the arbiter selects passes every check and is dominated by nothing *)
(* that was offered, and pruning loses no kind of candidate; the builders  *)
(* are guided by the overlay that was stored last, and a refreshed index   *)
(* agrees with it (frontier.py:37, arbiter.py:50, overlay_state.py:53,     *)
(* retrieval.py:132).                                                      *)
DecisionsRight ==
  /\ part = "decision" =>
       /\ Decision!TypeOK /\ Decision!PruningRight /\ Decision!MedoidsRight
       /\ Decision!SelectionRight /\ Decision!AllReported
  /\ part = "advice" =>
       Advice!TypeOK /\ Advice!LastIsResolved /\ Advice!IndexIsCurrent
================================================================================
