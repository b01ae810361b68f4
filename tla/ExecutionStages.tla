---------------------------- MODULE ExecutionStages ----------------------------
(***************************************************************************)
(* The execution, review and repair of the selected candidate of one job:  *)
(* ExecutionService of conductor/services/execution.py over the worker of  *)
(* apps/worker/main.py, or over the one that its tests put in its place    *)
(* (tests/test_repair_milestone7b.py:8-50).                                *)
(*                                                                         *)
(* Several runs of the job may be under way (the routes do not exclude     *)
(* them, see ExecuteRoute): they share the files of the task and the row   *)
(* execution_state.  A call of the worker, a call of a model and each of   *)
(* the two statements of _save_state is a step; any of them may raise.     *)
(***************************************************************************)
EXTENDS Naturals, FiniteSets

CONSTANTS Runs,     \* runs of the job: the first one, retries ones
          Files,    \* files of the repository
          Targets,  \* the micro targets of the candidate, among them
          Tracked   \* the stages whose transitions the model keeps

VARIABLES
  mode,     \* what a run does next
  stage,    \* the stage it saved last, or is saving
  verdict,  \* the verdict it goes by
  repair,   \* repair_result.state
  plan,     \* the writes of the repair that are left
  diff,     \* the files as its last git_diff showed them
  snap,     \* the transitions it has read
  response, \* the status its caller is told
  files,    \* whose content a file has
  shows,    \* git_diff shows what has changed: the tests' worker; the one of
            \* apps/worker/main.py answers that nothing has
  owed,     \* runs that wrote since the worker was last asked to reset the
            \* task (no variable of the code)
  row,      \* execution_state: which run wrote it, and the stage
  transitions, \* execution_state.transitions, those that are tracked
  saved,    \* the same as they were saved (no variable of the code)
  overlap   \* two runs have been under way at once (no variable of the code)

vars == <<mode, stage, verdict, repair, plan, diff, snap, response,
          files, shows, owed, row, transitions, saved, overlap>>
locals == <<verdict, repair, plan, diff, response>>
shared == <<files, shows, owed, row, transitions, saved>>

Final   == {"completed", "blocked", "failed"}
Stages  == Final \cup {"queued", "prepared", "implementing", "validating",
                       "reviewing", "repairing", "finalizing"}
Entries == Tracked \X Runs

Changed(tree) == {f \in Files : tree[f] # "base"}
Active(r)     == mode[r] \notin {"new", "answered", "aborted"}

(* prepare_repo leaves the files as they are: the candidate's changes are  *)
(* in place before the run, or there are none.                             *)
Init ==
  /\ mode = [r \in Runs |-> "new"] /\ stage = [r \in Runs |-> "queued"]
  /\ verdict = [r \in Runs |-> "none"] /\ repair = [r \in Runs |-> "none"]
  /\ plan = [r \in Runs |-> {}]
  /\ files \in [Files -> {"base", "candidate"}]
  /\ shows \in BOOLEAN /\ owed = {}
  /\ diff = [r \in Runs |-> [f \in Files |-> "base"]]
  /\ snap = [r \in Runs |-> {}]
  /\ response = [r \in Runs |-> "none"]
  /\ row = [run |-> "none", stage |-> "none"]
  /\ transitions = {} /\ saved = {} /\ overlap = FALSE

Mode(r, m)  == mode' = [mode EXCEPT ![r] = m]
Save(r, s)  == Mode(r, "select") /\ stage' = [stage EXCEPT ![r] = s]
At(r, m, s) == mode[r] = m /\ stage[r] = s

(* A request, a retry, or a resume from a checkpoint, which is looked up   *)
(* and not passed on: what runs is the whole candidate every time.         *)
Begin(r) ==
  /\ mode[r] = "new"
  /\ Save(r, "queued")
  /\ overlap' = (overlap \/ \E q \in Runs : Active(q))
  /\ UNCHANGED <<locals, snap, shared>>

-------------------------------------------------------------------------------
(* _save_state                                                             *)

SelectTransitions(r) ==
  /\ mode[r] = "select"
  /\ snap' = [snap EXCEPT ![r] = transitions]
  /\ Mode(r, "upsert")
  /\ UNCHANGED <<stage, locals, shared, overlap>>

Added(r) == (Tracked \cap {stage[r]}) \X {r}

(* Fault: the upsert writes the entry and drops those before it.           *)
Appended_Alone(r) == Added(r)
Appended(r) == snap[r] \cup Added(r)

Upsert(r) ==
  /\ mode[r] = "upsert"
  /\ transitions' = Appended(r) /\ saved' = saved \cup Added(r)
  /\ row' = [run |-> r, stage |-> stage[r]]
  /\ snap' = [snap EXCEPT ![r] = {}]
  /\ Mode(r, IF stage[r] \in Final THEN "respond" ELSE "work")
  /\ UNCHANGED <<stage, locals, files, shows, owed, overlap>>

-------------------------------------------------------------------------------
(* run_single_candidate                                                    *)

Prepare(r) ==
  /\ At(r, "work", "queued")
  /\ Save(r, "prepared")
  /\ UNCHANGED <<locals, snap, shared, overlap>>

Implement(r) ==
  /\ At(r, "work", "prepared")
  /\ Save(r, "implementing")
  /\ UNCHANGED <<locals, snap, shared, overlap>>

(* What git_diff answers, as the files that it shows.                      *)
GitDiff == IF shows THEN files ELSE [f \in Files |-> "base"]

(* Lint, type check, tests and git_diff, of which the last one matters.    *)
Validate(r) ==
  /\ At(r, "work", "implementing")
  /\ diff' = [diff EXCEPT ![r] = GitDiff]
  /\ Save(r, "validating")
  /\ UNCHANGED <<verdict, repair, plan, response, snap, shared, overlap>>

(* What a review answers, when the answer is a verdict at all.             *)
Verdicts == {"approve", "block", "revise"}

(* An answer that is not a verdict fails the run.                          *)
Review(r) ==
  /\ At(r, "work", "validating")
  /\ \/ \E v \in Verdicts :
          /\ verdict' = [verdict EXCEPT ![r] = v] /\ Save(r, "reviewing")
     \/ /\ verdict' = [verdict EXCEPT ![r] = "unreadable"] /\ Save(r, "failed")
  /\ UNCHANGED <<repair, plan, diff, response, snap, shared, overlap>>

AfterReview(r) ==
  /\ At(r, "work", "reviewing")
  /\ Save(r, IF verdict[r] = "block" THEN "repairing" ELSE "finalizing")
  /\ UNCHANGED <<locals, snap, shared, overlap>>

(* Fault: the verdict names the stage.                                     *)
FinalStage_Verdict(r) ==
  IF repair[r] = "repair_failed" THEN "failed" ELSE verdict[r]

(* Fault: only a block blocks.                                             *)
FinalStage_Revised(r) ==
  CASE repair[r] = "repair_failed" -> "failed"
    [] repair[r] # "repair_failed" /\ verdict[r] = "block" -> "blocked"
    [] OTHER -> "completed"

FinalStage(r) ==
  CASE repair[r] = "repair_failed" -> "failed"
    [] repair[r] # "repair_failed" /\ verdict[r] = "approve" -> "completed"
    [] OTHER -> "blocked"

Finalize(r) ==
  /\ At(r, "work", "finalizing")
  /\ Save(r, FinalStage(r))
  /\ UNCHANGED <<locals, snap, shared, overlap>>

(* execute_job answers when the run has ended: a run that took longer than *)
(* its timeout is reported as failed, and its row stays what it is.        *)
Respond(r) ==
  /\ mode[r] = "respond"
  /\ \E status \in {stage[r], "failed"} :
       response' = [response EXCEPT ![r] = status]
  /\ Mode(r, "answered")
  /\ UNCHANGED <<stage, verdict, repair, plan, diff, snap, shared, overlap>>

-------------------------------------------------------------------------------
(* _attempt_single_repair, and the second validation and review            *)

Allowed(r) == Targets \cup Changed(diff[r])

(* Fault: only the first path of the plan is looked at.                    *)
InBounds_First(r, paths) == paths \cap Allowed(r) # {}
InBounds(r, paths) == paths \subseteq Allowed(r)

(* The paths of a plan of the builder, when it can be read.                *)
Plans == SUBSET Files \ {{}}

(* A plan that is unreadable or out of bounds fails the repair.            *)
PlanRepair(r) ==
  /\ At(r, "work", "repairing")
  /\ \/ \E paths \in Plans :
          /\ InBounds(r, paths)
          /\ plan' = [plan EXCEPT ![r] = paths] /\ Mode(r, "write")
     \/ Mode(r, "reset") /\ UNCHANGED plan
  /\ UNCHANGED <<stage, verdict, repair, diff, response, snap, shared,
                 overlap>>

WriteFile(r) ==
  /\ mode[r] = "write"
  /\ \E f \in plan[r] :
       /\ files' = [files EXCEPT ![f] = r]
       /\ plan' = [plan EXCEPT ![r] = @ \ {f}]
  /\ owed' = owed \cup {r}
  /\ UNCHANGED <<mode, stage, verdict, repair, diff, response, snap, shows, row,
                 transitions, saved, overlap>>

(* A read or a write of the worker raises; a write may have been done.     *)
WriteFails(r) ==
  /\ mode[r] = "write"
  /\ \E f \in plan[r] : files' \in {files, [files EXCEPT ![f] = r]}
  /\ plan' = [plan EXCEPT ![r] = {}] /\ Mode(r, "reset")
  /\ owed' = owed \cup {r}
  /\ UNCHANGED <<stage, verdict, repair, diff, response, snap, shows, row,
                 transitions, saved, overlap>>

HasDiff == Changed(GitDiff) # {}

(* Fault: a repair without a diff has failed, and no reset is asked for.   *)
CheckDiff_NoReset(r) ==
  /\ mode[r] = "write" /\ plan[r] = {}
  /\ \/ HasDiff /\ Mode(r, "revalidate") /\ UNCHANGED <<stage, repair>>
     \/ /\ repair' = [repair EXCEPT ![r] = "repair_failed"]
        /\ Save(r, "finalizing")
  /\ UNCHANGED <<verdict, plan, diff, response, snap, shared, overlap>>

(* A write that leaves the file as it was has no diff.                     *)
CheckDiff(r) ==
  /\ mode[r] = "write" /\ plan[r] = {}
  /\ \/ HasDiff /\ Mode(r, "revalidate")
     \/ Mode(r, "reset")
  /\ UNCHANGED <<stage, locals, snap, shared, overlap>>

(* Both workers answer that they have, and leave the files as they are.    *)
ResetRepo(r) ==
  /\ mode[r] = "reset"
  /\ owed' = {}
  /\ repair' = [repair EXCEPT ![r] = "repair_failed"]
  /\ Save(r, "finalizing")
  /\ UNCHANGED <<verdict, plan, diff, response, snap, files, shows, row,
                 transitions, saved, overlap>>

(* Fault: the second review is shown the first diff.                       *)
Revalidate_Stale(r) ==
  /\ mode[r] = "revalidate"
  /\ Mode(r, "rereview")
  /\ UNCHANGED <<stage, locals, snap, shared, overlap>>

Revalidate(r) ==
  /\ mode[r] = "revalidate"
  /\ diff' = [diff EXCEPT ![r] = GitDiff]
  /\ Mode(r, "rereview")
  /\ UNCHANGED <<stage, verdict, repair, plan, response, snap, shared,
                 overlap>>

(* A second answer that is not a verdict counts as a block.                *)
SecondReview(r) ==
  /\ mode[r] = "rereview"
  /\ \E v \in Verdicts :
       /\ verdict' = [verdict EXCEPT ![r] = v]
       /\ repair' = [repair EXCEPT ![r] = IF v = "approve" THEN "repaired_and_passed"
                                          ELSE "repaired_but_still_blocked"]
  /\ Save(r, "finalizing")
  /\ UNCHANGED <<plan, diff, response, snap, shared, overlap>>

(* An exception nobody catches, the reset in a handler's included, or the  *)
(* end of the process.                                                     *)
Abort(r) ==
  /\ Active(r)
  /\ Mode(r, "aborted")
  /\ plan' = [plan EXCEPT ![r] = {}] /\ snap' = [snap EXCEPT ![r] = {}]
  /\ UNCHANGED <<stage, verdict, repair, diff, response, shared, overlap>>

-------------------------------------------------------------------------------
Work(r) ==
  \/ SelectTransitions(r) \/ Upsert(r) \/ Prepare(r) \/ Implement(r)
  \/ Validate(r) \/ Review(r) \/ AfterReview(r) \/ Finalize(r) \/ Respond(r)
  \/ PlanRepair(r) \/ WriteFile(r) \/ WriteFails(r) \/ CheckDiff(r)
  \/ ResetRepo(r) \/ Revalidate(r) \/ SecondReview(r)

Next == \E r \in Runs : Begin(r) \/ Work(r) \/ Abort(r)

Spec == Init /\ [][Next]_vars

-------------------------------------------------------------------------------
(* Properties.                                                             *)

Trees == [Files -> {"base", "candidate"} \cup Runs]

TypeOK ==
  /\ mode \in [Runs -> {"new", "select", "upsert", "work", "write", "reset",
                        "revalidate", "rereview", "respond", "answered",
                        "aborted"}]
  /\ stage \in [Runs -> Stages]
  /\ verdict \in [Runs -> Verdicts \cup {"none", "unreadable"}]
  /\ repair \in [Runs -> {"none", "repair_failed", "repaired_and_passed",
                          "repaired_but_still_blocked"}]
  /\ plan \in [Runs -> SUBSET Files]
  /\ files \in Trees /\ diff \in [Runs -> Trees]
  /\ shows \in BOOLEAN /\ owed \in SUBSET Runs
  /\ transitions \in SUBSET Entries /\ saved \in SUBSET Entries
  /\ snap \in [Runs -> SUBSET Entries]
  /\ response \in [Runs -> Final \cup {"none"}]
  /\ row \in [run : Runs \cup {"none"}, stage : Stages \cup {"none"}]
  /\ overlap \in BOOLEAN

(* A repair writes the candidate's targets and files that were changed     *)
(* before it, and no other, also when it is cut short between two writes,  *)
(* and whatever another run has shown or written meanwhile                 *)
(* (execution.py:216-226).                                                 *)
RepairInBounds ==
  \A r \in Runs, f \in Files :
    files[f] = r => f \in Targets \/ diff[r][f] # "base"

(* A run that reports a failed repair has written nothing since the worker *)
(* was last asked to reset the task: after a part of the writes, after all *)
(* of them without a diff, or with no plan at all (execution.py:214, 220,  *)
(* 238, 243).                                                              *)
FailedRepairReset ==
  \A r \in Runs : repair[r] = "repair_failed" => r \notin owed

(* A git_diff still shows what the approving review was shown of what is   *)
(* saved as completed, the repair included, while no other run has begun   *)
(* (execution.py:118-140).                                                 *)
ApprovedDiffStands ==
  row.stage = "completed" /\ ~overlap
    /\ (\A q \in Runs : mode[q] \in {"new", "respond", "answered", "aborted"})
    /\ (\A q \in Runs \ {row.run} : mode[q] # "aborted")
  => /\ diff[row.run] = GitDiff
     /\ verdict[row.run] = "approve" /\ repair[row.run] # "repair_failed"

(* Runs that follow one another keep each other's checkpoints, which is    *)
(* what resume goes by; only runs that overlap lose some                   *)
(* (execution.py:318-330).                                                 *)
CheckpointsKept == ~overlap => transitions = saved

(* The row says that a run is under way only while one is, or after one    *)
(* that was lost; and a success that is reported was saved.                *)
RowIsTrue ==
  /\ row.stage \in Stages \ Final =>
       \E r \in Runs : Active(r) \/ mode[r] = "aborted"
  /\ \A r \in Runs : response[r] = "completed" =>
       stage[r] = "completed" /\ verdict[r] = "approve"
================================================================================
