------------------------------ MODULE ExecuteRoute -----------------------------
(***************************************************************************)
(* The execution routes of the conductor for one job: execute, retry-      *)
(* execute, resume-execute and cancel of apps/conductor/main.py, with      *)
(* governance.py, control_plane.py and escalation.py.                      *)
(*                                                                         *)
(* Requests are served by concurrent threads over one SQLite database.     *)
(* Every statement that is committed on its own is a step, and a request   *)
(* may end with an exception, or with the process, between any two.  The   *)
(* rows of a (job, key) are never deleted; the latest one is what a lookup *)
(* reads, and completing one completes them all.                           *)
(***************************************************************************)
EXTENDS Integers, FiniteSets

CONSTANTS Requests,  \* requests about the job, each served once
          Keys,      \* idempotency keys, given or derived from the body
          Roles,     \* the x-operator-role headers requests carry
          Threshold  \* escalation_failure_streak_threshold

ASSUME RequestAssumption == {"none", "in_progress"} \cap Requests = {}
ASSUME RoleAssumption == Roles \subseteq {"operator", "system", "guest"}
ASSUME ThresholdAssumption == Threshold \in Nat \ {0}
ASSUME FiniteAssumption == IsFiniteSet(Requests)

VARIABLES
  pc,        \* where a request stands
  req,       \* its route, key and role
  answer,    \* what its client was told
  result,    \* how its run ended
  row,       \* a key's latest row: none, in_progress, or the request that completed it
  replayOf,  \* the request whose response a replay returned
  runs,      \* requests that began to run the candidate
  prepared,  \* a checkpoint of the job is saved
  cancelled, reason, \* job_control
  ledger,    \* operator_action_ledger
  esc,       \* job_escalation
  seen,      \* the escalation row a request has read
  late,      \* a run of its key had begun when it arrived
  after      \* a cancellation had been answered when it arrived

vars == <<pc, req, answer, result, row, replayOf, runs, prepared, cancelled,
          reason, ledger, esc, seen, late, after>>

Routes    == {"execute", "retry", "resume", "cancel"}
Calls     == [route : Routes, key : Keys, role : Roles]
Idle      == [route |-> "none"]
Failures  == {"blocked", "failed"}
NoStreak  == [streak |-> 0, escalated |-> FALSE, level |-> 0]

(* ALLOWED_ROLES; an admin may what an operator may, a guest is any other. *)
Allowed(action) ==
  IF action = "replay" THEN {"operator", "system"} ELSE {"operator"}

Init ==
  /\ pc = [r \in Requests |-> "new"]
  /\ req = [r \in Requests |-> Idle]
  /\ answer = [r \in Requests |-> "none"]
  /\ result = [r \in Requests |-> "none"]
  /\ row = [k \in Keys |-> "none"]
  /\ replayOf = [r \in Requests |-> "none"]
  /\ runs = {} /\ prepared = FALSE
  /\ cancelled = FALSE /\ reason = "none" /\ ledger = {}
  /\ esc = NoStreak /\ seen = [r \in Requests |-> NoStreak]
  /\ late = [r \in Requests |-> FALSE] /\ after = [r \in Requests |-> FALSE]

At(r, label)   == pc[r] = label
Goto(r, label) == pc' = [pc EXCEPT ![r] = label] /\ UNCHANGED answer
Answer(r, a)   == /\ pc' = [pc EXCEPT ![r] = "end"]
                  /\ answer' = [answer EXCEPT ![r] = a]

Entered(r, action) ==
  ledger' = ledger \cup {[request |-> r, action |-> action, role |-> req[r].role]}

(* A request of the client.  Only the control routes are governed.         *)
Arrive(r) ==
  /\ At(r, "new")
  /\ \E c \in Calls :
       /\ req' = [req EXCEPT ![r] = c]
       /\ late' = [late EXCEPT ![r] = \E q \in runs : req[q].key = c.key]
       /\ Goto(r, IF c.route = "execute" THEN "check" ELSE "authorize")
  /\ after' = [after EXCEPT
                 ![r] = \E q \in Requests : answer[q] = "cancelled_job"]
  /\ UNCHANGED <<result, row, replayOf, runs, prepared, cancelled, reason,
                 ledger, esc, seen>>

-------------------------------------------------------------------------------
(* Governance.                                                             *)

(* Fault: the action is recorded when it has taken effect.                 *)
Authorize_Later(r) ==
  /\ At(r, "authorize")
  /\ req[r].role \in Allowed("control")
  /\ Goto(r, IF req[r].route = "cancel" THEN "cancel" ELSE "check")
  /\ UNCHANGED <<req, result, row, replayOf, runs, prepared, cancelled, reason,
                 ledger, esc, seen, late, after>>

(* authorize_action; resume_validate_and_record wants a saved checkpoint.  *)
Authorize(r) ==
  /\ At(r, "authorize")
  /\ \/ /\ req[r].role \in Allowed("control")
        /\ Entered(r, req[r].route)
        /\ req[r].route = "resume" => prepared
        /\ Goto(r, IF req[r].route = "cancel" THEN "cancel" ELSE "check")
     \/ /\ req[r].role \notin Allowed("control")
        /\ req[r].route = "resume" => prepared
        /\ Answer(r, "forbidden") /\ UNCHANGED ledger
     \/ /\ req[r].route = "resume"
        /\ Answer(r, "bad_checkpoint") /\ UNCHANGED ledger
  /\ UNCHANGED <<req, result, row, replayOf, runs, prepared, cancelled, reason,
                 esc, seen, late, after>>

(* ControlPlaneService.cancel                                              *)
Cancel(r) ==
  /\ At(r, "cancel")
  /\ cancelled' = TRUE /\ reason' = "operator"
  /\ Answer(r, "cancelled_job")
  /\ UNCHANGED <<req, result, row, replayOf, runs, prepared, ledger, esc, seen,
                 late, after>>

-------------------------------------------------------------------------------
(* execute_job                                                             *)

CheckCancelled(r) ==
  /\ At(r, "check")
  /\ IF cancelled THEN Answer(r, "cancelled") ELSE Goto(r, "lookup")
  /\ UNCHANGED <<req, result, row, replayOf, runs, prepared, cancelled, reason,
                 ledger, esc, seen, late, after>>

Replay(r) ==
  /\ replayOf' = [replayOf EXCEPT ![r] = row[req[r].key]]
  /\ Entered(r, "replay") /\ Answer(r, "replay")

(* Fault: a run that is under way, or was lost, is begun again.            *)
Lookup_IgnoresInProgress(r) ==
  /\ At(r, "lookup")
  /\ IF row[req[r].key] \in Requests
     THEN Replay(r) ELSE Goto(r, "insert") /\ UNCHANGED <<ledger, replayOf>>
  /\ UNCHANGED <<req, result, row, runs, prepared, cancelled, reason, esc, seen,
                 late, after>>

(* Fault: every row that is found is replayed.                             *)
Lookup_ReplaysAnyRow(r) ==
  /\ At(r, "lookup")
  /\ IF row[req[r].key] # "none"
     THEN Replay(r) ELSE Goto(r, "insert") /\ UNCHANGED <<ledger, replayOf>>
  /\ UNCHANGED <<req, result, row, runs, prepared, cancelled, reason, esc, seen,
                 late, after>>

(* The SELECT, and what follows from the latest row.                       *)
Lookup(r) ==
  /\ At(r, "lookup")
  /\ LET found == row[req[r].key] IN
     \/ found = "none" /\ Goto(r, "insert") /\ UNCHANGED <<ledger, replayOf>>
     \/ found # "none" /\ req[r].role \notin Allowed("replay")
        /\ Answer(r, "forbidden") /\ UNCHANGED <<ledger, replayOf>>
     \/ found = "in_progress" /\ req[r].role \in Allowed("replay")
        /\ Answer(r, "in_progress") /\ UNCHANGED <<ledger, replayOf>>
     \/ found \in Requests /\ req[r].role \in Allowed("replay") /\ Replay(r)
  /\ UNCHANGED <<req, result, row, runs, prepared, cancelled, reason, esc, seen,
                 late, after>>

(* The INSERT, which no constraint of the table refuses.                   *)
Insert(r) ==
  /\ At(r, "insert")
  /\ row' = [row EXCEPT ![req[r].key] = "in_progress"]
  /\ runs' = runs \cup {r}
  /\ Goto(r, "run")
  /\ UNCHANGED <<req, result, replayOf, prepared, cancelled, reason, ledger, esc,
                 seen, late, after>>

(* run_single_candidate saves checkpoints: it reads the transitions of the *)
(* job, appends one and writes them all, so that two runs lose entries of  *)
(* each other.  Its last one is of the final status; a run past its        *)
(* timeout is then reported as failed.                                     *)
SaveCheckpoint(r) ==
  /\ At(r, "run")
  /\ prepared' \in IF \E q \in Requests \ {r} : At(q, "run")
                   THEN BOOLEAN ELSE {TRUE}
  /\ UNCHANGED <<pc, answer, req, result, row, replayOf, runs, cancelled, reason,
                 ledger, esc, seen, late, after>>

RunEnds(r) ==
  /\ At(r, "run")
  /\ prepared' = TRUE
  /\ \E status \in Failures \cup {"completed"} :
       result' = [result EXCEPT ![r] = status]
  /\ Goto(r, "store")
  /\ UNCHANGED <<req, row, replayOf, runs, cancelled, reason, ledger, esc, seen,
                 late, after>>

(* Fault: the UPDATE names the job and not the key.                        *)
Store_EveryKey(r) ==
  /\ At(r, "store")
  /\ row' = [k \in Keys |-> IF row[k] = "none" THEN "none" ELSE r]
  /\ Goto(r, "read")
  /\ UNCHANGED <<req, result, replayOf, runs, prepared, cancelled, reason,
                 ledger, esc, seen, late, after>>

(* The UPDATE, of every row of the job and the key.                        *)
Store(r) ==
  /\ At(r, "store")
  /\ row' = [row EXCEPT ![req[r].key] = r]
  /\ Goto(r, "read")
  /\ UNCHANGED <<req, result, replayOf, runs, prepared, cancelled, reason,
                 ledger, esc, seen, late, after>>

(* observe_execution_outcome reads the row and writes what follows from it.*)
ReadEscalation(r) ==
  /\ At(r, "read")
  /\ seen' = [seen EXCEPT ![r] = esc]
  /\ Goto(r, "observe")
  /\ UNCHANGED <<req, result, row, replayOf, runs, prepared, cancelled, reason,
                 ledger, esc, late, after>>

Smaller(m, n) == IF m < n THEN m ELSE n

(* Fault: a success ends the streak and leaves the level.                  *)
Escalated_KeepsLevel(old, status) ==
  LET streak == IF status \in Failures THEN old.streak + 1 ELSE 0 IN
  [streak |-> streak, escalated |-> streak >= Threshold,
   level |-> IF streak >= Threshold THEN Smaller(old.level + 1, 2) ELSE old.level]

Escalated(old, status) ==
  IF status \notin Failures THEN NoStreak
  ELSE IF old.streak + 1 < Threshold
  THEN [old EXCEPT !.streak = @ + 1]
  ELSE [streak |-> old.streak + 1, escalated |-> TRUE,
        level |-> Smaller(old.level + 1, 2)]

Observe(r) ==
  /\ At(r, "observe")
  /\ esc' = Escalated(seen[r], result[r])
  /\ seen' = [seen EXCEPT ![r] = NoStreak]
  /\ Goto(r, "control")
  /\ UNCHANGED <<req, result, row, replayOf, runs, prepared, cancelled, reason,
                 ledger, late, after>>

(* Fault: the new row replaces the old one, its flag included.             *)
UpdateControl_Resets(r) ==
  /\ At(r, "control")
  /\ reason' = "checkpoint" /\ cancelled' = FALSE
  /\ Answer(r, "ok")
  /\ UNCHANGED <<req, result, row, replayOf, runs, prepared, ledger, esc, seen,
                 late, after>>

(* The upsert of job_control, which on a conflict updates the reason.      *)
UpdateControl(r) ==
  /\ At(r, "control")
  /\ reason' = "checkpoint"
  /\ Answer(r, "ok")
  /\ UNCHANGED <<req, result, row, replayOf, runs, prepared, cancelled, ledger,
                 esc, seen, late, after>>

(* An exception nobody catches (of the worker, the model, the database),   *)
(* or the end of the process.                                              *)
Abort(r) ==
  /\ pc[r] \notin {"new", "end"}
  /\ Answer(r, "error")
  /\ UNCHANGED <<req, result, row, replayOf, runs, prepared, cancelled, reason,
                 ledger, esc, seen, late, after>>

-------------------------------------------------------------------------------
Serve(r) ==
  \/ Arrive(r) \/ Authorize(r) \/ Cancel(r) \/ CheckCancelled(r) \/ Lookup(r)
  \/ Insert(r) \/ SaveCheckpoint(r) \/ RunEnds(r) \/ Store(r)
  \/ ReadEscalation(r) \/ Observe(r) \/ UpdateControl(r) \/ Abort(r)

Next == \E r \in Requests : Serve(r)

Spec == Init /\ [][Next]_vars

-------------------------------------------------------------------------------
(* Properties.                                                             *)

Rows == [streak : Nat, escalated : BOOLEAN, level : 0 .. 2]

TypeOK ==
  /\ pc \in [Requests -> {"new", "authorize", "cancel", "check", "lookup",
                          "insert", "run", "store", "read", "observe",
                          "control", "end"}]
  /\ req \in [Requests -> Calls \cup {Idle}]
  /\ answer \in [Requests -> {"none", "ok", "replay", "in_progress", "cancelled",
                              "cancelled_job", "forbidden", "bad_checkpoint",
                              "error"}]
  /\ result \in [Requests -> Failures \cup {"none", "completed"}]
  /\ row \in [Keys -> Requests \cup {"none", "in_progress"}]
  /\ replayOf \in [Requests -> Requests \cup {"none"}]
  /\ runs \in SUBSET Requests
  /\ prepared \in BOOLEAN /\ cancelled \in BOOLEAN
  /\ reason \in {"none", "operator", "checkpoint"}
  /\ ledger \in SUBSET [request : Requests, role : Roles,
                        action : Routes \cup {"replay"}]
  /\ esc \in Rows /\ seen \in [Requests -> Rows]
  /\ late \in [Requests -> BOOLEAN] /\ after \in [Requests -> BOOLEAN]

(* A key is used up by its first run: a request that arrives later never   *)
(* runs the candidate again, not even when that run was lost half way      *)
(* (main.py:181-238).                                                      *)
NoRerun == \A r \in runs : ~late[r]

(* A replay returns the response of a run of the same key, one that ended  *)
(* (main.py:191-215).                                                      *)
ReplayIsFaithful ==
  \A r \in Requests : answer[r] = "replay" =>
    /\ replayOf[r] \in runs
    /\ result[replayOf[r]] # "none"
    /\ req[replayOf[r]].key = req[r].key

(* A cancellation that was answered stands: no execution that arrives      *)
(* after it runs, by any route, whatever runs that were under way write to *)
(* job_control when they end (main.py:313-329).                            *)
CancelStands == \A r \in runs : ~after[r]

(* What a governed route did is in the ledger, by somebody who may: the    *)
(* entry is committed before the effect (governance.py:53-74).             *)
LedgerFirst ==
  /\ cancelled => \E e \in ledger : e.action = "cancel" /\ e.role = "operator"
  /\ \A r \in runs : req[r].route # "execute" =>
       \E e \in ledger : e.request = r /\ e.action = req[r].route
  /\ \A r \in Requests : answer[r] = "replay" =>
       \E e \in ledger : e.request = r /\ e.action = "replay"

(* The escalation of a job and its streak agree, whichever of two          *)
(* observers writes last, and the streak counts runs that failed           *)
(* (escalation.py:29-40).                                                  *)
EscalationAgrees ==
  /\ esc.escalated <=> esc.streak >= Threshold
  /\ esc.level > 0 <=> esc.escalated
  /\ esc.streak <= Cardinality({r \in runs : result[r] \in Failures})

(* README.md:30, "explicit idempotency/replay handling for execute": one   *)
(* key runs its candidate once.                                            *)
OneRunPerKey ==
  \A r, q \in runs : req[r].key = req[q].key => r = q
================================================================================
