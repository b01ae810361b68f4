----------------------------- MODULE SyncDelegation ----------------------------
(***************************************************************************)
(* Synchronous delegations (delegate_to_gpt of gpt_mcp/server.py): the     *)
(* task of a request on the event loop, the thread that runs the agent for *)
(* it (run_sync of job_manager.py), and the cancellation of a request,     *)
(* which the framework may deliver more than once.                         *)
(***************************************************************************)
EXTENDS Integers, FiniteSets

CONSTANTS Requests,
          MaxCancels,   \* deliveries of a cancellation to a request
          MaxChanges,   \* mutations of a delegation
          None

ASSUME SyncAssumption ==
  None \notin Requests /\ MaxCancels \in Nat /\ MaxChanges \in Nat

VARIABLES
  task,      \* where the request stands on the event loop
  event,     \* its cancel event
  worker,    \* where its thread stands
  outcome,   \* what the thread returned or raised
  changed,   \* mutations that the thread has made and recorded
  response,  \* what the host gets for the request
  holder,    \* the request that holds the slot and the lease, or None
  journal,   \* requests with mutations that were not acknowledged
  usage,     \* usage lines written for a request
  cancels    \* cancellations delivered (not in the code)

thread == <<worker, outcome, changed, holder>>
vars   == <<task, event, thread, response, journal, usage, cancels>>

Init ==
  /\ task = [r \in Requests |-> "new"]
  /\ event = [r \in Requests |-> FALSE]
  /\ worker = [r \in Requests |-> "none"]
  /\ outcome = [r \in Requests |-> "none"]
  /\ changed = [r \in Requests |-> 0]
  /\ response = [r \in Requests |-> "none"]
  /\ holder = None /\ journal = {}
  /\ usage = [r \in Requests |-> 0]
  /\ cancels = [r \in Requests |-> 0]

Becomes(v, r, x) == [v EXCEPT ![r] = x]

(* The request is answered.                                                *)
Answers(r, what) ==
  /\ task' = Becomes(task, r, "ended") /\ response' = Becomes(response, r, what)

-------------------------------------------------------------------------------
(* The event loop.                                                         *)

(* _prepare_sync_request may refuse; else the thread is asked for.         *)
Request(r) ==
  /\ task[r] = "new"
  /\ \/ /\ task' = Becomes(task, r, "await") /\ worker' = Becomes(worker, r, "queued")
        /\ UNCHANGED response
     \/ Answers(r, "refused") /\ UNCHANGED worker
  /\ UNCHANGED <<event, outcome, changed, holder, journal, usage, cancels>>

Delivered(r) == cancels[r] < MaxCancels /\ cancels' = [cancels EXCEPT ![r] = @ + 1]

(* Fault: the task ends with the first cancellation.                       *)
Cancelled_Unset(r) ==
  /\ task[r] = "await" /\ Delivered(r)
  /\ task' = Becomes(task, r, "again")
  /\ UNCHANGED <<event, thread, response, journal, usage>>

(* The first cancellation interrupts the wait, not the thread, which is    *)
(* told to stop and waited for again.                                      *)
Cancelled(r) ==
  /\ task[r] = "await" /\ Delivered(r)
  /\ event' = Becomes(event, r, TRUE) /\ task' = Becomes(task, r, "again")
  /\ UNCHANGED <<thread, response, journal, usage>>

(* Fault: the slot and the lease go with the request, not with its thread. *)
CancelledAgain_Frees(r) ==
  /\ task[r] = "again" /\ Delivered(r)
  /\ Answers(r, "cancelled") /\ holder' = None
  /\ UNCHANGED <<event, worker, outcome, changed, journal, usage>>

(* The next one interrupts that wait too; the thread is on its own.        *)
CancelledAgain(r) ==
  /\ task[r] = "again" /\ Delivered(r)
  /\ Answers(r, "cancelled")
  /\ UNCHANGED <<event, thread, journal, usage>>

(* _delegate: what the thread came to.  A usage line is written for a      *)
(* result, or that fails.                                                  *)
Resumes(r) ==
  /\ task[r] = "await" /\ worker[r] = "done"
  /\ Answers(r, outcome[r])
  /\ usage' \in IF outcome[r] = "result"
                THEN {usage, [usage EXCEPT ![r] = @ + 1]} ELSE {usage}
  /\ UNCHANGED <<event, thread, journal, cancels>>

(* Fault: a result that came before the cancel is dropped.                 *)
ResumesCancelled_Drops(r) ==
  /\ task[r] = "again" /\ worker[r] = "done"
  /\ Answers(r, IF outcome[r] = "mutations" THEN "mutations" ELSE "cancelled")
  /\ UNCHANGED <<event, thread, journal, usage, cancels>>

(* Fault: a result that came before the cancel is returned.                *)
ResumesCancelled_Returns(r) ==
  /\ task[r] = "again" /\ worker[r] = "done"
  /\ Answers(r, IF outcome[r] \in {"mutations", "result"} THEN outcome[r]
                ELSE "cancelled")
  /\ UNCHANGED <<event, thread, journal, usage, cancels>>

(* The thread of a cancelled request ended: the mutations it made are      *)
(* told, whether it was stopped or had finished before.                    *)
ResumesCancelled(r) ==
  /\ task[r] = "again" /\ worker[r] = "done"
  /\ Answers(r, IF \/ outcome[r] = "mutations"
                   \/ outcome[r] = "result" /\ changed[r] > 0
                THEN "mutations" ELSE "cancelled")
  /\ UNCHANGED <<event, thread, journal, usage, cancels>>

-------------------------------------------------------------------------------
(* The thread.                                                             *)

(* run_sync: the slot, the lease and a journal without records are needed; *)
(* the slot or the lease may also be taken by others.                      *)
WorkerStarts(r) ==
  /\ worker[r] = "queued"
  /\ \/ /\ holder = None /\ journal = {}
        /\ holder' = r /\ worker' = Becomes(worker, r, "running")
        /\ UNCHANGED outcome
     \/ /\ worker' = Becomes(worker, r, "done")
        /\ outcome' = Becomes(outcome, r, "busy") /\ UNCHANGED holder
  /\ UNCHANGED <<task, event, changed, response, journal, usage, cancels>>

(* Fault: the budget of mutations lets one more through.                   *)
WorkerChanges_OneMore(r) ==
  /\ worker[r] = "running" /\ changed[r] <= MaxChanges
  /\ changed' = [changed EXCEPT ![r] = @ + 1] /\ journal' = journal \cup {r}
  /\ UNCHANGED <<task, event, worker, outcome, holder, response, usage, cancels>>

WorkerChanges(r) ==
  /\ worker[r] = "running" /\ changed[r] < MaxChanges
  /\ changed' = [changed EXCEPT ![r] = @ + 1] /\ journal' = journal \cup {r}
  /\ UNCHANGED <<task, event, worker, outcome, holder, response, usage, cancels>>

(* The agent returns or raises, and the slot and the lease are given back. *)
Ends(r, how) ==
  /\ worker' = Becomes(worker, r, "done") /\ outcome' = Becomes(outcome, r, how)
  /\ holder' = None

Failure(r, how) == IF changed[r] > 0 THEN "mutations" ELSE how

WorkerFinishes(r) ==
  /\ worker[r] = "running"
  /\ \E how \in {"result", Failure(r, "error")} : Ends(r, how)
  /\ UNCHANGED <<task, event, changed, response, journal, usage, cancels>>

WorkerStops(r) ==
  /\ worker[r] = "running" /\ event[r]
  /\ Ends(r, Failure(r, "cancelled"))
  /\ UNCHANGED <<task, event, changed, response, journal, usage, cancels>>

(* acknowledge_gpt_mutations, which needs the lease.                       *)
Acknowledge(r) ==
  /\ holder = None /\ r \in journal
  /\ journal' = journal \ {r}
  /\ UNCHANGED <<task, event, thread, response, usage, cancels>>

-------------------------------------------------------------------------------
Next == \E r \in Requests :
  \/ Request(r) \/ Cancelled(r) \/ CancelledAgain(r) \/ Resumes(r)
  \/ ResumesCancelled(r) \/ WorkerStarts(r) \/ WorkerChanges(r)
  \/ WorkerFinishes(r) \/ WorkerStops(r) \/ Acknowledge(r)

Spec == Init /\ [][Next]_vars

-------------------------------------------------------------------------------
(* Properties.                                                             *)

TypeOK ==
  /\ task \in [Requests -> {"new", "await", "again", "ended"}]
  /\ event \in [Requests -> BOOLEAN]
  /\ worker \in [Requests -> {"none", "queued", "running", "done"}]
  /\ outcome \in [Requests -> {"none", "result", "busy", "error", "cancelled",
                               "mutations"}]
  /\ changed \in [Requests -> 0 .. MaxChanges]
  /\ response \in [Requests -> {"none", "refused", "result", "busy", "error",
                                "cancelled", "mutations"}]
  /\ holder \in Requests \cup {None}
  /\ journal \subseteq {r \in Requests : changed[r] > 0}
  /\ usage \in [Requests -> 0 .. 1] /\ cancels \in [Requests -> 0 .. MaxCancels]

(* A request whose cancellation was delivered once is never answered as if *)
(* nothing had happened when its thread has changed files, whichever came  *)
(* first, the change, the result or the cancel (server.py:303-323).        *)
ChangesTold == \A r \in Requests :
  response[r] \in {"cancelled", "error", "busy"} /\ cancels[r] <= 1 => changed[r] = 0

(* A request that was cancelled does not return a result, and nothing is   *)
(* entered for it into the usage log (server.py:325-353).                  *)
NoResultAfterCancel == \A r \in Requests :
  event[r] => response[r] # "result" /\ usage[r] = 0

(* A thread that nobody waits for any more still keeps others out of the   *)
(* workspace while it runs, and its changes are still there to be reviewed *)
(* before anything else is begun (job_manager.py:219-243).                 *)
DetachedKeepsOut == \A r \in Requests :
  worker[r] = "running" => holder = r /\ journal \subseteq {r}

(* A cancelled request comes to an end, and so does its thread, which      *)
(* gives the slot and the lease back (server.py:287-296).                  *)
CancelFrees == \A r \in Requests :
  task[r] = "again" ~> task[r] = "ended" /\ worker[r] # "running"
================================================================================
