------------------------------ MODULE JobManager ------------------------------
(***************************************************************************)
(* The in-memory job manager of one gpt-as-subagent server:                *)
(* src/gpt-as-subagent/src/gpt_mcp/job_manager.py, with the control points *)
(* of agent_loop.py through which a worker thread reads its mailbox and    *)
(* its cancellation event, and the usage bookkeeping of server.py.         *)
(*                                                                         *)
(* Threads.  Callers run the manager's methods under its lock; a worker    *)
(* thread per job takes that lock only to begin and to finish, and reads   *)
(* its mailbox (under the mailbox's own lock) and its cancel event without *)
(* it.  So a method is one action, except where a worker can see the       *)
(* middle of it: Cancel sets the event and then closes the mailbox, and    *)
(* _finish_job frees the workspace lease before it commits the status.     *)
(*                                                                         *)
(* Data.  A message is its size, a mailbox its length and its bytes.  The  *)
(* workspace lease is its holder; other servers take it too (OtherServer). *)
(***************************************************************************)
EXTENDS Integers, FiniteSets

CONSTANTS Jobs,         \* job ids, each drawn once (uuid4)
          Callers,      \* threads inside run_sync
          NoOne,        \* no active job, no lease holder, no method half done
          OtherServer,  \* another process on the same workspace
          MaxRetained,  \* MAX_RETAINED_JOBS
          MaxQueued,    \* MAX_QUEUED_MESSAGES
          MaxBytes,     \* MAX_QUEUED_MESSAGE_BYTES
          Sizes,        \* sizes of steering messages, in bytes
          MaxTurns,     \* config.max_turns
          MaxBatch      \* MAX_TOOL_CALLS_PER_TURN

ASSUME IdAssumption ==
  /\ Jobs \cap Callers = {}
  /\ NoOne \notin Jobs \cup Callers
  /\ OtherServer \notin Jobs \cup Callers \cup {NoOne}
ASSUME BoundAssumption ==
  /\ MaxRetained \in Nat \ {0} /\ MaxQueued \in Nat \ {0}
  /\ MaxBytes \in Nat \ {0}
  /\ MaxTurns \in Nat \ {0} /\ MaxBatch \in Nat \ {0}
ASSUME SizeAssumption == Sizes \subseteq Nat \ {0}
ASSUME FiniteAssumption == IsFiniteSet(Jobs)

VARIABLES
  status,       \* JobRecord.status; "unused" before start, "pruned" once popped
  cancelEvent,  \* JobRecord.cancel_event
  box,          \* the steering mailbox
  unread,       \* messages acknowledged to senders and not shown to the agent
  result,       \* JobRecord.result of a completed job
  error,        \* JobRecord.error: what a failed or cancelled job tells
  usage,        \* usage_recording and usage_recorded
  usageLines,   \* lines written to the usage log for the job
  finishedAt,   \* JobRecord.finished_at
  clock,        \* time.time() at the last commit, as a count of commits
  active,       \* _active_job_id
  syncActive,   \* _sync_active
  syncRuns,     \* callers whose run_agent is executing
  closing,      \* the job whose cancel holds the manager lock half way
  lease,        \* holder of the workspace execution lease
  unacked,      \* the workspace journal holds unacknowledged mutations
  pc,           \* where the worker thread stands
  turn,         \* turns the worker has used
  batch,        \* tool calls of this turn still to run
  outcome,      \* _JobOutcome.status of the finished agent
  report,       \* the rest of its _JobOutcome: result, error and the mark that
                \* the error lists mutation records (preserve_mutation_error)
  mutated       \* the agent's run has mutation records

jobVars    == <<status, cancelEvent, box, unread, result, error>>
usageVars  == <<usage, usageLines>>
retainVars == <<finishedAt, clock>>
slotVars   == <<active, syncActive, syncRuns>>
workerVars == <<pc, turn, batch, outcome, report, mutated>>
vars == <<jobVars, usageVars, retainVars, slotVars, closing, lease, unacked,
          workerVars>>

Terminal   == {"completed", "failed", "cancelled"}
Live       == {"queued", "running"}
Statuses   == Live \cup Terminal \cup {"unused", "pruned"}
(* Where a worker thread can be inside run_agent.                          *)
AgentSteps == {"turn", "poll", "request", "answer", "plan", "tool"}
WorkerPC   == AgentSteps \cup {"none", "spawned", "stopped", "commit", "exited"}

Mailbox == [accepting : BOOLEAN, count : Nat, bytes : Nat]

(* What a result and an error text tell of the run: "records" is one that  *)
(* lists the mutations.                                                    *)
Results  == {"none", "plain", "records"}
Errors   == {"none", "reason", "cancelled", "records"}
Report   == [result : Results, error : Errors, preserve : BOOLEAN]
NoReport == [result |-> "none", error |-> "none", preserve |-> FALSE]

-------------------------------------------------------------------------------
(* The mailbox: queue_message, drain_messages, close_messages.             *)

EmptyBox  == [accepting |-> TRUE, count |-> 0, bytes |-> 0]
ClosedBox == [accepting |-> FALSE, count |-> 0, bytes |-> 0]

CanQueue(b, size) ==
  /\ b.accepting
  /\ b.count < MaxQueued
  /\ b.bytes + size <= MaxBytes

Queue(b, size) == [accepting |-> b.accepting, count |-> b.count + 1,
                    bytes |-> b.bytes + size]

(* Fault: an empty mailbox is left open when the answer is returned.       *)
Drain_NeverSeals(b, finalizeIfEmpty) ==
  IF b.count > 0 THEN [b EXCEPT !.count = 0, !.bytes = 0] ELSE b

Drain(b, finalizeIfEmpty) ==
  IF b.count > 0 THEN [b EXCEPT !.count = 0, !.bytes = 0]
  ELSE IF finalizeIfEmpty THEN [b EXCEPT !.accepting = FALSE]
  ELSE b

(* What the worker is shown when it drains.                                *)
ReadBox(j, finalizeIfEmpty) ==
  /\ box' = [box EXCEPT ![j] = Drain(@, finalizeIfEmpty)]
  /\ unread' = [unread EXCEPT ![j] = @ - box[j].count]

-------------------------------------------------------------------------------
(* The manager lock is held across steps only by a half done cancel and by *)
(* a worker between its two finishing steps.                               *)
LockFree == closing = NoOne /\ \A j \in Jobs : pc[j] # "commit"

(* _ensure_slot_available_locked                                           *)
SlotAvailable ==
  /\ ~syncActive
  /\ active # NoOne => status[active] \in Terminal

(* _acquire_ready_workspace_lease_locked: the lease is free and, once      *)
(* taken, the journal holds nothing unacknowledged.                        *)
LeaseReady == lease = NoOne /\ ~unacked

(* _prune_locked: of the finished jobs whose usage is not being written,   *)
(* the newest MaxRetained - 1 stay.                                        *)
(* Faults: a job whose usage is being written can be pruned; the newest    *)
(* jobs go first.                                                          *)
Prunable_All == {j \in Jobs : status[j] \in Terminal}
Prunable == {j \in Jobs : status[j] \in Terminal /\ usage[j] # "recording"}
Newer_Older(j) == {k \in Prunable : finishedAt[k] < finishedAt[j]}
Newer(j) == {k \in Prunable : finishedAt[k] > finishedAt[j]}
Victims  == {j \in Prunable : Cardinality(Newer(j)) >= MaxRetained - 1}

Init ==
  /\ status = [j \in Jobs |-> "unused"]
  /\ cancelEvent = [j \in Jobs |-> FALSE]
  /\ box = [j \in Jobs |-> EmptyBox]
  /\ unread = [j \in Jobs |-> 0]
  /\ result = [j \in Jobs |-> "none"] /\ error = [j \in Jobs |-> "none"]
  /\ usage = [j \in Jobs |-> "none"] /\ usageLines = [j \in Jobs |-> 0]
  /\ finishedAt = [j \in Jobs |-> 0] /\ clock = 0
  /\ active = NoOne /\ syncActive = FALSE /\ syncRuns = {}
  /\ closing = NoOne /\ lease = NoOne /\ unacked \in BOOLEAN
  /\ pc = [j \in Jobs |-> "none"]
  /\ turn = [j \in Jobs |-> 0] /\ batch = [j \in Jobs |-> 0]
  /\ outcome = [j \in Jobs |-> "none"] /\ report = [j \in Jobs |-> NoReport]
  /\ mutated = [j \in Jobs |-> FALSE]

-------------------------------------------------------------------------------
(* Methods of the manager.                                                 *)

(* start, when the slot, the lease and the thread are all to be had.       *)
Start(j) ==
  /\ LockFree /\ SlotAvailable /\ LeaseReady
  /\ status[j] = "unused"
  /\ status' = [[k \in Jobs |-> IF k \in Victims THEN "pruned" ELSE status[k]]
                 EXCEPT ![j] = "queued"]
  /\ active' = j /\ lease' = j
  /\ pc' = [pc EXCEPT ![j] = "spawned"]
  /\ UNCHANGED <<cancelEvent, box, unread, result, error, usageVars, retainVars,
                 syncActive, syncRuns, closing, unacked, turn, batch, outcome,
                 report, mutated>>

(* start, when the slot is free but the lease is taken, the journal is not *)
(* empty or the thread cannot be created: the job is popped, the lease     *)
(* freed, and only the stale slot has been cleared.                        *)
StartFails ==
  /\ LockFree /\ SlotAvailable
  /\ active' = NoOne
  /\ UNCHANGED <<jobVars, usageVars, retainVars, syncActive, syncRuns, closing,
                 lease, unacked, workerVars>>

RunSync(c) ==
  /\ LockFree /\ SlotAvailable /\ LeaseReady
  /\ c \notin syncRuns
  /\ active' = NoOne /\ syncActive' = TRUE /\ syncRuns' = syncRuns \cup {c}
  /\ lease' = c
  /\ UNCHANGED <<jobVars, usageVars, retainVars, closing, unacked, workerVars>>

(* The agent of a synchronous run changes a file of the workspace.         *)
SyncMutates(c) ==
  /\ c \in syncRuns
  /\ unacked' = TRUE
  /\ UNCHANGED <<jobVars, usageVars, retainVars, slotVars, closing, lease,
                 workerVars>>

(* Fault: the finally clause forgets the lease.                            *)
RunSyncEnds_KeepsLease(c) ==
  /\ LockFree
  /\ c \in syncRuns
  /\ syncActive' = FALSE /\ syncRuns' = syncRuns \ {c}
  /\ UNCHANGED <<jobVars, usageVars, retainVars, active, closing, lease, unacked,
                 workerVars>>

(* The finally clause of run_sync, however run_agent ended.                *)
RunSyncEnds(c) ==
  /\ LockFree
  /\ c \in syncRuns
  /\ lease' = IF lease = c THEN NoOne ELSE lease
  /\ syncActive' = FALSE /\ syncRuns' = syncRuns \ {c}
  /\ UNCHANGED <<jobVars, usageVars, retainVars, active, closing, unacked,
                 workerVars>>

SendMessage(j, size) ==
  /\ LockFree
  /\ status[j] \in Live
  /\ CanQueue(box[j], size)
  /\ box' = [box EXCEPT ![j] = Queue(@, size)]
  /\ unread' = [unread EXCEPT ![j] = @ + 1]
  /\ UNCHANGED <<status, cancelEvent, result, error, usageVars, retainVars,
                 slotVars, closing, lease, unacked, workerVars>>

(* cancel: the event first, the mailbox second, the lock held throughout.  *)
Cancel(j) ==
  /\ LockFree
  /\ status[j] \in Live
  /\ ~cancelEvent[j]
  /\ cancelEvent' = [cancelEvent EXCEPT ![j] = TRUE]
  /\ closing' = j
  /\ UNCHANGED <<status, box, unread, result, error, usageVars, retainVars,
                 slotVars, lease, unacked, workerVars>>

(* Fault: an accepted cancellation frees the lease at once.                *)
CancelCloses_FreesLease(j) ==
  /\ closing = j
  /\ box' = [box EXCEPT ![j] = ClosedBox]
  /\ closing' = NoOne
  /\ lease' = NoOne
  /\ UNCHANGED <<status, cancelEvent, unread, result, error, usageVars,
                 retainVars, slotVars, unacked, workerVars>>

CancelCloses(j) ==
  /\ closing = j
  /\ box' = [box EXCEPT ![j] = ClosedBox]
  /\ closing' = NoOne
  /\ UNCHANGED <<status, cancelEvent, unread, result, error, usageVars,
                 retainVars, slotVars, lease, unacked, workerVars>>

(* result_with_usage_claim, when it claims.                                *)
ClaimUsage(j) ==
  /\ LockFree
  /\ status[j] = "completed" /\ usage[j] = "none"
  /\ usage' = [usage EXCEPT ![j] = "recording"]
  /\ UNCHANGED <<jobVars, usageLines, retainVars, slotVars, closing, lease,
                 unacked, workerVars>>

(* get_gpt_result writes the line, or fails to, between claim and          *)
(* finish_usage_record; a failed write frees the claim for a later retry.  *)
FinishUsageRecord(j, persisted) ==
  /\ LockFree
  /\ usage[j] = "recording"
  /\ usage' = [usage EXCEPT ![j] = IF persisted THEN "recorded" ELSE "none"]
  /\ usageLines' = [usageLines EXCEPT ![j] = IF persisted THEN @ + 1 ELSE @]
  /\ UNCHANGED <<jobVars, retainVars, slotVars, closing, lease, unacked,
                 workerVars>>

-------------------------------------------------------------------------------
(* The worker thread.                                                      *)

(* The head of _run_job.                                                   *)
RunJob(j) ==
  /\ LockFree
  /\ pc[j] = "spawned"
  /\ status' = [status EXCEPT ![j] = "running"]
  /\ pc' = [pc EXCEPT ![j] = "turn"]
  /\ UNCHANGED <<cancelEvent, box, unread, result, error, usageVars, retainVars,
                 slotVars, closing, lease, unacked, turn, batch, outcome,
                 report, mutated>>

(* The agent's result: _build_result puts the records of its mutations     *)
(* into it.                                                                *)
Returned(recorded) ==
  [result |-> IF recorded THEN "records" ELSE "plain",
   error |-> "none", preserve |-> FALSE]

(* The exception that ends the agent.  With mutation records it becomes    *)
(* one that lists them (_raise_with_mutation_records, as does an unclean   *)
(* tool call: _interrupted_error), and only that one is marked to be kept; *)
(* without, its text is that of a cancellation or another reason.          *)
Raised(why, recorded) ==
  [result |-> "none", error |-> IF recorded THEN "records" ELSE why,
   preserve |-> recorded]

(* run_agent hands its outcome to _finish_job; its locals are gone.        *)
Stop(j, how, what) ==
  /\ pc' = [pc EXCEPT ![j] = "stopped"]
  /\ outcome' = [outcome EXCEPT ![j] = how]
  /\ report' = [report EXCEPT ![j] = what]
  /\ turn' = [turn EXCEPT ![j] = 0] /\ batch' = [batch EXCEPT ![j] = 0]

(* _check_cancel, where it stands: before a turn's poll, after the         *)
(* provider's answer, before a tool and, as pc is then "plan" or "turn",   *)
(* after one.                                                              *)
SeeCancel(j) ==
  /\ pc[j] \in {"turn", "request", "plan"}
  /\ cancelEvent[j]
  /\ Stop(j, "cancelled", Raised("cancelled", mutated[j]))
  /\ UNCHANGED <<jobVars, usageVars, retainVars, slotVars, closing, lease,
                 unacked, mutated>>

(* A deadline, a budget or the provider ends the run.                      *)
AgentFails(j) ==
  /\ pc[j] \in {"turn", "request", "plan"}
  /\ Stop(j, "failed", Raised("reason", mutated[j]))
  /\ UNCHANGED <<jobVars, usageVars, retainVars, slotVars, closing, lease,
                 unacked, mutated>>

TurnBegins(j) ==
  /\ pc[j] = "turn"
  /\ turn[j] < MaxTurns
  /\ ~cancelEvent[j]
  /\ pc' = [pc EXCEPT ![j] = "poll"]
  /\ turn' = [turn EXCEPT ![j] = @ + 1]
  /\ UNCHANGED <<jobVars, usageVars, retainVars, slotVars, closing, lease,
                 unacked, batch, outcome, report, mutated>>

TurnPolls(j) ==
  /\ pc[j] = "poll"
  /\ ReadBox(j, FALSE)
  /\ pc' = [pc EXCEPT ![j] = "request"]
  /\ UNCHANGED <<status, cancelEvent, result, error, usageVars, retainVars,
                 slotVars, closing, lease, unacked, turn, batch, outcome,
                 report, mutated>>

(* The provider answers with a final message or with tool calls.           *)
ProviderAnswers(j) ==
  /\ pc[j] = "request"
  /\ ~cancelEvent[j]
  /\ \/ /\ pc' = [pc EXCEPT ![j] = "answer"]
        /\ UNCHANGED batch
     \/ /\ pc' = [pc EXCEPT ![j] = "plan"]
        /\ \E n \in 1..MaxBatch : batch' = [batch EXCEPT ![j] = n]
  /\ UNCHANGED <<jobVars, usageVars, retainVars, slotVars, closing, lease,
                 unacked, turn, outcome, report, mutated>>

(* Fault: a turn whose answer was superseded is not counted.               *)
FinalizeOrSteer_FreeTurn(j) ==
  /\ pc[j] = "answer"
  /\ ReadBox(j, TRUE)
  /\ IF box[j].count > 0
     THEN /\ pc' = [pc EXCEPT ![j] = "turn"]
          /\ turn' = [turn EXCEPT ![j] = @ - 1]
          /\ UNCHANGED <<outcome, report, batch>>
     ELSE Stop(j, "completed", Returned(mutated[j]))
  /\ UNCHANGED <<status, cancelEvent, result, error, usageVars, retainVars,
                 slotVars, closing, lease, unacked, mutated>>

(* _finalize_or_steer: an empty mailbox is closed and the answer returned; *)
(* otherwise the agent is shown the messages and takes another turn.       *)
FinalizeOrSteer(j) ==
  /\ pc[j] = "answer"
  /\ ReadBox(j, TRUE)
  /\ IF box[j].count > 0
     THEN /\ pc' = [pc EXCEPT ![j] = "turn"]
          /\ UNCHANGED <<outcome, report, turn, batch>>
     ELSE Stop(j, "completed", Returned(mutated[j]))
  /\ UNCHANGED <<status, cancelEvent, result, error, usageVars, retainVars,
                 slotVars, closing, lease, unacked, mutated>>

(* _execute_planned_tools before a tool: messages skip the planned tools.  *)
PlanPolls(j) ==
  /\ pc[j] = "plan"
  /\ ReadBox(j, FALSE)
  /\ IF box[j].count > 0
     THEN /\ pc' = [pc EXCEPT ![j] = "turn"]
          /\ batch' = [batch EXCEPT ![j] = 0]
     ELSE /\ pc' = [pc EXCEPT ![j] = "tool"]
          /\ UNCHANGED batch
  /\ UNCHANGED <<status, cancelEvent, result, error, usageVars, retainVars,
                 slotVars, closing, lease, unacked, turn, outcome, report,
                 mutated>>

(* One tool runs; it may change the workspace, which leaves a record in    *)
(* the run and in the journal.  The next tool is preceded by another poll. *)
ToolRuns(j) ==
  /\ pc[j] = "tool"
  /\ \E changed \in BOOLEAN :
       /\ mutated' = [mutated EXCEPT ![j] = @ \/ changed]
       /\ unacked' = (unacked \/ changed)
  /\ batch' = [batch EXCEPT ![j] = @ - 1]
  /\ pc' = [pc EXCEPT ![j] = IF batch[j] > 1 THEN "plan" ELSE "turn"]
  /\ UNCHANGED <<jobVars, usageVars, retainVars, slotVars, closing, lease,
                 turn, outcome, report>>

(* A tool's call ends the run: it is cancelled or out of time while the    *)
(* tool runs (_wait_for_tool), or the tool or its cleanup fails; what the  *)
(* tool has changed by then is recorded first (_complete_tool_call).       *)
ToolFails(j) ==
  /\ pc[j] = "tool"
  /\ \E changed \in BOOLEAN :
       /\ mutated' = [mutated EXCEPT ![j] = @ \/ changed]
       /\ unacked' = (unacked \/ changed)
       /\ \/ /\ cancelEvent[j]
             /\ Stop(j, "cancelled", Raised("cancelled", mutated[j] \/ changed))
          \/ Stop(j, "failed", Raised("reason", mutated[j] \/ changed))
  /\ UNCHANGED <<jobVars, usageVars, retainVars, slotVars, closing, lease>>

(* _finish_job, first half: under the lock, the lease goes first.          *)
FinishReleases(j) ==
  /\ LockFree
  /\ pc[j] = "stopped"
  /\ lease' = IF lease = j THEN NoOne ELSE lease
  /\ pc' = [pc EXCEPT ![j] = "commit"]
  /\ UNCHANGED <<jobVars, usageVars, retainVars, slotVars, closing, unacked,
                 turn, batch, outcome, report, mutated>>

(* Fault: only the agent's own outcome counts, not an event set since.     *)
CancellationWon_OutcomeOnly(j) == outcome[j] = "cancelled"

CancellationWon(j) == cancelEvent[j] \/ outcome[j] = "cancelled"

(* Faults: the records of a result that the cancellation overrules are     *)
(* dropped with it; so is an error that lists records.                     *)
CancelledError_DropsResult(j) ==
  IF report[j].preserve THEN report[j].error
  ELSE IF outcome[j] = "cancelled" THEN report[j].error ELSE "cancelled"
CancelledError_DropsError(j) ==
  IF report[j].result = "records" THEN "records"
  ELSE IF outcome[j] = "cancelled" THEN report[j].error ELSE "cancelled"

(* _apply_cancelled_outcome: the error is built again from the records of  *)
(* an overruled result, kept when it lists records, and otherwise only     *)
(* says that the job was cancelled.                                        *)
CancelledError(j) ==
  IF report[j].result = "records" THEN "records"
  ELSE IF report[j].preserve THEN report[j].error
  ELSE IF outcome[j] = "cancelled" THEN report[j].error ELSE "cancelled"

(* _finish_job, second half.                                               *)
FinishCommits(j) ==
  /\ pc[j] = "commit"
  /\ status' = [status EXCEPT
                  ![j] = IF CancellationWon(j) THEN "cancelled" ELSE outcome[j]]
  /\ cancelEvent' = [cancelEvent EXCEPT ![j] = @ \/ CancellationWon(j)]
  /\ IF CancellationWon(j)
     THEN /\ result' = [result EXCEPT ![j] = "none"]
          /\ error' = [error EXCEPT ![j] = CancelledError(j)]
     ELSE /\ result' = [result EXCEPT ![j] = IF outcome[j] = "completed"
                                              THEN report[j].result ELSE "none"]
          /\ error' = [error EXCEPT ![j] = report[j].error]
  /\ box' = [box EXCEPT ![j] = ClosedBox]
  /\ clock' = clock + 1
  /\ finishedAt' = [finishedAt EXCEPT ![j] = clock']
  /\ active' = IF active = j THEN NoOne ELSE active
  /\ pc' = [pc EXCEPT ![j] = "exited"]
  /\ outcome' = [outcome EXCEPT ![j] = "none"]
  /\ report' = [report EXCEPT ![j] = NoReport]
  /\ UNCHANGED <<unread, usageVars, syncActive, syncRuns, closing, lease,
                 unacked, turn, batch, mutated>>

-------------------------------------------------------------------------------
(* Other processes on the workspace.                                       *)

OtherTakesLease ==
  /\ LeaseReady
  /\ lease' = OtherServer
  /\ UNCHANGED <<jobVars, usageVars, retainVars, slotVars, closing, unacked,
                 workerVars>>

OtherFreesLease ==
  /\ lease = OtherServer
  /\ lease' = NoOne
  /\ \E changed \in BOOLEAN : unacked' = (unacked \/ changed)
  /\ UNCHANGED <<jobVars, usageVars, retainVars, slotVars, closing, workerVars>>

(* acknowledge_with_lease, which holds the lease for its whole duration.   *)
AcknowledgeMutations ==
  /\ lease = NoOne
  /\ unacked' = FALSE
  /\ UNCHANGED <<jobVars, usageVars, retainVars, slotVars, closing, lease,
                 workerVars>>

-------------------------------------------------------------------------------
(* A worker's own steps; each is taken whatever the callers do.            *)
Worker(j) ==
  \/ RunJob(j) \/ SeeCancel(j) \/ AgentFails(j) \/ TurnBegins(j)
  \/ TurnPolls(j) \/ ProviderAnswers(j) \/ FinalizeOrSteer(j) \/ PlanPolls(j)
  \/ ToolRuns(j) \/ ToolFails(j) \/ FinishReleases(j) \/ FinishCommits(j)

Methods(j) ==
  \/ Start(j) \/ Cancel(j) \/ CancelCloses(j) \/ ClaimUsage(j)
  \/ \E size \in Sizes : SendMessage(j, size)
  \/ \E persisted \in BOOLEAN : FinishUsageRecord(j, persisted)

Sync(c) == RunSync(c) \/ SyncMutates(c) \/ RunSyncEnds(c)

Next ==
  \/ \E j \in Jobs : Worker(j) \/ Methods(j)
  \/ \E c \in Callers : Sync(c)
  \/ StartFails \/ OtherTakesLease \/ OtherFreesLease \/ AcknowledgeMutations

Spec == Init /\ [][Next]_vars

(* Threads are scheduled and a method that holds the lock finishes; nobody *)
(* is obliged to call anything.                                            *)
Fairness == \A j \in Jobs : WF_vars(Worker(j)) /\ WF_vars(CancelCloses(j))

FairSpec == Spec /\ Fairness

-------------------------------------------------------------------------------
(* Properties.                                                             *)

TypeOK ==
  /\ status \in [Jobs -> Statuses]
  /\ cancelEvent \in [Jobs -> BOOLEAN]
  /\ box \in [Jobs -> Mailbox]
  /\ unread \in [Jobs -> Int]
  /\ result \in [Jobs -> Results] /\ error \in [Jobs -> Errors]
  /\ usage \in [Jobs -> {"none", "recording", "recorded"}]
  /\ usageLines \in [Jobs -> Nat]
  /\ finishedAt \in [Jobs -> Nat] /\ clock \in Nat
  /\ active \in Jobs \cup {NoOne}
  /\ syncActive \in BOOLEAN /\ syncRuns \in SUBSET Callers
  /\ closing \in Jobs \cup {NoOne}
  /\ lease \in Jobs \cup Callers \cup {NoOne, OtherServer}
  /\ unacked \in BOOLEAN
  /\ pc \in [Jobs -> WorkerPC]
  /\ turn \in [Jobs -> Nat] /\ batch \in [Jobs -> Int]
  /\ outcome \in [Jobs -> Terminal \cup {"none"}] /\ report \in [Jobs -> Report]
  /\ mutated \in [Jobs -> BOOLEAN]

(* Whoever is executing an agent.                                          *)
Executing == {j \in Jobs : pc[j] \in AgentSteps} \cup syncRuns

(* One agent at a time works on the workspace, across background jobs,     *)
(* synchronous runs and other servers: an executing agent is the holder of *)
(* the lease (job_manager.py:3-5).                                         *)
ExecutionHoldsLease == \A e \in Executing : lease = e

(* The lease never outlives the run it was taken for: a holder in this     *)
(* process is the occupant of its slot (the finally clauses of run_sync    *)
(* and _finish_job, and the failure path of start).                        *)
LeaseHasOwner ==
  /\ lease \in Jobs => active = lease /\ status[lease] \in Live
  /\ lease \in Callers => syncActive /\ lease \in syncRuns

(* The lease is with whoever executes an agent, and with nobody else of    *)
(* this process.                                                           *)
LeaseKept == ExecutionHoldsLease /\ LeaseHasOwner

(* A steering message that was acknowledged to its sender was shown to the *)
(* agent before the agent's answer became the result                       *)
(* (drain_messages, job_manager.py:119-122).                               *)
NoSteeringLost == \A j \in Jobs : status[j] = "completed" => unread[j] = 0

(* An accepted cancellation wins over any result the agent was about to    *)
(* commit (server.py:423-424), and no job is cancelled unasked.            *)
CancellationWins ==
  \A j \in Jobs : status[j] \in Terminal =>
                    (cancelEvent[j] <=> status[j] = "cancelled")

(* A finished job tells of the mutations of its run exactly when there are *)
(* any: a completed one in its result, a failed or cancelled one in its    *)
(* error, also when a cancellation overrules a result or an error that     *)
(* listed them; a cancelled job's error never gives another reason         *)
(* (_apply_cancelled_outcome, _finish_job).                                *)
MutationsDisclosed ==
  \A j \in Jobs : status[j] \in Terminal =>
    /\ mutated[j] <=> "records" \in {result[j], error[j]}
    /\ status[j] = "cancelled" => error[j] \in {"cancelled", "records"}

(* The byte count of the mailbox follows its messages: it is zero exactly  *)
(* when there are none, so the byte limit cannot refuse an empty mailbox,  *)
(* and a closed mailbox keeps nothing.                                     *)
MailboxAccounting ==
  \A j \in Jobs : /\ box[j].bytes = 0 <=> box[j].count = 0
                  /\ ~box[j].accepting => box[j].count = 0
                  /\ box[j].count <= MaxQueued /\ box[j].bytes <= MaxBytes

(* What was accepted is delivered, and what is accepted is within limits.  *)
SteeringKept == NoSteeringLost /\ MailboxAccounting

(* A job whose usage line is being written is still in the table when the  *)
(* writer reports back, and at most one line is ever written for it.       *)
UsageRecordedOnce ==
  \A j \in Jobs : /\ usage[j] = "recording" => status[j] = "completed"
                  /\ usageLines[j] <= 1

(* A finished job never changes status again, except that the start of     *)
(* another job may drop it, and then only if at least MaxRetained - 1 jobs *)
(* that finished later stay (job_manager.py:277-280).                      *)
ResultRetained(j) ==
  status[j] \in Terminal /\ status'[j] # status[j] =>
    /\ status'[j] = "pruned"
    /\ \E k \in Jobs : status[k] = "unused" /\ status'[k] = "queued"
    /\ Cardinality({k \in Jobs : /\ status'[k] \in Terminal
                                 /\ finishedAt[k] > finishedAt[j]}) >= MaxRetained - 1

(* The table is bounded: a successful start leaves fewer than MaxRetained  *)
(* finished jobs, not counting those whose usage is being written.         *)
TableBounded(j) ==
  status[j] = "unused" /\ status'[j] = "queued" =>
    Cardinality({k \in Jobs : /\ status'[k] \in Terminal
                             /\ usage'[k] # "recording"}) < MaxRetained

(* The table keeps the latest results, and no more than it should.         *)
RetentionRight == [][\A j \in Jobs : ResultRetained(j) /\ TableBounded(j)]_vars

(* Every started job ends, and an accepted cancellation ends its job       *)
(* cancelled, also when messages arrive for ever: a sender may refill the  *)
(* mailbox whenever the agent has read it (the turn count of run_agent).   *)
JobsEnd == \A j \in Jobs : status[j] \in Live ~> status[j] \notin Live
CancelTakesEffect ==
  \A j \in Jobs : cancelEvent[j] ~> status[j] \in {"cancelled", "pruned"}

-------------------------------------------------------------------------------
(* The manager keeps the promise of SteerableJobs.                         *)

PhaseOf(j) ==
  CASE status[j] \in Live /\ cancelEvent[j] -> "cancelling"
    [] status[j] \in Live /\ ~cancelEvent[j] -> "active"
    [] status[j] = "unused" -> "none"
    [] status[j] = "pruned" -> "forgotten"
    [] OTHER -> status[j]

Promise == INSTANCE SteerableJobs
             WITH phase <- [j \in Jobs |-> PhaseOf(j)],
                  owed  <- [j \in Jobs |-> box[j].count]

(* Every behaviour of the manager is one SteerableJobs allows.             *)
KeepsPromise == Promise!Spec
===============================================================================
