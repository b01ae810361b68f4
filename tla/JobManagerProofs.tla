--------------------------- MODULE JobManagerProofs ---------------------------
(***************************************************************************)
(* Proofs that the safety invariants of JobManager hold for every number   *)
(* of jobs and callers and every bound.  None is inductive by itself: each *)
(* needs to know where the worker of a job is when its status, its mailbox *)
(* or the lease changes.  The strengthening is IInv below.  The retention  *)
(* of finished jobs, an action property, is at the end.                    *)
(***************************************************************************)
EXTENDS MCJobManager, FiniteSetTheorems, WellFoundedInduction, TLAPS

(* From the acquisition in start to the release in _finish_job.            *)
LeasePC == AgentSteps \cup {"spawned", "stopped"}

(* The status a caller reads follows the worker's position.                *)
StatusFollowsWorker ==
  \A j \in Jobs :
    /\ status[j] = "unused" <=> pc[j] = "none"
    /\ status[j] = "queued" <=> pc[j] = "spawned"
    /\ status[j] = "running" <=> pc[j] \in AgentSteps \cup {"stopped", "commit"}

(* The slot is the unfinished job or the synchronous run, never both.      *)
SlotInv ==
  /\ \A j \in Jobs : status[j] \in Live => active = j /\ ~syncActive
  /\ active # NoOne => status[active] \in Live
  /\ syncActive <=> syncRuns # {}

(* Holding the lease and being where it is held are the same.              *)
LeaseInv ==
  /\ \A j \in Jobs : pc[j] \in LeasePC <=> lease = j
  /\ \A c \in Callers : c \in syncRuns <=> lease = c

(* Where the messages are: until a cancellation, what was accepted and not *)
(* shown is in the mailbox; a completed run has closed an empty mailbox,   *)
(* and so has a cancellation once it let go of the manager lock.           *)
SteeringInv ==
  \A j \in Jobs :
    /\ status[j] = "unused" =>
         box[j].count = 0 /\ unread[j] = 0 /\ ~cancelEvent[j]
    /\ status[j] \in Live /\ ~cancelEvent[j] => unread[j] = box[j].count
    /\ outcome[j] = "completed" => ~box[j].accepting
    /\ status[j] \in Live /\ cancelEvent[j] /\ closing # j => ~box[j].accepting

OutcomeInv ==
  \A j \in Jobs :
    /\ pc[j] \in {"stopped", "commit"} <=> outcome[j] # "none"
    /\ outcome[j] = "cancelled" => cancelEvent[j]
    /\ closing = j => cancelEvent[j] /\ status[j] \in Live /\ pc[j] # "commit"

(* The outcome of a stopped agent tells of its mutations: a result lists   *)
(* them, and an error that does is marked to be kept.                      *)
ReportInv ==
  \A j \in Jobs :
    /\ outcome[j] = "completed" => report[j] = Returned(mutated[j])
    /\ outcome[j] = "failed" => report[j] = Raised("reason", mutated[j])
    /\ outcome[j] = "cancelled" => report[j] = Raised("cancelled", mutated[j])

UsageInv ==
  \A j \in Jobs :
    /\ usage[j] # "none" => status[j] \in {"completed", "pruned"}
    /\ usageLines[j] = IF usage[j] = "recorded" THEN 1 ELSE 0

IInv ==
  /\ TypeOK
  /\ StatusFollowsWorker /\ SlotInv /\ LeaseInv
  /\ SteeringInv /\ OutcomeInv /\ ReportInv /\ UsageInv
  /\ NoSteeringLost /\ CancellationWins /\ MutationsDisclosed
  /\ MailboxAccounting /\ UsageRecordedOnce

-------------------------------------------------------------------------------
LEMMA InitEstablishes == Init => IInv
<1> SUFFICES ASSUME Init PROVE IInv
  OBVIOUS
<1> USE IdAssumption DEF Init
<1>1. TypeOK
  <2>1. box \in [Jobs -> Mailbox]
    BY DEF Mailbox, EmptyBox
  <2>2. /\ status \in [Jobs -> Statuses] /\ pc \in [Jobs -> WorkerPC]
        /\ outcome \in [Jobs -> Terminal \cup {"none"}]
        /\ report \in [Jobs -> Report]
        /\ result \in [Jobs -> Results] /\ error \in [Jobs -> Errors]
    BY DEF Statuses, Live, Terminal, WorkerPC, Report, NoReport, Results, Errors
  <2>3. /\ unread \in [Jobs -> Int]
        /\ usageLines \in [Jobs -> Nat] /\ finishedAt \in [Jobs -> Nat]
        /\ turn \in [Jobs -> Nat] /\ batch \in [Jobs -> Int]
    OBVIOUS
  <2> QED
    BY <2>1, <2>2, <2>3 DEF TypeOK
<1>2. StatusFollowsWorker /\ SlotInv /\ LeaseInv
  BY DEF StatusFollowsWorker, SlotInv, LeaseInv, LeasePC, AgentSteps, Live
<1>3. SteeringInv /\ OutcomeInv /\ ReportInv /\ UsageInv
  BY DEF SteeringInv, OutcomeInv, ReportInv, UsageInv, EmptyBox, Live
<1>4. /\ NoSteeringLost /\ CancellationWins /\ MutationsDisclosed
      /\ MailboxAccounting /\ UsageRecordedOnce
  BY BoundAssumption
  DEF NoSteeringLost, CancellationWins, MutationsDisclosed, MailboxAccounting,
      UsageRecordedOnce, EmptyBox, Terminal
<1> QED
  BY <1>1, <1>2, <1>3, <1>4 DEF IInv

(* Draining leaves a mailbox, and what was shown stays a number.           *)
LEMMA ReadBoxType ==
  ASSUME TypeOK, NEW j \in Jobs, NEW finalize \in BOOLEAN, ReadBox(j, finalize)
  PROVE  box' \in [Jobs -> Mailbox] /\ unread' \in [Jobs -> Int]
<1>1. box[j].accepting \in BOOLEAN /\ box[j].count \in Nat /\ box[j].bytes \in Nat
  BY DEF TypeOK, Mailbox
<1>2. Drain(box[j], finalize) \in Mailbox
  <2>1. CASE box[j].count > 0
    <3>1. box[j] \in Mailbox
      BY DEF TypeOK
    <3>2. [box[j] EXCEPT !.count = 0, !.bytes = 0] \in Mailbox
      BY <3>1 DEF Mailbox
    <3> QED
      BY <2>1, <3>2 DEF Drain
  <2>2. CASE ~(box[j].count > 0) /\ finalize
    BY <1>1, <2>2 DEF Drain, Mailbox, TypeOK
  <2>3. CASE ~(box[j].count > 0) /\ ~finalize
    BY <1>1, <2>3 DEF Drain, Mailbox, TypeOK
  <2> QED
    BY <2>1, <2>2, <2>3
<1> QED
  BY <1>1, <1>2 DEF ReadBox, TypeOK

(* The outcome keeps its records in every step.                            *)
LEMMA ReportStays == TypeOK /\ OutcomeInv /\ ReportInv /\ [Next]_vars => ReportInv'
<1> SUFFICES ASSUME TypeOK, OutcomeInv, ReportInv, [Next]_vars PROVE ReportInv'
  OBVIOUS
<1> USE DEF jobVars, usageVars, retainVars, slotVars, workerVars
<1>1. CASE UNCHANGED <<outcome, report, mutated>>
  BY <1>1 DEF ReportInv, Returned, Raised
<1>2. ASSUME NEW j \in Jobs, SeeCancel(j) \/ AgentFails(j) \/ FinalizeOrSteer(j)
      PROVE  ReportInv'
  <2>1. /\ mutated' = mutated
        /\ \/ UNCHANGED <<outcome, report>>
           \/ \E how \in {"cancelled", "failed", "completed"} :
                /\ outcome' = [outcome EXCEPT ![j] = how]
                /\ report' = [report EXCEPT ![j] =
                     CASE how = "cancelled" -> Raised("cancelled", mutated[j])
                       [] how = "failed" -> Raised("reason", mutated[j])
                       [] how = "completed" -> Returned(mutated[j])]
    BY <1>2 DEF SeeCancel, AgentFails, FinalizeOrSteer, Stop
  <2> QED
    BY <2>1 DEF ReportInv, TypeOK
<1>3. ASSUME NEW j \in Jobs, ToolRuns(j) PROVE ReportInv'
  <2>1. /\ outcome[j] = "none" /\ UNCHANGED <<outcome, report>>
        /\ \A k \in Jobs \ {j} : mutated'[k] = mutated[k]
    BY <1>3 DEF ToolRuns, OutcomeInv, TypeOK
  <2> QED
    BY <2>1 DEF ReportInv
<1>4. ASSUME NEW j \in Jobs, ToolFails(j) PROVE ReportInv'
  <2>1. PICK changed \in BOOLEAN :
          /\ mutated' = [mutated EXCEPT ![j] = @ \/ changed]
          /\ \/ Stop(j, "cancelled", Raised("cancelled", mutated[j] \/ changed))
             \/ Stop(j, "failed", Raised("reason", mutated[j] \/ changed))
    BY <1>4 DEF ToolFails
  <2>2. /\ mutated'[j] = (mutated[j] \/ changed)
        /\ \A k \in Jobs \ {j} : /\ mutated'[k] = mutated[k]
                                 /\ outcome'[k] = outcome[k] /\ report'[k] = report[k]
        /\ \/ /\ outcome'[j] = "cancelled"
              /\ report'[j] = Raised("cancelled", mutated[j] \/ changed)
           \/ /\ outcome'[j] = "failed"
              /\ report'[j] = Raised("reason", mutated[j] \/ changed)
    BY <2>1 DEF Stop, TypeOK
  <2> QED
    BY <2>2 DEF ReportInv
<1>5. ASSUME NEW j \in Jobs, FinishCommits(j) PROVE ReportInv'
  BY <1>5 DEF FinishCommits, ReportInv, TypeOK
<1>6. ASSUME NEW j \in Jobs, Worker(j) PROVE ReportInv'
  BY <1>1, <1>2, <1>3, <1>4, <1>5, <1>6
  DEF Worker, RunJob, TurnBegins, TurnPolls, ProviderAnswers, PlanPolls,
      FinishReleases
<1>7. ASSUME NEW j \in Jobs, Methods(j) PROVE ReportInv'
  BY <1>1, <1>7
  DEF Methods, Start, Cancel, CancelCloses, ClaimUsage, SendMessage,
      FinishUsageRecord
<1>8. ASSUME NEW c \in Callers, Sync(c) PROVE ReportInv'
  BY <1>1, <1>8 DEF Sync, RunSync, SyncMutates, RunSyncEnds
<1>9. CASE \/ StartFails \/ OtherTakesLease \/ OtherFreesLease
          \/ AcknowledgeMutations \/ UNCHANGED vars
  BY <1>1, <1>9 DEF StartFails, OtherTakesLease, OtherFreesLease,
                    AcknowledgeMutations, vars
<1> QED
  BY <1>6, <1>7, <1>8, <1>9 DEF Next

LEMMA StepPreserves == IInv /\ [Next]_vars => IInv'
<1> SUFFICES ASSUME IInv, [Next]_vars PROVE IInv'
  OBVIOUS
<1> USE IdAssumption, BoundAssumption, SizeAssumption
    DEF IInv, jobVars, usageVars, retainVars, slotVars, workerVars, Statuses,
        WorkerPC, AgentSteps, LeasePC, Live, Terminal, Mailbox
<1>0. ReportInv'
  BY ReportStays
<1>1. ASSUME NEW j \in Jobs, Start(j) PROVE IInv'
  <2>1. TypeOK'
    BY <1>1 DEF Start, LockFree, SlotAvailable, LeaseReady, Victims, Prunable,
                TypeOK
  <2>2. StatusFollowsWorker' /\ LeaseInv'
    BY <1>1 DEF Start, LockFree, SlotAvailable, LeaseReady, Victims, Prunable,
                StatusFollowsWorker, LeaseInv, TypeOK
  <2>5. SteeringInv'
    <3>1. /\ status[j] = "unused" /\ outcome' = outcome /\ closing' = closing
          /\ UNCHANGED <<cancelEvent, box, unread>>
          /\ \A k \in Jobs \ {j} : status'[k] = status[k] \/ status'[k] = "pruned"
      BY <1>1 DEF Start, TypeOK
    <3>2. status'[j] = "queued"
      BY <1>1 DEF Start, TypeOK
    <3> QED
      BY <3>1, <3>2 DEF SteeringInv
  <2>3. /\ SlotInv' /\ UsageInv' /\ NoSteeringLost'
        /\ CancellationWins' /\ MutationsDisclosed' /\ MailboxAccounting'
        /\ UsageRecordedOnce'
    BY <1>1 DEF Start, LockFree, SlotAvailable, LeaseReady, Victims, Prunable,
                SlotInv, UsageInv, NoSteeringLost, CancellationWins,
                MutationsDisclosed, MailboxAccounting, UsageRecordedOnce
  <2>4. OutcomeInv'
    BY <1>1 DEF Start, LockFree, SlotAvailable, LeaseReady, Victims, Prunable,
                OutcomeInv, TypeOK, StatusFollowsWorker
  <2> QED
    BY <1>0, <2>1, <2>2, <2>3, <2>4, <2>5
<1>2. CASE StartFails
  <2>1. TypeOK'
    BY <1>2 DEF StartFails, LockFree, SlotAvailable, TypeOK
  <2>2. /\ StatusFollowsWorker' /\ SlotInv' /\ LeaseInv'
        /\ SteeringInv' /\ OutcomeInv' /\ UsageInv'
        /\ NoSteeringLost' /\ CancellationWins' /\ MutationsDisclosed'
        /\ MailboxAccounting' /\ UsageRecordedOnce'
    BY <1>2 DEF StartFails, LockFree, SlotAvailable, StatusFollowsWorker,
                SlotInv, LeaseInv, SteeringInv, OutcomeInv, UsageInv,
                NoSteeringLost, CancellationWins, MutationsDisclosed,
                MailboxAccounting, UsageRecordedOnce
  <2> QED
    BY <1>0, <2>1, <2>2
<1>3. ASSUME NEW c \in Callers, RunSync(c) PROVE IInv'
  <2>1. TypeOK'
    BY <1>3 DEF RunSync, LockFree, SlotAvailable, LeaseReady, TypeOK
  <2>2. /\ StatusFollowsWorker' /\ SlotInv' /\ LeaseInv'
        /\ SteeringInv' /\ OutcomeInv' /\ UsageInv'
        /\ NoSteeringLost' /\ CancellationWins' /\ MutationsDisclosed'
        /\ MailboxAccounting' /\ UsageRecordedOnce'
    BY <1>3 DEF RunSync, LockFree, SlotAvailable, LeaseReady,
                StatusFollowsWorker, SlotInv, LeaseInv, SteeringInv,
                OutcomeInv, UsageInv, NoSteeringLost, CancellationWins,
                MutationsDisclosed, MailboxAccounting, UsageRecordedOnce
  <2> QED
    BY <1>0, <2>1, <2>2
<1>4. ASSUME NEW c \in Callers, SyncMutates(c) PROVE IInv'
  <2>1. TypeOK'
    BY <1>4 DEF SyncMutates, TypeOK
  <2>2. /\ StatusFollowsWorker' /\ SlotInv' /\ LeaseInv'
        /\ SteeringInv' /\ OutcomeInv' /\ UsageInv'
        /\ NoSteeringLost' /\ CancellationWins' /\ MutationsDisclosed'
        /\ MailboxAccounting' /\ UsageRecordedOnce'
    BY <1>4 DEF SyncMutates, StatusFollowsWorker, SlotInv, LeaseInv,
                SteeringInv, OutcomeInv, UsageInv, NoSteeringLost,
                CancellationWins, MutationsDisclosed, MailboxAccounting,
                UsageRecordedOnce
  <2> QED
    BY <1>0, <2>1, <2>2
<1>5. ASSUME NEW c \in Callers, RunSyncEnds(c) PROVE IInv'
  <2>1. TypeOK'
    BY <1>5 DEF RunSyncEnds, LockFree, TypeOK
  <2>2. /\ StatusFollowsWorker' /\ LeaseInv' /\ SteeringInv'
        /\ OutcomeInv' /\ UsageInv' /\ NoSteeringLost'
        /\ CancellationWins' /\ MutationsDisclosed' /\ MailboxAccounting'
        /\ UsageRecordedOnce'
    BY <1>5 DEF RunSyncEnds, LockFree, StatusFollowsWorker, LeaseInv,
                SteeringInv, OutcomeInv, UsageInv, NoSteeringLost,
                CancellationWins, MutationsDisclosed, MailboxAccounting,
                UsageRecordedOnce
  <2>3. SlotInv'
    BY <1>5 DEF RunSyncEnds, LockFree, SlotInv, TypeOK, StatusFollowsWorker,
                LeaseInv
  <2> QED
    BY <1>0, <2>1, <2>2, <2>3
<1>6. ASSUME NEW j \in Jobs, NEW size \in Sizes, SendMessage(j, size) PROVE IInv'
  <2>1. TypeOK'
    <3>1. size \in Nat
      OBVIOUS
    <3>2. Queue(box[j], size) \in Mailbox
      BY <3>1 DEF TypeOK, Queue
    <3>3. box' \in [Jobs -> Mailbox]
      BY <1>6, <3>2 DEF SendMessage, TypeOK
    <3> QED
      BY <1>6, <3>3 DEF SendMessage, TypeOK
  <2>2. /\ StatusFollowsWorker' /\ SlotInv' /\ LeaseInv'
        /\ OutcomeInv' /\ UsageInv' /\ NoSteeringLost'
        /\ CancellationWins' /\ MutationsDisclosed' /\ UsageRecordedOnce'
    BY <1>6 DEF SendMessage, LockFree, CanQueue, Queue, StatusFollowsWorker,
                SlotInv, LeaseInv, OutcomeInv, UsageInv, NoSteeringLost,
                CancellationWins, MutationsDisclosed, UsageRecordedOnce
  <2>3. SteeringInv'
    <3>1. \A k \in Jobs :
            /\ box'[k].accepting = box[k].accepting
            /\ box'[k].count = box[k].count + (IF k = j THEN 1 ELSE 0)
            /\ unread'[k] = unread[k] + (IF k = j THEN 1 ELSE 0)
      BY <1>6 DEF SendMessage, Queue, TypeOK
    <3>2. box[j].accepting /\ closing = NoOne /\ status[j] \in Live
      BY <1>6 DEF SendMessage, CanQueue, LockFree
    <3>3. UNCHANGED <<status, cancelEvent, outcome, closing>>
      BY <1>6 DEF SendMessage
    <3>4. \A k \in Jobs : unread[k] \in Int /\ box[k].count \in Nat
      BY DEF TypeOK
    <3>5. NoOne \notin Jobs
      OBVIOUS
    <3>6. ASSUME NEW k \in Jobs, status[k] = "unused"
          PROVE  box'[k].count = 0 /\ unread'[k] = 0 /\ ~cancelEvent[k]
      BY <3>1, <3>2, <3>4, <3>6 DEF SteeringInv
    <3>7. ASSUME NEW k \in Jobs, status[k] \in Live, ~cancelEvent[k]
          PROVE  unread'[k] = box'[k].count
      BY <3>1, <3>4, <3>7 DEF SteeringInv
    <3> QED
      BY <3>1, <3>2, <3>3, <3>5, <3>6, <3>7 DEF SteeringInv
  <2>4. MailboxAccounting'
    BY <1>6 DEF SendMessage, CanQueue, Queue, MailboxAccounting, TypeOK
  <2> QED
    BY <1>0, <2>1, <2>2, <2>3, <2>4
<1>7. ASSUME NEW j \in Jobs, Cancel(j) PROVE IInv'
  <2>1. TypeOK'
    BY <1>7 DEF Cancel, LockFree, TypeOK
  <2>2. /\ StatusFollowsWorker' /\ SlotInv' /\ LeaseInv'
        /\ SteeringInv' /\ UsageInv' /\ NoSteeringLost'
        /\ CancellationWins' /\ MutationsDisclosed' /\ MailboxAccounting'
        /\ UsageRecordedOnce'
    BY <1>7 DEF Cancel, LockFree, StatusFollowsWorker, SlotInv, LeaseInv,
                SteeringInv, UsageInv, NoSteeringLost, CancellationWins,
                MutationsDisclosed, MailboxAccounting, UsageRecordedOnce
  <2>3. OutcomeInv'
    BY <1>7 DEF Cancel, LockFree, OutcomeInv, TypeOK
  <2> QED
    BY <1>0, <2>1, <2>2, <2>3
<1>8. ASSUME NEW j \in Jobs, CancelCloses(j) PROVE IInv'
  <2>1. TypeOK'
    BY <1>8 DEF CancelCloses, ClosedBox, TypeOK
  <2>2. /\ StatusFollowsWorker' /\ SlotInv' /\ LeaseInv'
        /\ OutcomeInv' /\ UsageInv' /\ NoSteeringLost'
        /\ CancellationWins' /\ MutationsDisclosed' /\ MailboxAccounting'
        /\ UsageRecordedOnce'
    BY <1>8 DEF CancelCloses, ClosedBox, StatusFollowsWorker, SlotInv,
                LeaseInv, OutcomeInv, UsageInv, NoSteeringLost,
                CancellationWins, MutationsDisclosed, MailboxAccounting,
                UsageRecordedOnce
  <2>3. SteeringInv'
    BY <1>8 DEF CancelCloses, ClosedBox, SteeringInv, TypeOK, OutcomeInv
  <2> QED
    BY <1>0, <2>1, <2>2, <2>3
<1>9. ASSUME NEW j \in Jobs, ClaimUsage(j) PROVE IInv'
  <2>1. TypeOK'
    BY <1>9 DEF ClaimUsage, LockFree, TypeOK
  <2>2. /\ StatusFollowsWorker' /\ SlotInv' /\ LeaseInv'
        /\ SteeringInv' /\ OutcomeInv' /\ UsageInv'
        /\ NoSteeringLost' /\ CancellationWins' /\ MutationsDisclosed'
        /\ MailboxAccounting' /\ UsageRecordedOnce'
    BY <1>9 DEF ClaimUsage, LockFree, StatusFollowsWorker, SlotInv, LeaseInv,
                SteeringInv, OutcomeInv, UsageInv, NoSteeringLost,
                CancellationWins, MutationsDisclosed, MailboxAccounting,
                UsageRecordedOnce
  <2> QED
    BY <1>0, <2>1, <2>2
<1>10. ASSUME NEW j \in Jobs, NEW persisted \in BOOLEAN, FinishUsageRecord(j, persisted) PROVE IInv'
  <2>1. TypeOK'
    BY <1>10 DEF FinishUsageRecord, LockFree, TypeOK
  <2>2. /\ StatusFollowsWorker' /\ SlotInv' /\ LeaseInv'
        /\ SteeringInv' /\ OutcomeInv' /\ NoSteeringLost'
        /\ CancellationWins' /\ MutationsDisclosed' /\ MailboxAccounting'
    BY <1>10 DEF FinishUsageRecord, LockFree, StatusFollowsWorker, SlotInv,
                 LeaseInv, SteeringInv, OutcomeInv, NoSteeringLost,
                 CancellationWins, MutationsDisclosed, MailboxAccounting
  <2>3. UsageInv'
    BY <1>10 DEF FinishUsageRecord, LockFree, UsageInv, TypeOK
  <2>4. UsageRecordedOnce'
    BY <1>10 DEF FinishUsageRecord, LockFree, UsageRecordedOnce, TypeOK,
                 StatusFollowsWorker, SlotInv, UsageInv
  <2> QED
    BY <1>0, <2>1, <2>2, <2>3, <2>4
<1>11. ASSUME NEW j \in Jobs, RunJob(j) PROVE IInv'
  <2>1. TypeOK'
    BY <1>11 DEF RunJob, LockFree, TypeOK
  <2>2. StatusFollowsWorker'
    BY <1>11 DEF RunJob, LockFree, StatusFollowsWorker, TypeOK
  <2>3. SlotInv'
    BY <1>11 DEF RunJob, LockFree, SlotInv, TypeOK, StatusFollowsWorker
  <2>4. SteeringInv'
    BY <1>11 DEF RunJob, LockFree, SteeringInv, TypeOK, StatusFollowsWorker
  <2>5. UsageInv'
    BY <1>11 DEF RunJob, LockFree, UsageInv, TypeOK, StatusFollowsWorker
  <2>6. UsageRecordedOnce'
    BY <1>11 DEF RunJob, LockFree, UsageRecordedOnce, TypeOK,
                 StatusFollowsWorker
  <2>7. /\ LeaseInv' /\ OutcomeInv' /\ NoSteeringLost'
        /\ CancellationWins' /\ MutationsDisclosed' /\ MailboxAccounting'
    BY <1>11 DEF RunJob, LockFree, LeaseInv, OutcomeInv, NoSteeringLost,
                 CancellationWins, MutationsDisclosed, MailboxAccounting
  <2> QED
    BY <1>0, <2>1, <2>2, <2>3, <2>4, <2>5, <2>6, <2>7
<1>12. ASSUME NEW j \in Jobs, SeeCancel(j) PROVE IInv'
  <2>1. TypeOK'
    BY <1>12 DEF SeeCancel, Stop, Raised, Report, Results, Errors, TypeOK
  <2>2. /\ StatusFollowsWorker' /\ SlotInv' /\ LeaseInv'
        /\ SteeringInv' /\ UsageInv' /\ NoSteeringLost'
        /\ CancellationWins' /\ MutationsDisclosed' /\ MailboxAccounting'
        /\ UsageRecordedOnce'
    BY <1>12 DEF SeeCancel, Stop, StatusFollowsWorker, SlotInv, LeaseInv,
                 SteeringInv, UsageInv, NoSteeringLost, CancellationWins,
                 MutationsDisclosed, MailboxAccounting, UsageRecordedOnce
  <2>3. OutcomeInv'
    BY <1>12 DEF SeeCancel, Stop, OutcomeInv, TypeOK
  <2> QED
    BY <1>0, <2>1, <2>2, <2>3
<1>13. ASSUME NEW j \in Jobs, AgentFails(j) PROVE IInv'
  <2>1. TypeOK'
    BY <1>13 DEF AgentFails, Stop, Raised, Report, Results, Errors, TypeOK
  <2>2. /\ StatusFollowsWorker' /\ SlotInv' /\ LeaseInv'
        /\ SteeringInv' /\ UsageInv' /\ NoSteeringLost'
        /\ CancellationWins' /\ MutationsDisclosed' /\ MailboxAccounting'
        /\ UsageRecordedOnce'
    BY <1>13 DEF AgentFails, Stop, StatusFollowsWorker, SlotInv, LeaseInv,
                 SteeringInv, UsageInv, NoSteeringLost, CancellationWins,
                 MutationsDisclosed, MailboxAccounting, UsageRecordedOnce
  <2>3. OutcomeInv'
    BY <1>13 DEF AgentFails, Stop, OutcomeInv, TypeOK
  <2> QED
    BY <1>0, <2>1, <2>2, <2>3
<1>14. ASSUME NEW j \in Jobs, TurnBegins(j) PROVE IInv'
  <2>1. TypeOK'
    BY <1>14 DEF TurnBegins, TypeOK
  <2>2. /\ StatusFollowsWorker' /\ SlotInv' /\ LeaseInv'
        /\ SteeringInv' /\ OutcomeInv' /\ UsageInv'
        /\ NoSteeringLost' /\ CancellationWins' /\ MutationsDisclosed'
        /\ MailboxAccounting' /\ UsageRecordedOnce'
    BY <1>14 DEF TurnBegins, StatusFollowsWorker, SlotInv, LeaseInv,
                 SteeringInv, OutcomeInv, UsageInv, NoSteeringLost,
                 CancellationWins, MutationsDisclosed, MailboxAccounting,
                 UsageRecordedOnce
  <2> QED
    BY <1>0, <2>1, <2>2
<1>15. ASSUME NEW j \in Jobs, TurnPolls(j) PROVE IInv'
  <2>1. TypeOK'
    <3>1. ReadBox(j, FALSE)
      BY <1>15 DEF TurnPolls
    <3>2. box' \in [Jobs -> Mailbox] /\ unread' \in [Jobs -> Int]
      BY <3>1, ReadBoxType
    <3> QED
      BY <1>15, <3>2 DEF TurnPolls, TypeOK
  <2>2. /\ StatusFollowsWorker' /\ SlotInv' /\ LeaseInv'
        /\ OutcomeInv' /\ UsageInv' /\ CancellationWins'
        /\ MutationsDisclosed' /\ UsageRecordedOnce'
    BY <1>15 DEF TurnPolls, ReadBox, Drain, StatusFollowsWorker, SlotInv,
                 LeaseInv, OutcomeInv, UsageInv, CancellationWins,
                 MutationsDisclosed, UsageRecordedOnce
  <2>3. SteeringInv' /\ MailboxAccounting'
    BY <1>15 DEF TurnPolls, ReadBox, Drain, SteeringInv, MailboxAccounting,
                 TypeOK
  <2>4. NoSteeringLost'
    BY <1>15 DEF TurnPolls, ReadBox, Drain, NoSteeringLost, TypeOK,
                 StatusFollowsWorker
  <2> QED
    BY <1>0, <2>1, <2>2, <2>3, <2>4
<1>16. ASSUME NEW j \in Jobs, ProviderAnswers(j) PROVE IInv'
  <2>1. TypeOK'
    <3>1. pc' \in [Jobs -> WorkerPC]
      BY <1>16 DEF ProviderAnswers, TypeOK
    <3>2. batch' \in [Jobs -> Int]
      <4>1. ASSUME NEW n \in 1..MaxBatch, batch' = [batch EXCEPT ![j] = n]
            PROVE  batch' \in [Jobs -> Int]
        BY <4>1 DEF TypeOK
      <4> QED
        BY <1>16, <4>1 DEF ProviderAnswers, TypeOK
    <3>3. UNCHANGED <<jobVars, usageVars, retainVars, slotVars, closing, lease,
                      unacked, turn, outcome, report, mutated>>
      BY <1>16 DEF ProviderAnswers
    <3> QED
      BY <3>1, <3>2, <3>3 DEF TypeOK
  <2>2. StatusFollowsWorker' /\ LeaseInv' /\ OutcomeInv'
    <3>1. /\ pc[j] = "request"
          /\ \E to \in {"answer", "plan"} : pc' = [pc EXCEPT ![j] = to]
          /\ UNCHANGED <<status, cancelEvent, lease, syncRuns, outcome, closing>>
      BY <1>16 DEF ProviderAnswers
    <3> QED
      BY <3>1 DEF StatusFollowsWorker, LeaseInv, OutcomeInv, TypeOK
  <2>3. /\ SlotInv' /\ SteeringInv' /\ UsageInv'
        /\ NoSteeringLost' /\ CancellationWins' /\ MutationsDisclosed'
        /\ MailboxAccounting' /\ UsageRecordedOnce'
    BY <1>16 DEF ProviderAnswers, SlotInv, SteeringInv, UsageInv,
                 NoSteeringLost, CancellationWins, MutationsDisclosed,
                 MailboxAccounting, UsageRecordedOnce
  <2> QED
    BY <1>0, <2>1, <2>2, <2>3
<1>17. ASSUME NEW j \in Jobs, FinalizeOrSteer(j) PROVE IInv'
  <2>1. TypeOK'
    <3>1. ReadBox(j, TRUE)
      BY <1>17 DEF FinalizeOrSteer
    <3>2. box' \in [Jobs -> Mailbox] /\ unread' \in [Jobs -> Int]
      BY <3>1, ReadBoxType
    <3>3. CASE box[j].count > 0
      BY <1>17, <3>2, <3>3 DEF FinalizeOrSteer, TypeOK
    <3>4. CASE ~(box[j].count > 0)
      <4>1. Stop(j, "completed", Returned(mutated[j]))
        BY <1>17, <3>4 DEF FinalizeOrSteer
      <4>2. /\ pc' \in [Jobs -> WorkerPC]
            /\ outcome' \in [Jobs -> Terminal \cup {"none"}]
            /\ report' \in [Jobs -> Report]
        BY <4>1 DEF Stop, Returned, Report, Results, Errors, TypeOK
      <4>3. turn' \in [Jobs -> Nat] /\ batch' \in [Jobs -> Int]
        BY <4>1 DEF Stop, TypeOK
      <4> QED
        BY <1>17, <3>2, <4>2, <4>3 DEF FinalizeOrSteer, TypeOK
    <3> QED
      BY <3>3, <3>4
  <2>2. StatusFollowsWorker' /\ LeaseInv' /\ OutcomeInv'
    BY <1>17 DEF FinalizeOrSteer, Stop, StatusFollowsWorker, LeaseInv,
                 OutcomeInv, TypeOK
  <2>3. SlotInv' /\ UsageInv' /\ CancellationWins' /\ MutationsDisclosed'
        /\ UsageRecordedOnce'
    BY <1>17 DEF FinalizeOrSteer, SlotInv, UsageInv, CancellationWins,
                 MutationsDisclosed, UsageRecordedOnce
  <2>4. MailboxAccounting'
    BY <1>17 DEF FinalizeOrSteer, ReadBox, Drain, MailboxAccounting, TypeOK
  <2>5. SteeringInv'
    BY <1>17 DEF FinalizeOrSteer, ReadBox, Drain, Stop, SteeringInv, TypeOK,
                 StatusFollowsWorker, SlotInv, LeaseInv
  <2>6. NoSteeringLost'
    BY <1>17 DEF FinalizeOrSteer, ReadBox, NoSteeringLost, TypeOK,
                 StatusFollowsWorker
  <2> QED
    BY <1>0, <2>1, <2>2, <2>3, <2>4, <2>5, <2>6
<1>18. ASSUME NEW j \in Jobs, PlanPolls(j) PROVE IInv'
  <2>1. TypeOK'
    <3>1. ReadBox(j, FALSE)
      BY <1>18 DEF PlanPolls
    <3>2. box' \in [Jobs -> Mailbox] /\ unread' \in [Jobs -> Int]
      BY <3>1, ReadBoxType
    <3>3. pc' \in [Jobs -> WorkerPC] /\ batch' \in [Jobs -> Int]
      BY <1>18 DEF PlanPolls, TypeOK
    <3>4. UNCHANGED <<status, cancelEvent, result, error, usageVars, retainVars,
                      slotVars, closing, lease, unacked, turn, outcome, report,
                      mutated>>
      BY <1>18 DEF PlanPolls
    <3> QED
      BY <3>2, <3>3, <3>4 DEF TypeOK
  <2>2. StatusFollowsWorker' /\ LeaseInv' /\ OutcomeInv'
    <3>1. /\ pc[j] = "plan"
          /\ \E to \in {"turn", "tool"} : pc' = [pc EXCEPT ![j] = to]
          /\ UNCHANGED <<status, cancelEvent, lease, syncRuns, outcome, closing>>
      BY <1>18 DEF PlanPolls
    <3> QED
      BY <3>1 DEF StatusFollowsWorker, LeaseInv, OutcomeInv, TypeOK
  <2>5. SteeringInv'
    BY <1>18 DEF PlanPolls, ReadBox, Drain, SteeringInv, TypeOK
  <2>6. MailboxAccounting'
    BY <1>18 DEF PlanPolls, ReadBox, Drain, MailboxAccounting, TypeOK
  <2>3. /\ SlotInv' /\ UsageInv' /\ CancellationWins'
        /\ MutationsDisclosed' /\ UsageRecordedOnce'
    BY <1>18 DEF PlanPolls, ReadBox, Drain, SlotInv, UsageInv,
                 CancellationWins, MutationsDisclosed, UsageRecordedOnce
  <2>4. NoSteeringLost'
    BY <1>18 DEF PlanPolls, ReadBox, Drain, NoSteeringLost, TypeOK,
                 StatusFollowsWorker
  <2> QED
    BY <1>0, <2>1, <2>2, <2>3, <2>4, <2>5, <2>6
<1>19. ASSUME NEW j \in Jobs, ToolRuns(j) PROVE IInv'
  <2>1. TypeOK'
    BY <1>19 DEF ToolRuns, TypeOK
  <2>2. /\ StatusFollowsWorker' /\ SlotInv' /\ LeaseInv'
        /\ SteeringInv' /\ OutcomeInv' /\ UsageInv'
        /\ NoSteeringLost' /\ CancellationWins' /\ MailboxAccounting'
        /\ UsageRecordedOnce'
    BY <1>19 DEF ToolRuns, StatusFollowsWorker, SlotInv, LeaseInv,
                 SteeringInv, OutcomeInv, UsageInv, NoSteeringLost,
                 CancellationWins, MailboxAccounting, UsageRecordedOnce
  <2>3. MutationsDisclosed'
    BY <1>19 DEF ToolRuns, MutationsDisclosed, TypeOK, StatusFollowsWorker
  <2> QED
    BY <1>0, <2>1, <2>2, <2>3
<1>20. ASSUME NEW j \in Jobs, FinishReleases(j) PROVE IInv'
  <2>1. TypeOK'
    BY <1>20 DEF FinishReleases, LockFree, TypeOK
  <2>2. /\ StatusFollowsWorker' /\ SlotInv' /\ SteeringInv'
        /\ OutcomeInv' /\ UsageInv' /\ NoSteeringLost'
        /\ CancellationWins' /\ MutationsDisclosed' /\ MailboxAccounting'
        /\ UsageRecordedOnce'
    BY <1>20 DEF FinishReleases, LockFree, StatusFollowsWorker, SlotInv,
                 SteeringInv, OutcomeInv, UsageInv, NoSteeringLost,
                 CancellationWins, MutationsDisclosed, MailboxAccounting,
                 UsageRecordedOnce
  <2>3. LeaseInv'
    BY <1>20 DEF FinishReleases, LockFree, LeaseInv, TypeOK
  <2> QED
    BY <1>0, <2>1, <2>2, <2>3
<1>21. ASSUME NEW j \in Jobs, FinishCommits(j) PROVE IInv'
  <2>1. /\ result' \in [Jobs -> Results] /\ error' \in [Jobs -> Errors]
        /\ report' \in [Jobs -> Report]
    <3>1. report[j] \in Report /\ NoReport \in Report
      BY DEF TypeOK, Report, NoReport, Results, Errors
    <3>2. report[j].result \in Results /\ report[j].error \in Errors
      BY <3>1 DEF Report
    <3>3. CancelledError(j) \in Errors
      BY <3>2 DEF CancelledError, Errors
    <3>4. /\ result \in [Jobs -> Results] /\ error \in [Jobs -> Errors]
          /\ report \in [Jobs -> Report] /\ "none" \in Results
      BY DEF TypeOK, Results
    <3>5. CASE CancellationWon(j)
      BY <1>21, <3>1, <3>3, <3>4, <3>5 DEF FinishCommits
    <3>6. CASE ~CancellationWon(j)
      BY <1>21, <3>1, <3>2, <3>4, <3>6 DEF FinishCommits
    <3> QED
      BY <3>5, <3>6
  <2>2. TypeOK'
    <3>1. /\ status' \in [Jobs -> Statuses] /\ outcome' \in [Jobs -> Terminal \cup {"none"}]
          /\ box' \in [Jobs -> Mailbox]
      BY <1>21 DEF FinishCommits, ClosedBox, TypeOK, OutcomeInv
    <3>2. /\ cancelEvent' \in [Jobs -> BOOLEAN] /\ clock' \in Nat
          /\ finishedAt' \in [Jobs -> Nat] /\ active' \in Jobs \cup {NoOne}
          /\ pc' \in [Jobs -> WorkerPC]
      BY <1>21 DEF FinishCommits, CancellationWon, TypeOK
    <3>3. UNCHANGED <<unread, usageVars, syncActive, syncRuns, closing, lease,
                      unacked, turn, batch, mutated>>
      BY <1>21 DEF FinishCommits
    <3> QED
      BY <2>1, <3>1, <3>2, <3>3 DEF TypeOK
  <2>3. /\ StatusFollowsWorker' /\ SlotInv' /\ SteeringInv'
        /\ OutcomeInv' /\ CancellationWins'
    BY <1>21 DEF FinishCommits, CancellationWon, ClosedBox,
                 StatusFollowsWorker, SlotInv, SteeringInv, OutcomeInv,
                 CancellationWins, TypeOK
  <2>4. MutationsDisclosed'
    <3>1. /\ status'[j] = "cancelled" => CancellationWon(j)
          /\ outcome[j] \in Terminal
      BY <1>21 DEF FinishCommits, CancellationWon, TypeOK, OutcomeInv
    <3>2. /\ mutated[j] <=> "records" \in {result'[j], error'[j]}
          /\ CancellationWon(j) => error'[j] \in {"cancelled", "records"}
      <4>1. CASE CancellationWon(j)
        <5>1. result'[j] = "none" /\ error'[j] = CancelledError(j)
          BY <1>21, <4>1 DEF FinishCommits, TypeOK
        <5>2. CancelledError(j) = IF mutated[j] THEN "records" ELSE "cancelled"
          BY <3>1 DEF CancelledError, ReportInv, Returned, Raised, TypeOK
        <5> QED
          BY <4>1, <5>1, <5>2 DEF TypeOK
      <4>2. CASE ~CancellationWon(j)
        <5>1. /\ result'[j] = IF outcome[j] = "completed" THEN report[j].result
                              ELSE "none"
              /\ error'[j] = report[j].error
          BY <1>21, <4>2 DEF FinishCommits, TypeOK
        <5> QED
          BY <3>1, <4>2, <5>1 DEF ReportInv, Returned, Raised, TypeOK,
                                  CancellationWon
      <4> QED
        BY <4>1, <4>2
    <3>3. UNCHANGED mutated
          /\ \A k \in Jobs \ {j} : /\ status'[k] = status[k]
                                   /\ result'[k] = result[k] /\ error'[k] = error[k]
      BY <1>21 DEF FinishCommits, TypeOK
    <3> QED
      BY <3>1, <3>2, <3>3 DEF MutationsDisclosed
  <2>5. LeaseInv' /\ MailboxAccounting'
    BY <1>21 DEF FinishCommits, ClosedBox, LeaseInv, MailboxAccounting
  <2>6. UsageInv'
    BY <1>21 DEF FinishCommits, CancellationWon, ClosedBox, UsageInv,
                 TypeOK, StatusFollowsWorker
  <2>7. UsageRecordedOnce'
    BY <1>21 DEF FinishCommits, CancellationWon, ClosedBox,
                 UsageRecordedOnce, TypeOK, StatusFollowsWorker
  <2>8. NoSteeringLost'
    BY <1>21 DEF FinishCommits, CancellationWon, ClosedBox,
                 NoSteeringLost, TypeOK, StatusFollowsWorker, SteeringInv,
                 OutcomeInv, MailboxAccounting
  <2> QED
    BY <1>0, <2>2, <2>3, <2>4, <2>5, <2>6, <2>7, <2>8
<1>26. ASSUME NEW j \in Jobs, ToolFails(j) PROVE IInv'
  <2>1. PICK changed \in BOOLEAN :
          /\ mutated' = [mutated EXCEPT ![j] = @ \/ changed]
          /\ unacked' = (unacked \/ changed)
          /\ \/ /\ cancelEvent[j]
                /\ Stop(j, "cancelled", Raised("cancelled", mutated[j] \/ changed))
             \/ Stop(j, "failed", Raised("reason", mutated[j] \/ changed))
    BY <1>26 DEF ToolFails
  <2>2. /\ pc' = [pc EXCEPT ![j] = "stopped"] /\ pc[j] = "tool"
        /\ UNCHANGED <<jobVars, usageVars, retainVars, slotVars, closing, lease>>
        /\ \/ cancelEvent[j] /\ outcome' = [outcome EXCEPT ![j] = "cancelled"]
           \/ outcome' = [outcome EXCEPT ![j] = "failed"]
        /\ turn' = [turn EXCEPT ![j] = 0] /\ batch' = [batch EXCEPT ![j] = 0]
    BY <1>26, <2>1 DEF ToolFails, Stop
  <2>3. TypeOK'
    <3>1. report' \in [Jobs -> Report]
      <4>1. PICK why \in {"cancelled", "reason"} :
              report' = [report EXCEPT ![j] = Raised(why, mutated[j] \/ changed)]
        BY <2>1 DEF Stop
      <4>2. ASSUME NEW recorded \in BOOLEAN PROVE Raised(why, recorded) \in Report
        BY DEF Raised, Report, Results, Errors
      <4>3. (mutated[j] \/ changed) \in BOOLEAN
        BY DEF TypeOK
      <4>4. Raised(why, mutated[j] \/ changed) \in Report
        BY <4>2, <4>3
      <4> QED
        BY <4>1, <4>4 DEF TypeOK
    <3>2. mutated' \in [Jobs -> BOOLEAN] /\ unacked' \in BOOLEAN
      BY <2>1 DEF TypeOK
    <3>3. /\ pc' \in [Jobs -> WorkerPC] /\ outcome' \in [Jobs -> Terminal \cup {"none"}]
          /\ turn' \in [Jobs -> Nat] /\ batch' \in [Jobs -> Int]
      BY <2>2 DEF TypeOK
    <3> QED
      BY <2>2, <3>1, <3>2, <3>3 DEF TypeOK
  <2>4. /\ StatusFollowsWorker' /\ SlotInv' /\ LeaseInv'
        /\ SteeringInv' /\ UsageInv' /\ NoSteeringLost'
        /\ CancellationWins' /\ MailboxAccounting' /\ UsageRecordedOnce'
    <3>1. StatusFollowsWorker' /\ LeaseInv'
      BY <2>2 DEF StatusFollowsWorker, LeaseInv, TypeOK
    <3>2. SteeringInv'
      <4>1. /\ UNCHANGED <<status, cancelEvent, box, unread, closing>>
            /\ \A k \in Jobs : outcome'[k] = "completed" => outcome[k] = "completed"
        BY <2>2 DEF TypeOK
      <4> QED
        BY <4>1 DEF SteeringInv
    <3>3. SlotInv' /\ UsageInv' /\ NoSteeringLost'
      BY <2>2 DEF SlotInv, UsageInv, NoSteeringLost
    <3>4. CancellationWins' /\ MailboxAccounting' /\ UsageRecordedOnce'
      BY <2>2 DEF CancellationWins, MailboxAccounting, UsageRecordedOnce
    <3> QED
      BY <3>1, <3>2, <3>3, <3>4
  <2>5. OutcomeInv'
    BY <2>2 DEF OutcomeInv, TypeOK
  <2>6. MutationsDisclosed'
    <3>1. status[j] = "running" /\ \A k \in Jobs \ {j} : mutated'[k] = mutated[k]
      BY <2>1, <2>2 DEF StatusFollowsWorker, TypeOK
    <3> QED
      BY <2>2, <3>1 DEF MutationsDisclosed
  <2> QED
    BY <1>0, <2>3, <2>4, <2>5, <2>6
<1>22. CASE OtherTakesLease
  <2>1. TypeOK'
    BY <1>22 DEF OtherTakesLease, LeaseReady, TypeOK
  <2>2. /\ StatusFollowsWorker' /\ SlotInv' /\ LeaseInv'
        /\ SteeringInv' /\ OutcomeInv' /\ UsageInv'
        /\ NoSteeringLost' /\ CancellationWins' /\ MutationsDisclosed'
        /\ MailboxAccounting' /\ UsageRecordedOnce'
    BY <1>22 DEF OtherTakesLease, LeaseReady, StatusFollowsWorker, SlotInv,
                 LeaseInv, SteeringInv, OutcomeInv, UsageInv, NoSteeringLost,
                 CancellationWins, MutationsDisclosed, MailboxAccounting,
                 UsageRecordedOnce
  <2> QED
    BY <1>0, <2>1, <2>2
<1>23. CASE OtherFreesLease
  <2>1. TypeOK'
    BY <1>23 DEF OtherFreesLease, TypeOK
  <2>2. /\ StatusFollowsWorker' /\ SlotInv' /\ LeaseInv'
        /\ SteeringInv' /\ OutcomeInv' /\ UsageInv'
        /\ NoSteeringLost' /\ CancellationWins' /\ MutationsDisclosed'
        /\ MailboxAccounting' /\ UsageRecordedOnce'
    BY <1>23 DEF OtherFreesLease, StatusFollowsWorker, SlotInv, LeaseInv,
                 SteeringInv, OutcomeInv, UsageInv, NoSteeringLost,
                 CancellationWins, MutationsDisclosed, MailboxAccounting,
                 UsageRecordedOnce
  <2> QED
    BY <1>0, <2>1, <2>2
<1>24. CASE AcknowledgeMutations
  <2>1. TypeOK'
    BY <1>24 DEF AcknowledgeMutations, TypeOK
  <2>2. /\ StatusFollowsWorker' /\ SlotInv' /\ LeaseInv'
        /\ SteeringInv' /\ OutcomeInv' /\ UsageInv'
        /\ NoSteeringLost' /\ CancellationWins' /\ MutationsDisclosed'
        /\ MailboxAccounting' /\ UsageRecordedOnce'
    BY <1>24 DEF AcknowledgeMutations, StatusFollowsWorker, SlotInv, LeaseInv,
                 SteeringInv, OutcomeInv, UsageInv, NoSteeringLost,
                 CancellationWins, MutationsDisclosed, MailboxAccounting,
                 UsageRecordedOnce
  <2> QED
    BY <1>0, <2>1, <2>2
<1>25. CASE UNCHANGED vars
  <2>1. TypeOK' /\ StatusFollowsWorker' /\ SlotInv' /\ LeaseInv'
    BY <1>25 DEF vars, TypeOK, StatusFollowsWorker, SlotInv, LeaseInv
  <2>2. SteeringInv' /\ OutcomeInv' /\ UsageInv' /\ NoSteeringLost'
    BY <1>25 DEF vars, SteeringInv, OutcomeInv, UsageInv, NoSteeringLost
  <2>3. /\ CancellationWins' /\ MutationsDisclosed' /\ MailboxAccounting'
        /\ UsageRecordedOnce'
    BY <1>25 DEF vars, CancellationWins, MutationsDisclosed, MailboxAccounting,
                 UsageRecordedOnce
  <2> QED
    BY <1>0, <2>1, <2>2, <2>3
<1> QED
  BY <1>1, <1>2, <1>3, <1>4, <1>5, <1>6, <1>7, <1>8, <1>9, <1>10, <1>11,
     <1>12, <1>13, <1>14, <1>15, <1>16, <1>17, <1>18, <1>19, <1>20, <1>21,
     <1>22, <1>23, <1>24, <1>25, <1>26
  DEF Next, Worker, Methods, Sync

-------------------------------------------------------------------------------
(* The strengthening holds in every reachable state.                       *)
THEOREM Strengthening == Spec => []IInv
  BY InitEstablishes, StepPreserves, PTL DEF Spec

(* Every variable of the manager, its jobs and its workers stays in the    *)
(* set of values its field of JobRecord or GPTJobManager can have.         *)
THEOREM TypeCorrect == Spec => []TypeOK
<1>1. IInv => TypeOK
  BY DEF IInv
<1> QED
  BY <1>1, Strengthening, PTL

(* An executing agent holds the workspace lease, so two agents never work  *)
(* on the workspace at once, whichever way they were started               *)
(* (start, run_sync, _finish_job).                                         *)
THEOREM ExecutionIsExclusive ==
  Spec => [](ExecutionHoldsLease /\ Cardinality(Executing) <= 1)
<1>1. IInv => ExecutionHoldsLease
  BY DEF IInv, ExecutionHoldsLease, Executing, LeaseInv, LeasePC, TypeOK
<1>2. ExecutionHoldsLease => Cardinality(Executing) <= 1
  <2> SUFFICES ASSUME ExecutionHoldsLease PROVE Cardinality(Executing) <= 1
    OBVIOUS
  <2>1. CASE Executing = {}
    BY <2>1, FS_EmptySet
  <2>2. CASE Executing # {}
    <3>1. Executing = {lease}
      BY <2>2 DEF ExecutionHoldsLease
    <3> QED
      BY <3>1, FS_Singleton
  <2> QED
    BY <2>1, <2>2
<1> QED
  BY <1>1, <1>2, Strengthening, PTL

(* A lease held by this process belongs to the run that occupies its slot: *)
(* no path through start, run_sync or _finish_job leaks it.                *)
THEOREM LeaseIsOwned == Spec => []LeaseHasOwner
<1>1. IInv => LeaseHasOwner
  BY IdAssumption
  DEF IInv, LeaseHasOwner, LeaseInv, LeasePC, SlotInv, StatusFollowsWorker,
      AgentSteps, Live
<1> QED
  BY <1>1, Strengthening, PTL

(* The lease is with the agent that executes, and with nobody who does not *)
(* (start, run_sync, _finish_job).                                         *)
THEOREM LeaseIsKept == Spec => []LeaseKept
  BY ExecutionIsExclusive, LeaseIsOwned, PTL DEF LeaseKept

(* A completed job's agent was shown every steering message that           *)
(* send_message acknowledged.                                              *)
THEOREM SteeringIsDelivered == Spec => []NoSteeringLost
<1>1. IInv => NoSteeringLost
  BY DEF IInv
<1> QED
  BY <1>1, Strengthening, PTL

(* A cancellation that cancel accepted overrules every outcome _finish_job *)
(* is handed, and no other job is cancelled.                               *)
THEOREM AcceptedCancellationWins == Spec => []CancellationWins
<1>1. IInv => CancellationWins
  BY DEF IInv
<1> QED
  BY <1>1, Strengthening, PTL

(* A finished job's result or error lists the mutations of its run,        *)
(* whichever branch of _apply_cancelled_outcome and _finish_job wrote it,  *)
(* and never when there are none.                                          *)
THEOREM MutationsAreDisclosed == Spec => []MutationsDisclosed
<1>1. IInv => MutationsDisclosed
  BY DEF IInv
<1> QED
  BY <1>1, Strengthening, PTL

(* The mailbox's count and bytes stay within their limits and in step.     *)
THEOREM MailboxIsAccounted == Spec => []MailboxAccounting
<1>1. IInv => MailboxAccounting
  BY DEF IInv
<1> QED
  BY <1>1, Strengthening, PTL

(* What send_message accepts is delivered and within the limits.           *)
THEOREM SteeringIsKept == Spec => []SteeringKept
  BY SteeringIsDelivered, MailboxIsAccounted, PTL DEF SteeringKept

(* One completed job, at most one usage line, and its record stays in the  *)
(* table while the line is written.                                        *)
THEOREM UsageIsRecordedOnce == Spec => []UsageRecordedOnce
<1>1. IInv => UsageRecordedOnce
  BY DEF IInv
<1> QED
  BY <1>1, Strengthening, PTL

-------------------------------------------------------------------------------
(* Refinement: every step of the manager is a step of SteerableJobs or     *)
(* leaves its variables alone.                                             *)

LEMMA InitMaps == Init => Promise!Init
  BY DEF Init, Promise!Init, PhaseOf, EmptyBox, Live

LEMMA StepMaps == IInv /\ [Next]_vars => [Promise!Next]_(Promise!avars)
<1> SUFFICES ASSUME IInv, [Next]_vars
             PROVE  Promise!Next \/ UNCHANGED Promise!avars
  OBVIOUS
<1> DEFINE Same == UNCHANGED Promise!avars
<1> USE IdAssumption
    DEF IInv, jobVars, usageVars, retainVars, slotVars, workerVars, Live,
        Terminal, PhaseOf
<1>1. ASSUME NEW j \in Jobs, Start(j) PROVE Promise!Begin(j)
  <2>1. PhaseOf(j) = "none"
    BY <1>1 DEF Start, SteeringInv
  <2>2. \A k \in Jobs : PhaseOf(k) \notin Promise!Unfinished
    <3> SUFFICES ASSUME NEW k \in Jobs PROVE status[k] \notin Live
      BY DEF Promise!Unfinished, TypeOK, Statuses
    <3> QED
      BY <1>1 DEF Start, SlotAvailable, SlotInv
  <2>3. Victims \in SUBSET {k \in Jobs : PhaseOf(k) \in Promise!Finished}
    BY DEF Victims, Prunable, Promise!Finished
  <2>4. \A k \in Jobs : PhaseOf(k)' = CASE k = j -> "active"
                                        [] k \in Victims -> "forgotten"
                                        [] OTHER -> PhaseOf(k)
    <3> SUFFICES ASSUME NEW k \in Jobs
                 PROVE  PhaseOf(k)' = CASE k = j -> "active"
                                        [] k \in Victims -> "forgotten"
                                        [] OTHER -> PhaseOf(k)
      OBVIOUS
    <3>1. j \notin Victims /\ cancelEvent' = cancelEvent
      BY <1>1 DEF Start, Victims, Prunable
    <3>2. CASE k = j
      <4>1. status'[j] = "queued"
        BY <1>1 DEF Start, TypeOK
      <4>2. ~cancelEvent'[j]
        BY <1>1, <3>1 DEF Start, SteeringInv
      <4> QED
        BY <3>1, <3>2, <4>1, <4>2
    <3>3. CASE k # j /\ k \in Victims
      BY <1>1, <3>1, <3>3 DEF Start, TypeOK
    <3>4. CASE k # j /\ k \notin Victims
      BY <1>1, <3>1, <3>4 DEF Start, TypeOK
    <3> QED
      BY <3>2, <3>3, <3>4
  <2>5. box' = box
    BY <1>1 DEF Start
  <2> QED
    BY <2>1, <2>2, <2>3, <2>4, <2>5 DEF Promise!Begin
<1>2. ASSUME NEW j \in Jobs, NEW size \in Sizes, SendMessage(j, size)
      PROVE  Promise!Accept(j)
  BY <1>2 DEF SendMessage, LockFree, CanQueue, Queue, Promise!Accept, TypeOK,
              SteeringInv
<1>3. ASSUME NEW j \in Jobs, Cancel(j) PROVE Promise!AcceptCancel(j)
  BY <1>3 DEF Cancel, Promise!AcceptCancel, TypeOK
<1>4. ASSUME NEW j \in Jobs, CancelCloses(j) PROVE Promise!Deliver(j)
  BY <1>4 DEF CancelCloses, ClosedBox, Promise!Deliver, Promise!Unfinished,
              TypeOK, OutcomeInv
<1>5. ASSUME NEW j \in Jobs, TurnPolls(j) \/ PlanPolls(j) \/ FinalizeOrSteer(j)
      PROVE  Promise!Deliver(j)
  <2>1. status[j] = "running" /\ UNCHANGED <<status, cancelEvent>>
    BY <1>5 DEF TurnPolls, PlanPolls, FinalizeOrSteer, StatusFollowsWorker,
                AgentSteps
  <2>2. PICK f \in BOOLEAN : box' = [box EXCEPT ![j] = Drain(@, f)]
    BY <1>5 DEF TurnPolls, PlanPolls, FinalizeOrSteer, ReadBox
  <2>3. box[j] \in Mailbox
    BY DEF TypeOK
  <2>4. Drain(box[j], f).count = 0
    BY <2>3 DEF Drain, Mailbox
  <2>5. \A k \in Jobs : box'[k].count = IF k = j THEN 0 ELSE box[k].count
    BY <2>2, <2>4 DEF TypeOK
  <2> QED
    BY <2>1, <2>5 DEF Promise!Deliver, Promise!Unfinished
<1>6. ASSUME NEW j \in Jobs, FinishCommits(j) PROVE Promise!Finish(j)
  <2>1. status[j] = "running" /\ outcome[j] \in Terminal
    BY <1>6 DEF FinishCommits, TypeOK, StatusFollowsWorker, OutcomeInv
  <2>2. \A k \in Jobs : box'[k].count = IF k = j THEN 0 ELSE box[k].count
    BY <1>6 DEF FinishCommits, ClosedBox, TypeOK
  <2>3. \A k \in Jobs \ {j} : PhaseOf(k)' = PhaseOf(k)
    BY <1>6 DEF FinishCommits, TypeOK
  <2>4. CASE cancelEvent[j]
    <3>1. PhaseOf(j) = "cancelling" /\ PhaseOf(j)' = "cancelled"
      BY <1>6, <2>1, <2>4 DEF FinishCommits, CancellationWon, TypeOK
    <3> QED
      BY <2>2, <2>3, <3>1 DEF Promise!Finish
  <2>5. CASE ~cancelEvent[j] /\ outcome[j] = "completed"
    <3>1. PhaseOf(j) = "active" /\ PhaseOf(j)' = "completed"
      BY <1>6, <2>1, <2>5 DEF FinishCommits, CancellationWon, TypeOK
    <3>2. box[j].count = 0
      BY <2>5 DEF SteeringInv, MailboxAccounting
    <3> QED
      BY <2>2, <2>3, <3>1, <3>2 DEF Promise!Finish
  <2>6. CASE ~cancelEvent[j] /\ outcome[j] = "failed"
    <3>1. PhaseOf(j) = "active" /\ PhaseOf(j)' = "failed"
      BY <1>6, <2>1, <2>6 DEF FinishCommits, CancellationWon, TypeOK
    <3> QED
      BY <2>2, <2>3, <3>1 DEF Promise!Finish
  <2> QED
    BY <2>1, <2>4, <2>5, <2>6 DEF OutcomeInv
<1>7. ASSUME NEW j \in Jobs,
             \/ ClaimUsage(j) \/ RunJob(j) \/ SeeCancel(j) \/ AgentFails(j)
             \/ TurnBegins(j) \/ ProviderAnswers(j) \/ ToolRuns(j)
             \/ ToolFails(j) \/ FinishReleases(j)
             \/ \E persisted \in BOOLEAN : FinishUsageRecord(j, persisted)
      PROVE  Same
  BY <1>7
  DEF ClaimUsage, RunJob, SeeCancel, AgentFails, TurnBegins, ProviderAnswers,
      ToolRuns, ToolFails, FinishReleases, FinishUsageRecord, Promise!avars, TypeOK,
      StatusFollowsWorker
<1>8. ASSUME \/ StartFails \/ OtherTakesLease \/ OtherFreesLease
             \/ AcknowledgeMutations \/ UNCHANGED vars
             \/ \E c \in Callers : Sync(c)
      PROVE  Same
  BY <1>8
  DEF StartFails, OtherTakesLease, OtherFreesLease, AcknowledgeMutations, Sync,
      RunSync, SyncMutates, RunSyncEnds, vars, Promise!avars
<1> QED
  BY <1>1, <1>2, <1>3, <1>4, <1>5, <1>6, <1>7, <1>8
  DEF Next, Worker, Methods, Promise!Next

(* The manager implements SteerableJobs: whatever its threads do, a caller *)
(* sees one job at a time, final outcomes, cancellations that win and      *)
(* completed jobs that were shown all their steering.                      *)
THEOREM ManagerKeepsPromise == Spec => KeepsPromise
  BY InitMaps, StepMaps, Strengthening, PTL DEF Spec, KeepsPromise, Promise!Spec

-------------------------------------------------------------------------------
(* What a table keeps of its finished jobs.                                *)

Less == {p \in Nat \X Nat : p[1] < p[2]}

(* A set of numbers that is not empty has a least one.                     *)
LEMMA Least ==
  ASSUME NEW T, T \subseteq Nat, T # {}
  PROVE  \E m \in T : \A j \in T : m <= j
<1>1. IsWellFoundedOn(Less, Nat)
  <2>1. OpToRel(<, Nat) = Less
    BY DEF OpToRel, Less
  <2> QED
    BY <2>1, NatLessThanWellFounded
<1>2. PICK m \in T : \A j \in T : <<j, m>> \notin Less
  BY <1>1, WFMin
<1>3. \A j \in T : m <= j
  <2> TAKE j \in T
  <2>1. j \in Nat /\ m \in Nat /\ <<j, m>> \notin Less
    BY <1>2
  <2>2. ~(j < m)
    BY <2>1 DEF Less
  <2> QED
    BY <2>1, <2>2
<1> QED
  BY <1>3

(* Those of a set that come after an element, by their times.              *)
After(S, time, j) == {k \in S : time[k] > time[j]}

LEMMA AfterCounts ==
  ASSUME NEW S, IsFiniteSet(S), NEW time, \A k \in S : time[k] \in Nat, NEW j \in S
  PROVE  /\ IsFiniteSet(After(S, time, j)) /\ Cardinality(After(S, time, j)) \in Nat
         /\ \A k \in After(S, time, j) :
              /\ After(S, time, k) \subseteq After(S, time, j)
              /\ Cardinality(After(S, time, k)) < Cardinality(After(S, time, j))
<1>1. \A k \in S : /\ After(S, time, k) \in SUBSET S /\ IsFiniteSet(After(S, time, k))
                   /\ Cardinality(After(S, time, k)) \in Nat
  <2> TAKE k \in S
  <2>1. After(S, time, k) \in SUBSET S
    BY DEF After
  <2> QED
    BY <2>1, FS_Subset, FS_CardinalityType
<1>2. ASSUME NEW k \in After(S, time, j)
      PROVE  /\ After(S, time, k) \subseteq After(S, time, j)
             /\ Cardinality(After(S, time, k)) < Cardinality(After(S, time, j))
  <2>1. k \in S /\ time[k] > time[j] /\ time[k] \in Nat /\ time[j] \in Nat
    BY DEF After
  <2>2. After(S, time, k) \in SUBSET After(S, time, j)
    BY <2>1 DEF After
  <2>3. After(S, time, k) # After(S, time, j)
    <3>1. k \notin After(S, time, k)
      BY <2>1 DEF After
    <3> QED
      BY <3>1
  <2>4. /\ Cardinality(After(S, time, k)) <= Cardinality(After(S, time, j))
        /\ Cardinality(After(S, time, j)) = Cardinality(After(S, time, k))
             => After(S, time, j) = After(S, time, k)
    BY <1>1, <2>2, FS_Subset
  <2> QED
    BY <1>1, <2>1, <2>2, <2>3, <2>4
<1> QED
  BY <1>1, <1>2

(* Those with fewer than n after them.                                     *)
Latest(S, time, n) == {k \in S : Cardinality(After(S, time, k)) < n}

(* Where n come after an element, n of the latest do.                      *)
LEMMA LatestStay ==
  ASSUME NEW S, IsFiniteSet(S), NEW time, \A k \in S : time[k] \in Nat, NEW n \in Nat,
         NEW j \in S, Cardinality(After(S, time, j)) >= n
  PROVE  Cardinality(After(S, time, j) \cap Latest(S, time, n)) >= n
<1> DEFINE A == After(S, time, j)
           T == A \cap Latest(S, time, n)
           Count(k) == Cardinality(After(S, time, k))
<1>1. /\ IsFiniteSet(A) /\ Cardinality(A) \in Nat /\ A \subseteq S
      /\ T \in SUBSET A
  <2>1. A \subseteq S
    BY DEF After
  <2> QED
    BY <2>1, AfterCounts
<1>2. IsFiniteSet(T) /\ Cardinality(T) \in Nat
  BY <1>1, FS_Subset, FS_CardinalityType
<1> SUFFICES ASSUME Cardinality(T) < n PROVE FALSE
  BY <1>2
<1>3. A \ T # {}
  <2>1. Cardinality(T) # Cardinality(A)
    BY <1>1, <1>2
  <2> QED
    BY <1>1, <2>1
<1>4. \A k \in S : Count(k) \in Nat
  BY AfterCounts
<1> DEFINE C == {Count(k) : k \in A \ T}
<1>5. \E m \in C : \A c \in C : m <= c
  <2>1. C \subseteq Nat /\ C # {}
    BY <1>1, <1>3, <1>4
  <2> HIDE DEF C
  <2> QED
    BY <2>1, Least
<1>6. PICK k \in A \ T : \A i \in A \ T : Count(k) <= Count(i)
  BY <1>5
<1>7. k \in S /\ Count(k) \in Nat
  BY <1>1, <1>4, <1>6
<1>8. After(S, time, k) \in SUBSET T
  <2> SUFFICES ASSUME NEW i \in After(S, time, k) PROVE i \in T
    OBVIOUS
  <2>1. i \in A
    BY <1>6, AfterCounts
  <2>2. Count(i) < Count(k) /\ Count(i) \in Nat
    BY <1>1, <1>4, <1>7, <2>1, AfterCounts
  <2> QED
    BY <1>6, <1>7, <2>1, <2>2
<1>9. Count(k) <= Cardinality(T)
  BY <1>2, <1>8, FS_Subset
<1>10. k \in Latest(S, time, n)
  BY <1>2, <1>7, <1>9 DEF Latest
<1> QED
  BY <1>6, <1>10

(* No more than n are the latest, when no two have the same time.          *)
LEMMA LatestAreFew ==
  ASSUME NEW S, IsFiniteSet(S), NEW time, \A k \in S : time[k] \in Nat, NEW n \in Nat,
         \A i, j \in S : time[i] = time[j] => i = j
  PROVE  IsFiniteSet(Latest(S, time, n)) /\ Cardinality(Latest(S, time, n)) <= n
<1> DEFINE T == Latest(S, time, n)
<1>1. T \in SUBSET S /\ IsFiniteSet(T) /\ Cardinality(T) \in Nat
  <2>1. T \in SUBSET S
    BY DEF Latest
  <2> QED
    BY <2>1, FS_Subset, FS_CardinalityType
<1>2. CASE T = {}
  BY <1>1, <1>2, FS_EmptySet
<1>3. CASE T # {}
  <2> DEFINE C == {time[k] : k \in T}
  <2>1. \E m \in C : \A c \in C : m <= c
    <3>1. C \subseteq Nat /\ C # {}
      BY <1>1, <1>3
    <3> HIDE DEF C
    <3> QED
      BY <3>1, Least
  <2>2. PICK k \in T : \A i \in T : time[k] <= time[i]
    BY <2>1
  <2>3. k \in S /\ Cardinality(After(S, time, k)) < n
    BY <2>2 DEF Latest
  <2>4. T \ {k} \in SUBSET After(S, time, k)
    BY <1>1, <2>2, <2>3 DEF After
  <2>5. IsFiniteSet(After(S, time, k)) /\ Cardinality(After(S, time, k)) \in Nat
    BY <2>3, AfterCounts
  <2>6. Cardinality(T \ {k}) <= Cardinality(After(S, time, k))
    BY <2>4, <2>5, FS_Subset
  <2>7. Cardinality(T \ {k}) = Cardinality(T) - 1
    BY <1>1, <2>2, FS_RemoveElement
  <2> QED
    BY <1>1, <2>3, <2>5, <2>6, <2>7
<1> QED
  BY <1>1, <1>2, <1>3

-------------------------------------------------------------------------------
(* The jobs of a table, whatever their number: where a worker stands goes  *)
(* with its job's status, and no two jobs end at the same time.            *)
Tabled(S) ==
  /\ status \in [S -> Statuses] /\ pc \in [S -> WorkerPC]
  /\ outcome \in [S -> Terminal \cup {"none"}]
  /\ finishedAt \in [S -> Nat] /\ clock \in Nat
  /\ \A j \in S : /\ status[j] = "unused" => pc[j] = "none"
                  /\ status[j] \in Terminal => pc[j] = "exited"
                  /\ pc[j] \in {"stopped", "commit"} => outcome[j] # "none"
                  /\ finishedAt[j] <= clock
  /\ \A i, j \in S : status[i] \in Terminal /\ status[j] \in Terminal
                       => (finishedAt[i] = finishedAt[j] => i = j)

(* A step of a worker that leaves its job's status alone.                  *)
LEMMA JobsWorkerSteps ==
  ASSUME Tabled(Jobs), NEW j \in Jobs, pc[j] \in AgentSteps \cup {"stopped"},
         NEW to \in AgentSteps \cup {"stopped", "commit"}, NEW how \in Terminal,
         pc' = [pc EXCEPT ![j] = to],
         \/ to \in AgentSteps /\ outcome' = outcome
         \/ to = "stopped" /\ outcome' = [outcome EXCEPT ![j] = how]
         \/ pc[j] = "stopped" /\ outcome' = outcome,
         UNCHANGED <<status, finishedAt, clock>>
  PROVE  Tabled(Jobs)'
  BY DEF Tabled, WorkerPC, AgentSteps, AgentSteps, Terminal

LEMMA JobsTableStep == Tabled(Jobs) /\ [Next]_vars => Tabled(Jobs)'
<1> SUFFICES ASSUME Tabled(Jobs), [Next]_vars PROVE Tabled(Jobs)'
  OBVIOUS
<1> USE DEF vars, jobVars, usageVars, retainVars, slotVars, workerVars
<1>1. ASSUME NEW j \in Jobs, Start(j) PROVE Tabled(Jobs)'
  BY <1>1 DEF Start, Tabled, Statuses, WorkerPC, Live, Terminal
<1>2. ASSUME NEW j \in Jobs, RunJob(j) PROVE Tabled(Jobs)'
  BY <1>2 DEF RunJob, Tabled, Statuses, WorkerPC, Live, Terminal, AgentSteps
<1>3. ASSUME NEW j \in Jobs, SeeCancel(j) \/ AgentFails(j) \/ ToolFails(j) PROVE Tabled(Jobs)'
  <2>1. \E how \in Terminal : \E what : Stop(j, how, what)
    BY <1>3 DEF SeeCancel, AgentFails, ToolFails, Terminal
  <2>2. pc[j] \in AgentSteps /\ UNCHANGED <<status, finishedAt, clock>>
    BY <1>3 DEF SeeCancel, AgentFails, ToolFails, AgentSteps
  <2> QED
    BY <2>1, <2>2, JobsWorkerSteps DEF Stop
<1>4. ASSUME NEW j \in Jobs,
             TurnBegins(j) \/ TurnPolls(j) \/ ProviderAnswers(j) \/ PlanPolls(j)
               \/ ToolRuns(j)
      PROVE  Tabled(Jobs)'
  <2>1. /\ pc[j] \in AgentSteps /\ UNCHANGED <<status, finishedAt, clock, outcome>>
        /\ \E to \in AgentSteps : pc' = [pc EXCEPT ![j] = to]
    BY <1>4 DEF TurnBegins, TurnPolls, ProviderAnswers, PlanPolls, ToolRuns, AgentSteps
  <2> QED
    BY <2>1, JobsWorkerSteps DEF Terminal
<1>5. ASSUME NEW j \in Jobs, FinalizeOrSteer(j) PROVE Tabled(Jobs)'
  <2>1. /\ pc[j] \in AgentSteps /\ UNCHANGED <<status, finishedAt, clock>>
        /\ \/ pc' = [pc EXCEPT ![j] = "turn"] /\ outcome' = outcome
           \/ Stop(j, "completed", Returned(mutated[j]))
    BY <1>5 DEF FinalizeOrSteer, AgentSteps
  <2>2. "turn" \in AgentSteps /\ "completed" \in Terminal
    BY DEF AgentSteps, Terminal
  <2> QED
    BY <2>1, <2>2, JobsWorkerSteps DEF Stop
<1>6. ASSUME NEW j \in Jobs, FinishReleases(j) PROVE Tabled(Jobs)'
  BY <1>6, JobsWorkerSteps DEF FinishReleases, Terminal
<1>7. ASSUME NEW j \in Jobs, FinishCommits(j) PROVE Tabled(Jobs)'
  <2>1. PICK final \in Terminal : status' = [status EXCEPT ![j] = final]
    <3>1. outcome[j] \in Terminal
      BY <1>7 DEF FinishCommits, Tabled
    <3> QED
      BY <1>7, <3>1 DEF FinishCommits, Terminal
  <2>2. /\ finishedAt' = [finishedAt EXCEPT ![j] = clock + 1] /\ clock' = clock + 1
        /\ pc[j] = "commit" /\ pc' = [pc EXCEPT ![j] = "exited"]
        /\ outcome' = [outcome EXCEPT ![j] = "none"]
    BY <1>7 DEF FinishCommits
  <2>3. status[j] \notin Terminal
    BY <2>2 DEF Tabled
  <2> QED
    BY <2>1, <2>2, <2>3 DEF Tabled, Statuses, WorkerPC, Live, Terminal
<1>8. CASE UNCHANGED <<status, pc, outcome, finishedAt, clock>>
  BY <1>8 DEF Tabled
<1>9. ASSUME NEW j \in Jobs, Methods(j), ~Start(j) PROVE UNCHANGED <<status, pc, outcome, finishedAt, clock>>
  BY <1>9 DEF Methods, Cancel, CancelCloses, ClaimUsage, SendMessage, FinishUsageRecord
<1>10. ASSUME NEW c, Sync(c) PROVE UNCHANGED <<status, pc, outcome, finishedAt, clock>>
  BY <1>10 DEF Sync, RunSync, SyncMutates, RunSyncEnds
<1>11. CASE StartFails \/ OtherTakesLease \/ OtherFreesLease \/ AcknowledgeMutations
  BY <1>8, <1>11 DEF StartFails, OtherTakesLease, OtherFreesLease, AcknowledgeMutations
<1>12. CASE UNCHANGED vars
  BY <1>8, <1>12
<1> QED
  BY <1>1, <1>2, <1>3, <1>4, <1>5, <1>6, <1>7, <1>8, <1>9, <1>10, <1>11, <1>12
     DEF Next, Worker

(* A step of a worker that leaves its job's status alone.                  *)
LEMMA TableWorkerSteps ==
  ASSUME Tabled(TableJobs), NEW j \in TableJobs, pc[j] \in Table!AgentSteps \cup {"stopped"},
         NEW to \in Table!AgentSteps \cup {"stopped", "commit"}, NEW how \in Terminal,
         pc' = [pc EXCEPT ![j] = to],
         \/ to \in Table!AgentSteps /\ outcome' = outcome
         \/ to = "stopped" /\ outcome' = [outcome EXCEPT ![j] = how]
         \/ pc[j] = "stopped" /\ outcome' = outcome,
         UNCHANGED <<status, finishedAt, clock>>
  PROVE  Tabled(TableJobs)'
  BY DEF Tabled, WorkerPC, AgentSteps, Table!AgentSteps, Terminal

LEMMA TableTableStep == Tabled(TableJobs) /\ [Table!Next]_vars => Tabled(TableJobs)'
<1> SUFFICES ASSUME Tabled(TableJobs), [Table!Next]_vars PROVE Tabled(TableJobs)'
  OBVIOUS
<1> USE DEF Table!vars, Table!jobVars, Table!usageVars, Table!retainVars, Table!slotVars, Table!workerVars, vars, jobVars, usageVars, retainVars, slotVars, workerVars
<1>1. ASSUME NEW j \in TableJobs, Table!Start(j) PROVE Tabled(TableJobs)'
  BY <1>1 DEF Table!Start, Tabled, Statuses, WorkerPC, Live, Terminal
<1>2. ASSUME NEW j \in TableJobs, Table!RunJob(j) PROVE Tabled(TableJobs)'
  BY <1>2 DEF Table!RunJob, Tabled, Statuses, WorkerPC, Live, Terminal, AgentSteps
<1>3. ASSUME NEW j \in TableJobs, Table!SeeCancel(j) \/ Table!AgentFails(j) \/ Table!ToolFails(j) PROVE Tabled(TableJobs)'
  <2>1. \E how \in Terminal : \E what : Table!Stop(j, how, what)
    BY <1>3 DEF Table!SeeCancel, Table!AgentFails, Table!ToolFails, Terminal
  <2>2. pc[j] \in Table!AgentSteps /\ UNCHANGED <<status, finishedAt, clock>>
    BY <1>3 DEF Table!SeeCancel, Table!AgentFails, Table!ToolFails, Table!AgentSteps
  <2> QED
    BY <2>1, <2>2, TableWorkerSteps DEF Table!Stop
<1>4. ASSUME NEW j \in TableJobs,
             Table!TurnBegins(j) \/ Table!TurnPolls(j) \/ Table!ProviderAnswers(j) \/ Table!PlanPolls(j)
               \/ Table!ToolRuns(j)
      PROVE  Tabled(TableJobs)'
  <2>1. /\ pc[j] \in Table!AgentSteps /\ UNCHANGED <<status, finishedAt, clock, outcome>>
        /\ \E to \in Table!AgentSteps : pc' = [pc EXCEPT ![j] = to]
    BY <1>4 DEF Table!TurnBegins, Table!TurnPolls, Table!ProviderAnswers, Table!PlanPolls, Table!ToolRuns, Table!AgentSteps
  <2> QED
    BY <2>1, TableWorkerSteps DEF Terminal
<1>5. ASSUME NEW j \in TableJobs, Table!FinalizeOrSteer(j) PROVE Tabled(TableJobs)'
  <2>1. /\ pc[j] \in Table!AgentSteps /\ UNCHANGED <<status, finishedAt, clock>>
        /\ \/ pc' = [pc EXCEPT ![j] = "turn"] /\ outcome' = outcome
           \/ Table!Stop(j, "completed", Table!Returned(mutated[j]))
    BY <1>5 DEF Table!FinalizeOrSteer, Table!AgentSteps
  <2>2. "turn" \in Table!AgentSteps /\ "completed" \in Terminal
    BY DEF Table!AgentSteps, Terminal
  <2> QED
    BY <2>1, <2>2, TableWorkerSteps DEF Table!Stop
<1>6. ASSUME NEW j \in TableJobs, Table!FinishReleases(j) PROVE Tabled(TableJobs)'
  BY <1>6, TableWorkerSteps DEF Table!FinishReleases, Terminal
<1>7. ASSUME NEW j \in TableJobs, Table!FinishCommits(j) PROVE Tabled(TableJobs)'
  <2>1. PICK final \in Terminal : status' = [status EXCEPT ![j] = final]
    <3>1. outcome[j] \in Terminal
      BY <1>7 DEF Table!FinishCommits, Tabled
    <3> QED
      BY <1>7, <3>1 DEF Table!FinishCommits, Terminal
  <2>2. /\ finishedAt' = [finishedAt EXCEPT ![j] = clock + 1] /\ clock' = clock + 1
        /\ pc[j] = "commit" /\ pc' = [pc EXCEPT ![j] = "exited"]
        /\ outcome' = [outcome EXCEPT ![j] = "none"]
    BY <1>7 DEF Table!FinishCommits
  <2>3. status[j] \notin Terminal
    BY <2>2 DEF Tabled
  <2> QED
    BY <2>1, <2>2, <2>3 DEF Tabled, Statuses, WorkerPC, Live, Terminal
<1>8. CASE UNCHANGED <<status, pc, outcome, finishedAt, clock>>
  BY <1>8 DEF Tabled
<1>9. ASSUME NEW j \in TableJobs, Table!Methods(j), ~Table!Start(j) PROVE UNCHANGED <<status, pc, outcome, finishedAt, clock>>
  BY <1>9 DEF Table!Methods, Table!Cancel, Table!CancelCloses, Table!ClaimUsage, Table!SendMessage, Table!FinishUsageRecord
<1>10. ASSUME NEW c, Table!Sync(c) PROVE UNCHANGED <<status, pc, outcome, finishedAt, clock>>
  BY <1>10 DEF Table!Sync, Table!RunSync, Table!SyncMutates, Table!RunSyncEnds
<1>11. CASE Table!StartFails \/ Table!OtherTakesLease \/ Table!OtherFreesLease \/ Table!AcknowledgeMutations
  BY <1>8, <1>11 DEF Table!StartFails, Table!OtherTakesLease, Table!OtherFreesLease, Table!AcknowledgeMutations
<1>12. CASE UNCHANGED vars
  BY <1>8, <1>12
<1> QED
  BY <1>1, <1>2, <1>3, <1>4, <1>5, <1>6, <1>7, <1>8, <1>9, <1>10, <1>11, <1>12
     DEF Table!Next, Table!Worker

(* The two ways in which an instance counts are one.                       *)
LEMMA TableCounts == \A S : Table!Cardinality(S) = Cardinality(S)
  BY DEF Table!Cardinality, Cardinality

LEMMA JobsRetains ==
  ASSUME Tabled(Jobs), [Next]_vars, NEW j \in Jobs
  PROVE  ResultRetained(j) /\ TableBounded(j)
<1> DEFINE P == Prunable
           n == MaxRetained - 1
           Ends == status[j] \in Terminal /\ status'[j] # status[j]
           Begins == status[j] = "unused" /\ status'[j] = "queued"
<1>1. IsFiniteSet(Jobs) /\ MaxRetained \in Nat /\ n \in Nat
  BY BoundAssumption, FiniteAssumption
<1>2. P \in SUBSET Jobs /\ IsFiniteSet(P) /\ \A k \in P : finishedAt[k] \in Nat
  <2>1. P \in SUBSET Jobs
    BY DEF Prunable
  <2> QED
    BY <1>1, <2>1, FS_Subset DEF Tabled
<1>3. (Ends \/ Begins) => \E k \in Jobs : Start(k)
  <2> SUFFICES ASSUME Ends \/ Begins, \A k \in Jobs : ~Start(k)
               PROVE  FALSE
    OBVIOUS
  <2>0. status' # status /\ status'[j] # status[j] /\ pc[j] \in {"none", "exited"}
    BY DEF Tabled
  <2>1. \A k \in Jobs : Methods(k) => status' = status
    BY DEF Methods, Cancel, CancelCloses, ClaimUsage, SendMessage, FinishUsageRecord, jobVars
  <2>2. \A c : Sync(c) => status' = status
    BY DEF Sync, RunSync, SyncMutates, RunSyncEnds, jobVars
  <2>3. ~StartFails /\ ~OtherTakesLease /\ ~OtherFreesLease /\ ~AcknowledgeMutations
    BY <2>0 DEF StartFails, OtherTakesLease, OtherFreesLease, AcknowledgeMutations, jobVars
  <2>4. \A k \in Jobs : ~RunJob(k)
    BY <2>0 DEF RunJob, Tabled
  <2>5. \A k \in Jobs : ~FinishCommits(k)
    BY <2>0 DEF FinishCommits, Tabled
  <2>6. \A k \in Jobs : ~SeeCancel(k) /\ ~AgentFails(k) /\ ~TurnBegins(k)
                       /\ ~ToolRuns(k) /\ ~ToolFails(k) /\ ~FinishReleases(k) /\ ~ProviderAnswers(k)
    BY <2>0 DEF SeeCancel, AgentFails, TurnBegins, ToolRuns, ToolFails, FinishReleases, ProviderAnswers, jobVars
  <2>7. \A k \in Jobs : ~TurnPolls(k) /\ ~PlanPolls(k) /\ ~FinalizeOrSteer(k)
    BY <2>0 DEF TurnPolls, PlanPolls, FinalizeOrSteer
  <2>8. ~UNCHANGED vars
    BY <2>0 DEF vars, jobVars
  <2> QED
    BY <2>0, <2>1, <2>2, <2>3, <2>4, <2>5, <2>6, <2>7, <2>8 DEF Next, Worker
<1>4. ASSUME NEW k \in Jobs, Start(k)
      PROVE  /\ status[k] = "unused" /\ status'[k] = "queued" /\ usage' = usage
             /\ \A i \in Jobs \ {k} :
                  status'[i] = IF i \in P /\ i \notin Latest(P, finishedAt, n) THEN "pruned"
                               ELSE status[i]
  <2>1. \A i \in P : Newer(i) = After(P, finishedAt, i)
    BY DEF Newer, After
  <2>2. \A i \in P : Cardinality(After(P, finishedAt, i)) \in Nat
    BY <1>2, AfterCounts
  <2>3. \A i \in Jobs : i \in Victims <=> i \in P /\ i \notin Latest(P, finishedAt, n)
    BY <1>1, <1>2, <2>1, <2>2 DEF Victims, Latest
  <2>4. /\ status[k] = "unused" /\ usage' = usage
        /\ status' = [[i \in Jobs |-> IF i \in Victims THEN "pruned" ELSE status[i]]
                       EXCEPT ![k] = "queued"]
    BY <1>4 DEF Start, usageVars
  <2>5. ASSUME NEW i \in Jobs \ {k}
        PROVE  status'[i] = IF i \in Victims THEN "pruned" ELSE status[i]
    BY <2>4
  <2>6. ASSUME NEW i \in Jobs \ {k}
        PROVE  status'[i] = IF i \in P /\ i \notin Latest(P, finishedAt, n) THEN "pruned"
                            ELSE status[i]
    <3>1. i \in Victims <=> i \in P /\ i \notin Latest(P, finishedAt, n)
      BY <2>3
    <3> HIDE DEF P, n
    <3> QED
      BY <2>5, <3>1
  <2>7. status'[k] = "queued" /\ k \in Jobs
    BY <2>4
  <2> QED
    BY <2>4, <2>6, <2>7
<1>5. ResultRetained(j)
  <2> SUFFICES ASSUME Ends
               PROVE  /\ status'[j] = "pruned"
                      /\ \E k \in Jobs : status[k] = "unused" /\ status'[k] = "queued"
                      /\ Cardinality({k \in Jobs :
                                           /\ status'[k] \in Terminal
                                           /\ finishedAt[k] > finishedAt[j]}) >= MaxRetained - 1
    BY DEF ResultRetained, Terminal, Terminal
  <2>1. PICK k \in Jobs : Start(k)
    BY <1>3
  <2> DEFINE kept == {i \in Jobs : status'[i] \in Terminal /\ finishedAt[i] > finishedAt[j]}
             stay == After(P, finishedAt, j) \cap Latest(P, finishedAt, n)
  <2>2. j # k /\ status'[j] = "pruned" /\ j \in P /\ j \notin Latest(P, finishedAt, n)
    BY <1>4, <2>1 DEF Terminal
  <2>3. Cardinality(After(P, finishedAt, j)) >= n
    <3>1. Cardinality(After(P, finishedAt, j)) \in Nat
      BY <1>2, <2>2, AfterCounts
    <3> QED
      BY <1>1, <2>2, <3>1 DEF Latest
  <2>4. Cardinality(stay) >= n
    BY <1>1, <1>2, <2>2, <2>3, LatestStay
  <2>5. stay \in SUBSET kept
    <3> SUFFICES ASSUME NEW i \in stay PROVE i \in kept
      OBVIOUS
    <3>1. i \in P /\ i \in Latest(P, finishedAt, n) /\ finishedAt[i] > finishedAt[j]
      BY DEF After
    <3>2. i \in Jobs /\ status[i] \in Terminal
      BY <3>1 DEF Prunable
    <3>3. i # k
      BY <1>4, <2>1, <3>2 DEF Terminal
    <3> QED
      BY <1>4, <2>1, <3>1, <3>2, <3>3
  <2>6. IsFiniteSet(kept) /\ Cardinality(kept) \in Nat /\ Cardinality(stay) \in Nat
    <3>1. kept \in SUBSET Jobs /\ stay \in SUBSET P
      BY DEF After
    <3> QED
      BY <1>1, <1>2, <3>1, FS_Subset, FS_CardinalityType
  <2>7. Cardinality(stay) <= Cardinality(kept)
    BY <2>5, <2>6, FS_Subset
  <2>8. Cardinality(kept) >= MaxRetained - 1
    BY <1>1, <2>4, <2>6, <2>7
  <2>9. Cardinality(kept) >= MaxRetained - 1
    BY <2>8
  <2>10. \E i \in Jobs : status[i] = "unused" /\ status'[i] = "queued"
    BY <1>4, <2>1
  <2> QED
    BY <2>2, <2>9, <2>10
<1>6. TableBounded(j)
  <2> DEFINE left == {i \in Jobs : status'[i] \in Terminal /\ usage'[i] # "recording"}
  <2> SUFFICES ASSUME Begins PROVE Cardinality(left) < MaxRetained
    BY DEF TableBounded
  <2>1. PICK k \in Jobs : Start(k)
    BY <1>3
  <2>2. left \in SUBSET Latest(P, finishedAt, n)
    <3> SUFFICES ASSUME NEW i \in left PROVE i \in Latest(P, finishedAt, n)
      OBVIOUS
    <3>1. i # k
      BY <1>4, <2>1 DEF Terminal
    <3>2. status'[i] = status[i] /\ usage'[i] = usage[i]
      BY <1>4, <2>1, <3>1 DEF Terminal
    <3>3. i \in P
      BY <3>2 DEF Prunable
    <3> QED
      BY <1>4, <2>1, <3>1, <3>3 DEF Terminal
  <2>3. \A i, k_1 \in P : finishedAt[i] = finishedAt[k_1] => i = k_1
    BY DEF Tabled, Prunable, Terminal, Terminal
  <2>4. IsFiniteSet(Latest(P, finishedAt, n)) /\ Cardinality(Latest(P, finishedAt, n)) <= n
    BY <1>1, <1>2, <2>3, LatestAreFew
  <2>5. /\ Cardinality(left) <= Cardinality(Latest(P, finishedAt, n))
        /\ Cardinality(left) \in Nat /\ Cardinality(Latest(P, finishedAt, n)) \in Nat
    BY <2>2, <2>4, FS_Subset, FS_CardinalityType
  <2>6. Cardinality(left) < MaxRetained
    BY <1>1, <2>4, <2>5
  <2> QED
    BY <2>6
<1> QED
  BY <1>5, <1>6

LEMMA TableRetains ==
  ASSUME Tabled(TableJobs), [Table!Next]_vars, NEW j \in TableJobs
  PROVE  Table!ResultRetained(j) /\ Table!TableBounded(j)
<1> DEFINE P == Table!Prunable
           n == TableRetained - 1
           Ends == status[j] \in Terminal /\ status'[j] # status[j]
           Begins == status[j] = "unused" /\ status'[j] = "queued"
<1>1. IsFiniteSet(TableJobs) /\ TableRetained \in Nat /\ n \in Nat
  BY TableAssumption
<1>2. P \in SUBSET TableJobs /\ IsFiniteSet(P) /\ \A k \in P : finishedAt[k] \in Nat
  <2>1. P \in SUBSET TableJobs
    BY DEF Table!Prunable
  <2> QED
    BY <1>1, <2>1, FS_Subset DEF Tabled
<1>3. (Ends \/ Begins) => \E k \in TableJobs : Table!Start(k)
  <2> SUFFICES ASSUME Ends \/ Begins, \A k \in TableJobs : ~Table!Start(k)
               PROVE  FALSE
    OBVIOUS
  <2>0. status' # status /\ status'[j] # status[j] /\ pc[j] \in {"none", "exited"}
    BY DEF Tabled
  <2>1. \A k \in TableJobs : Table!Methods(k) => status' = status
    BY DEF Table!Methods, Table!Cancel, Table!CancelCloses, Table!ClaimUsage, Table!SendMessage, Table!FinishUsageRecord, Table!jobVars
  <2>2. \A c : Table!Sync(c) => status' = status
    BY DEF Table!Sync, Table!RunSync, Table!SyncMutates, Table!RunSyncEnds, Table!jobVars
  <2>3. ~Table!StartFails /\ ~Table!OtherTakesLease /\ ~Table!OtherFreesLease /\ ~Table!AcknowledgeMutations
    BY <2>0 DEF Table!StartFails, Table!OtherTakesLease, Table!OtherFreesLease, Table!AcknowledgeMutations, Table!jobVars
  <2>4. \A k \in TableJobs : ~Table!RunJob(k)
    BY <2>0 DEF Table!RunJob, Tabled
  <2>5. \A k \in TableJobs : ~Table!FinishCommits(k)
    BY <2>0 DEF Table!FinishCommits, Tabled
  <2>6. \A k \in TableJobs : ~Table!SeeCancel(k) /\ ~Table!AgentFails(k) /\ ~Table!TurnBegins(k)
                       /\ ~Table!ToolRuns(k) /\ ~Table!ToolFails(k) /\ ~Table!FinishReleases(k) /\ ~Table!ProviderAnswers(k)
    BY <2>0 DEF Table!SeeCancel, Table!AgentFails, Table!TurnBegins, Table!ToolRuns, Table!ToolFails, Table!FinishReleases, Table!ProviderAnswers, Table!jobVars
  <2>7. \A k \in TableJobs : ~Table!TurnPolls(k) /\ ~Table!PlanPolls(k) /\ ~Table!FinalizeOrSteer(k)
    BY <2>0 DEF Table!TurnPolls, Table!PlanPolls, Table!FinalizeOrSteer
  <2>8. ~UNCHANGED vars
    BY <2>0 DEF vars, jobVars
  <2> QED
    BY <2>0, <2>1, <2>2, <2>3, <2>4, <2>5, <2>6, <2>7, <2>8 DEF Table!Next, Table!Worker
<1>4. ASSUME NEW k \in TableJobs, Table!Start(k)
      PROVE  /\ status[k] = "unused" /\ status'[k] = "queued" /\ usage' = usage
             /\ \A i \in TableJobs \ {k} :
                  status'[i] = IF i \in P /\ i \notin Latest(P, finishedAt, n) THEN "pruned"
                               ELSE status[i]
  <2>1. \A i \in P : Table!Newer(i) = After(P, finishedAt, i)
    BY DEF Table!Newer, After
  <2>2. \A i \in P : Cardinality(After(P, finishedAt, i)) \in Nat
    BY <1>2, AfterCounts
  <2>3. \A i \in TableJobs : i \in Table!Victims <=> i \in P /\ i \notin Latest(P, finishedAt, n)
    BY <1>1, <1>2, <2>1, <2>2, TableCounts DEF Table!Victims, Latest
  <2>4. /\ status[k] = "unused" /\ usage' = usage
        /\ status' = [[i \in TableJobs |-> IF i \in Table!Victims THEN "pruned" ELSE status[i]]
                       EXCEPT ![k] = "queued"]
    BY <1>4 DEF Table!Start, Table!usageVars
  <2>5. ASSUME NEW i \in TableJobs \ {k}
        PROVE  status'[i] = IF i \in Table!Victims THEN "pruned" ELSE status[i]
    BY <2>4
  <2>6. ASSUME NEW i \in TableJobs \ {k}
        PROVE  status'[i] = IF i \in P /\ i \notin Latest(P, finishedAt, n) THEN "pruned"
                            ELSE status[i]
    <3>1. i \in Table!Victims <=> i \in P /\ i \notin Latest(P, finishedAt, n)
      BY <2>3
    <3> HIDE DEF P, n
    <3> QED
      BY <2>5, <3>1
  <2>7. status'[k] = "queued" /\ k \in TableJobs
    BY <2>4
  <2> QED
    BY <2>4, <2>6, <2>7
<1>5. Table!ResultRetained(j)
  <2> SUFFICES ASSUME Ends
               PROVE  /\ status'[j] = "pruned"
                      /\ \E k \in TableJobs : status[k] = "unused" /\ status'[k] = "queued"
                      /\ Table!Cardinality({k \in TableJobs :
                                           /\ status'[k] \in Table!Terminal
                                           /\ finishedAt[k] > finishedAt[j]}) >= TableRetained - 1
    BY DEF Table!ResultRetained, Table!Terminal, Terminal
  <2>1. PICK k \in TableJobs : Table!Start(k)
    BY <1>3
  <2> DEFINE kept == {i \in TableJobs : status'[i] \in Table!Terminal /\ finishedAt[i] > finishedAt[j]}
             stay == After(P, finishedAt, j) \cap Latest(P, finishedAt, n)
  <2>2. j # k /\ status'[j] = "pruned" /\ j \in P /\ j \notin Latest(P, finishedAt, n)
    BY <1>4, <2>1 DEF Terminal
  <2>3. Cardinality(After(P, finishedAt, j)) >= n
    <3>1. Cardinality(After(P, finishedAt, j)) \in Nat
      BY <1>2, <2>2, AfterCounts
    <3> QED
      BY <1>1, <2>2, <3>1 DEF Latest
  <2>4. Cardinality(stay) >= n
    BY <1>1, <1>2, <2>2, <2>3, LatestStay
  <2>5. stay \in SUBSET kept
    <3> SUFFICES ASSUME NEW i \in stay PROVE i \in kept
      OBVIOUS
    <3>1. i \in P /\ i \in Latest(P, finishedAt, n) /\ finishedAt[i] > finishedAt[j]
      BY DEF After
    <3>2. i \in TableJobs /\ status[i] \in Table!Terminal
      BY <3>1 DEF Table!Prunable
    <3>3. i # k
      BY <1>4, <2>1, <3>2 DEF Table!Terminal
    <3> QED
      BY <1>4, <2>1, <3>1, <3>2, <3>3
  <2>6. IsFiniteSet(kept) /\ Cardinality(kept) \in Nat /\ Cardinality(stay) \in Nat
    <3>1. kept \in SUBSET TableJobs /\ stay \in SUBSET P
      BY DEF After
    <3> QED
      BY <1>1, <1>2, <3>1, FS_Subset, FS_CardinalityType
  <2>7. Cardinality(stay) <= Cardinality(kept)
    BY <2>5, <2>6, FS_Subset
  <2>8. Cardinality(kept) >= TableRetained - 1
    BY <1>1, <2>4, <2>6, <2>7
  <2>9. Table!Cardinality(kept) >= TableRetained - 1
    BY <2>8, TableCounts
  <2>10. \E i \in TableJobs : status[i] = "unused" /\ status'[i] = "queued"
    BY <1>4, <2>1
  <2> QED
    BY <2>2, <2>9, <2>10
<1>6. Table!TableBounded(j)
  <2> DEFINE left == {i \in TableJobs : status'[i] \in Table!Terminal /\ usage'[i] # "recording"}
  <2> SUFFICES ASSUME Begins PROVE Table!Cardinality(left) < TableRetained
    BY DEF Table!TableBounded
  <2>1. PICK k \in TableJobs : Table!Start(k)
    BY <1>3
  <2>2. left \in SUBSET Latest(P, finishedAt, n)
    <3> SUFFICES ASSUME NEW i \in left PROVE i \in Latest(P, finishedAt, n)
      OBVIOUS
    <3>1. i # k
      BY <1>4, <2>1 DEF Table!Terminal
    <3>2. status'[i] = status[i] /\ usage'[i] = usage[i]
      BY <1>4, <2>1, <3>1 DEF Table!Terminal
    <3>3. i \in P
      BY <3>2 DEF Table!Prunable
    <3> QED
      BY <1>4, <2>1, <3>1, <3>3 DEF Table!Terminal
  <2>3. \A i, k_1 \in P : finishedAt[i] = finishedAt[k_1] => i = k_1
    BY DEF Tabled, Table!Prunable, Table!Terminal, Terminal
  <2>4. IsFiniteSet(Latest(P, finishedAt, n)) /\ Cardinality(Latest(P, finishedAt, n)) <= n
    BY <1>1, <1>2, <2>3, LatestAreFew
  <2>5. /\ Cardinality(left) <= Cardinality(Latest(P, finishedAt, n))
        /\ Cardinality(left) \in Nat /\ Cardinality(Latest(P, finishedAt, n)) \in Nat
    BY <2>2, <2>4, FS_Subset, FS_CardinalityType
  <2>6. Cardinality(left) < TableRetained
    BY <1>1, <2>4, <2>5
  <2> QED
    BY <2>6, TableCounts
<1> QED
  BY <1>5, <1>6

PartsTabled == /\ part = "jobs" => Tabled(Jobs)
               /\ part = "table" => Tabled(TableJobs)

LEMMA PartsStayTabled == PartsSpec => []PartsTabled
<1>1. PartsInit => PartsTabled
  <2>1. "unused" \in Statuses \ Terminal /\ "none" \in WorkerPC
    BY DEF Statuses, WorkerPC, Live, Terminal
  <2>2. Init => Tabled(Jobs)
    <3> SUFFICES ASSUME Init PROVE Tabled(Jobs)
      OBVIOUS
    <3>1. /\ status = [j \in Jobs |-> "unused"] /\ pc = [j \in Jobs |-> "none"]
          /\ outcome = [j \in Jobs |-> "none"]
          /\ finishedAt = [j \in Jobs |-> 0] /\ clock = 0
      BY DEF Init
    <3>2. \A j \in Jobs :
            /\ status[j] = "unused" /\ pc[j] = "none"
            /\ finishedAt[j] = 0 /\ status[j] \notin Terminal
      BY <2>1, <3>1
    <3>3. /\ status \in [Jobs -> Statuses] /\ pc \in [Jobs -> WorkerPC]
          /\ outcome \in [Jobs -> Terminal \cup {"none"}]
          /\ finishedAt \in [Jobs -> Nat] /\ clock \in Nat
      BY <2>1, <3>1
    <3>4. \A j \in Jobs : outcome[j] = "none" /\ clock = 0
      BY <3>1
    <3>5. \A j \in Jobs :
            /\ status[j] = "unused" => pc[j] = "none"
            /\ status[j] \in Terminal => pc[j] = "exited"
            /\ pc[j] \in {"stopped", "commit"} => outcome[j] # "none"
            /\ finishedAt[j] <= clock
      BY <3>2, <3>4
    <3>6. \A i, j \in Jobs :
            status[i] \in Terminal /\ status[j] \in Terminal
              => (finishedAt[i] = finishedAt[j] => i = j)
      BY <3>2
    <3> QED
      BY <3>3, <3>5, <3>6 DEF Tabled
  <2>3. Table!Init => Tabled(TableJobs)
    <3> SUFFICES ASSUME Table!Init PROVE Tabled(TableJobs)
      OBVIOUS
    <3>1. /\ status = [j \in TableJobs |-> "unused"] /\ pc = [j \in TableJobs |-> "none"]
          /\ outcome = [j \in TableJobs |-> "none"]
          /\ finishedAt = [j \in TableJobs |-> 0] /\ clock = 0
      BY DEF Table!Init
    <3>2. \A j \in TableJobs :
            /\ status[j] = "unused" /\ pc[j] = "none"
            /\ finishedAt[j] = 0 /\ status[j] \notin Terminal
      BY <2>1, <3>1
    <3>3. /\ status \in [TableJobs -> Statuses] /\ pc \in [TableJobs -> WorkerPC]
          /\ outcome \in [TableJobs -> Terminal \cup {"none"}]
          /\ finishedAt \in [TableJobs -> Nat] /\ clock \in Nat
      BY <2>1, <3>1
    <3>4. \A j \in TableJobs : outcome[j] = "none" /\ clock = 0
      BY <3>1
    <3>5. \A j \in TableJobs :
            /\ status[j] = "unused" => pc[j] = "none"
            /\ status[j] \in Terminal => pc[j] = "exited"
            /\ pc[j] \in {"stopped", "commit"} => outcome[j] # "none"
            /\ finishedAt[j] <= clock
      BY <3>2, <3>4
    <3>6. \A i, j \in TableJobs :
            status[i] \in Terminal /\ status[j] \in Terminal
              => (finishedAt[i] = finishedAt[j] => i = j)
      BY <3>2
    <3> QED
      BY <3>3, <3>5, <3>6 DEF Tabled
  <2> QED
    BY <2>2, <2>3 DEF PartsInit, PartsTabled
<1>2. PartsTabled /\ [PartsNext]_<<part, vars>> => PartsTabled'
  <2> SUFFICES ASSUME PartsTabled, [PartsNext]_<<part, vars>> PROVE PartsTabled'
    OBVIOUS
  <2>1. /\ part' = part
        /\ part = "jobs" => [Next]_vars
        /\ part = "table" => [Table!Next]_vars
    BY DEF PartsNext
  <2> QED
    BY <2>1, JobsTableStep, TableTableStep DEF PartsTabled
<1> QED
  BY <1>1, <1>2, PTL DEF PartsSpec

(* Whatever the number of jobs and the size of the table, starting a job   *)
(* drops finished ones only, the oldest first, and leaves fewer than the   *)
(* table holds.                                                            *)
THEOREM TableIsRight == PartsSpec => TableRight
<1>1. PartsTabled /\ [PartsNext]_<<part, vars>>
        => [/\ part = "jobs" =>
                 \A j \in Jobs : ResultRetained(j) /\ TableBounded(j)
            /\ part = "table" =>
                 \A j \in TableJobs : Table!ResultRetained(j) /\ Table!TableBounded(j)]_vars
  <2> SUFFICES ASSUME PartsTabled, [PartsNext]_<<part, vars>>
               PROVE  /\ part = "jobs" =>
                           \A j \in Jobs : ResultRetained(j) /\ TableBounded(j)
                      /\ part = "table" =>
                           \A j \in TableJobs :
                             Table!ResultRetained(j) /\ Table!TableBounded(j)
    OBVIOUS
  <2>1. /\ part = "jobs" => Tabled(Jobs) /\ [Next]_vars
        /\ part = "table" => Tabled(TableJobs) /\ [Table!Next]_vars
    BY DEF PartsNext, PartsTabled
  <2>2. part = "jobs" => \A j \in Jobs : ResultRetained(j) /\ TableBounded(j)
    BY <2>1, JobsRetains
  <2>3. part = "table" =>
          \A j \in TableJobs : Table!ResultRetained(j) /\ Table!TableBounded(j)
    BY <2>1, TableRetains
  <2> QED
    BY <2>2, <2>3
<1> QED
  BY <1>1, PartsStayTabled, PTL DEF PartsSpec, TableRight
===============================================================================
