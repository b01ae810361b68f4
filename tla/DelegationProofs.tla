---------------------------- MODULE DelegationProofs ----------------------------
(***************************************************************************)
(* Proofs about the parts of a server process that MCDelegation puts side  *)
(* by side, for all values of the constants: any number of requests,       *)
(* cancellations, turns, tools, messages and attempts.                     *)
(*                                                                         *)
(* SyncDelegation: a request that is answered after at most one            *)
(* cancellation has waited for its thread, and what a thread that is done  *)
(* came to says whether it has changed files; one that was cancelled again *)
(* leaves its thread with the slot, which only the thread gives back.      *)
(*                                                                         *)
(* AgentLoop: behind the last plan stand the answers to its first calls,   *)
(* and before it a conversation that a provider accepts; a message is in   *)
(* the mailbox or in the history; what a plan may still take is reserved   *)
(* when it begins.                                                         *)
(*                                                                         *)
(* ProviderCall: the deadline of an attempt is not after that of the run   *)
(* on the clock that counts everything, and its verdict is known only      *)
(* while its child is.                                                     *)
(*                                                                         *)
(* ChildPipe: the last line on the pipe is what the child meant to say, or *)
(* no answer; and before it changes its file, it has said so on a line of  *)
(* its own.                                                                *)
(***************************************************************************)
EXTENDS MCDelegation, SequenceTheorems, TLAPS

-------------------------------------------------------------------------------
(* The synchronous requests.                                               *)

(* The inductive invariant.                                                *)

(* Whoever runs holds the slot and the lease, and what is not reviewed is  *)
(* its own.                                                                *)
Holding ==
  /\ \A r \in Requests : worker[r] = "running" <=> holder = r
  /\ \A r \in Requests : holder = r => journal \subseteq {r}

(* What the task of a request has seen, wherever it stands.                *)
Waiting == \A r \in Requests :
  /\ task[r] # "ended" => response[r] = "none" /\ usage[r] = 0
  /\ task[r] \in {"new", "await"} => ~event[r] /\ cancels[r] = 0
  /\ task[r] = "again" => event[r] /\ cancels[r] = 1
  /\ task[r] = "new" => worker[r] = "none"
  /\ task[r] = "ended" /\ cancels[r] <= 1 => worker[r] \in {"none", "done"}

(* What the thread came to tells whether it has changed files.             *)
Telling == \A r \in Requests :
  /\ worker[r] \in {"none", "queued"} => changed[r] = 0
  /\ outcome[r] \in {"busy", "error", "cancelled"} => changed[r] = 0
  /\ outcome[r] # "none" <=> worker[r] = "done"
  /\ response[r] = "refused" => worker[r] = "none"

SyncInv == /\ TypeOK /\ Holding /\ Waiting /\ Telling
        /\ ChangesTold /\ NoResultAfterCancel
-------------------------------------------------------------------------------
(* One lemma for each part of the invariant.                               *)

(* A step of one request.                                                  *)
SyncMove(r) == \/ Request(r) \/ Cancelled(r) \/ CancelledAgain(r) \/ Resumes(r)
           \/ ResumesCancelled(r) \/ WorkerStarts(r) \/ WorkerChanges(r)
           \/ WorkerFinishes(r) \/ WorkerStops(r) \/ Acknowledge(r)

(* Every variable keeps its type.                                          *)
LEMMA SyncTypeStep == ASSUME SyncInv, NEW r \in Requests, SyncMove(r) PROVE TypeOK'
<1> USE SyncAssumption DEF SyncInv, TypeOK, thread, Becomes, Waiting, Telling
<1>1. CASE Request(r)
  <2>1. task' \in [Requests -> {"new", "await", "again", "ended"}]
    BY <1>1 DEF Request, Answers
  <2>2. worker' \in [Requests -> {"none", "queued", "running", "done"}]
    BY <1>1 DEF Request
  <2>3. response' \in [Requests -> {"none", "refused", "result", "busy", "error",
                                   "cancelled", "mutations"}]
    BY <1>1 DEF Request, Answers
  <2> QED
    BY <1>1, <2>1, <2>2, <2>3 DEF Request
<1>2. CASE Cancelled(r)
  BY <1>2 DEF Cancelled, Delivered
<1>3. CASE CancelledAgain(r)
  BY <1>3 DEF CancelledAgain, Delivered, Answers
<1>4. CASE Resumes(r)
  BY <1>4 DEF Resumes, Answers
<1>5. CASE ResumesCancelled(r)
  BY <1>5 DEF ResumesCancelled, Answers
<1>6. CASE WorkerStarts(r)
  BY <1>6 DEF WorkerStarts
<1>7. CASE WorkerChanges(r)
  BY <1>7 DEF WorkerChanges
<1>8. CASE WorkerFinishes(r)
  BY <1>8 DEF WorkerFinishes, Ends, Failure
<1>9. CASE WorkerStops(r)
  BY <1>9 DEF WorkerStops, Ends, Failure
<1>10. CASE Acknowledge(r)
  BY <1>10 DEF Acknowledge
<1> QED
  BY <1>1, <1>2, <1>3, <1>4, <1>5, <1>6, <1>7, <1>8, <1>9, <1>10 DEF SyncMove

(* Only the thread gives the slot back.                                    *)
LEMMA HoldingStep == ASSUME SyncInv, NEW r \in Requests, SyncMove(r) PROVE Holding'
<1> USE SyncAssumption DEF SyncInv, TypeOK, thread, Becomes, Holding, Waiting
<1>1. CASE Request(r)
  BY <1>1 DEF Request, Answers
<1>2. CASE Cancelled(r)
  BY <1>2 DEF Cancelled, Delivered
<1>3. CASE CancelledAgain(r)
  BY <1>3 DEF CancelledAgain, Delivered, Answers
<1>4. CASE Resumes(r)
  BY <1>4 DEF Resumes, Answers
<1>5. CASE ResumesCancelled(r)
  BY <1>5 DEF ResumesCancelled, Answers
<1>6. CASE WorkerStarts(r)
  BY <1>6 DEF WorkerStarts
<1>7. CASE WorkerChanges(r)
  BY <1>7 DEF WorkerChanges
<1>8. CASE WorkerFinishes(r)
  BY <1>8 DEF WorkerFinishes, Ends, Failure
<1>9. CASE WorkerStops(r)
  BY <1>9 DEF WorkerStops, Ends, Failure
<1>10. CASE Acknowledge(r)
  BY <1>10 DEF Acknowledge
<1> QED
  BY <1>1, <1>2, <1>3, <1>4, <1>5, <1>6, <1>7, <1>8, <1>9, <1>10 DEF SyncMove

(* The task waits for its thread until it is cancelled twice.              *)
LEMMA WaitingStep == ASSUME SyncInv, NEW r \in Requests, SyncMove(r) PROVE Waiting'
<1> USE SyncAssumption DEF SyncInv, TypeOK, thread, Becomes, Waiting
<1>1. CASE Request(r)
  BY <1>1 DEF Request, Answers
<1>2. CASE Cancelled(r)
  BY <1>2 DEF Cancelled, Delivered
<1>3. CASE CancelledAgain(r)
  BY <1>3 DEF CancelledAgain, Delivered, Answers
<1>4. CASE Resumes(r)
  BY <1>4 DEF Resumes, Answers
<1>5. CASE ResumesCancelled(r)
  BY <1>5 DEF ResumesCancelled, Answers
<1>6. CASE WorkerStarts(r)
  BY <1>6 DEF WorkerStarts
<1>7. CASE WorkerChanges(r)
  BY <1>7 DEF WorkerChanges
<1>8. CASE WorkerFinishes(r)
  BY <1>8 DEF WorkerFinishes, Ends, Failure
<1>9. CASE WorkerStops(r)
  BY <1>9 DEF WorkerStops, Ends, Failure
<1>10. CASE Acknowledge(r)
  BY <1>10 DEF Acknowledge
<1> QED
  BY <1>1, <1>2, <1>3, <1>4, <1>5, <1>6, <1>7, <1>8, <1>9, <1>10 DEF SyncMove

(* What a thread came to does not change after it is done.                 *)
LEMMA TellingStep == ASSUME SyncInv, NEW r \in Requests, SyncMove(r) PROVE Telling'
<1> USE SyncAssumption DEF SyncInv, TypeOK, thread, Becomes, Waiting, Telling
<1>1. CASE Request(r)
  BY <1>1 DEF Request, Answers
<1>2. CASE Cancelled(r)
  BY <1>2 DEF Cancelled, Delivered
<1>3. CASE CancelledAgain(r)
  BY <1>3 DEF CancelledAgain, Delivered, Answers
<1>4. CASE Resumes(r)
  BY <1>4 DEF Resumes, Answers
<1>5. CASE ResumesCancelled(r)
  BY <1>5 DEF ResumesCancelled, Answers
<1>6. CASE WorkerStarts(r)
  BY <1>6 DEF WorkerStarts
<1>7. CASE WorkerChanges(r)
  <2>1. worker[r] = "running" /\ outcome[r] = "none" /\ response[r] # "refused"
    BY <1>7 DEF WorkerChanges
  <2>2. changed' = [changed EXCEPT ![r] = changed[r] + 1]
        /\ UNCHANGED <<task, worker, outcome, response>>
    BY <1>7 DEF WorkerChanges
  <2>3. changed'[r] > 0 /\ \A s \in Requests \ {r} : changed'[s] = changed[s]
    BY <2>2
  <2> QED
    BY <2>1, <2>2, <2>3
<1>8. CASE WorkerFinishes(r)
  BY <1>8 DEF WorkerFinishes, Ends, Failure
<1>9. CASE WorkerStops(r)
  BY <1>9 DEF WorkerStops, Ends, Failure
<1>10. CASE Acknowledge(r)
  BY <1>10 DEF Acknowledge
<1> QED
  BY <1>1, <1>2, <1>3, <1>4, <1>5, <1>6, <1>7, <1>8, <1>9, <1>10 DEF SyncMove

(* An answer is given when the thread can change nothing any more.         *)
LEMMA ToldStep == ASSUME SyncInv, NEW r \in Requests, SyncMove(r) PROVE ChangesTold'
<1> USE SyncAssumption DEF SyncInv, TypeOK, thread, Becomes, Waiting, Telling, ChangesTold
<1>1. CASE Request(r)
  BY <1>1 DEF Request, Answers
<1>2. CASE Cancelled(r)
  BY <1>2 DEF Cancelled, Delivered
<1>3. CASE CancelledAgain(r)
  BY <1>3 DEF CancelledAgain, Delivered, Answers
<1>4. CASE Resumes(r)
  BY <1>4 DEF Resumes, Answers
<1>5. CASE ResumesCancelled(r)
  BY <1>5 DEF ResumesCancelled, Answers
<1>6. CASE WorkerStarts(r)
  BY <1>6 DEF WorkerStarts
<1>7. CASE WorkerChanges(r)
  BY <1>7 DEF WorkerChanges
<1>8. CASE WorkerFinishes(r)
  BY <1>8 DEF WorkerFinishes, Ends, Failure
<1>9. CASE WorkerStops(r)
  BY <1>9 DEF WorkerStops, Ends, Failure
<1>10. CASE Acknowledge(r)
  BY <1>10 DEF Acknowledge
<1> QED
  BY <1>1, <1>2, <1>3, <1>4, <1>5, <1>6, <1>7, <1>8, <1>9, <1>10 DEF SyncMove

(* A cancelled request is never answered with a result.                    *)
LEMMA NoResultStep == ASSUME SyncInv, NEW r \in Requests, SyncMove(r) PROVE NoResultAfterCancel'
<1> USE SyncAssumption DEF SyncInv, TypeOK, thread, Becomes, Waiting, NoResultAfterCancel
<1>1. CASE Request(r)
  BY <1>1 DEF Request, Answers
<1>2. CASE Cancelled(r)
  BY <1>2 DEF Cancelled, Delivered
<1>3. CASE CancelledAgain(r)
  BY <1>3 DEF CancelledAgain, Delivered, Answers
<1>4. CASE Resumes(r)
  BY <1>4 DEF Resumes, Answers
<1>5. CASE ResumesCancelled(r)
  BY <1>5 DEF ResumesCancelled, Answers
<1>6. CASE WorkerStarts(r)
  BY <1>6 DEF WorkerStarts
<1>7. CASE WorkerChanges(r)
  BY <1>7 DEF WorkerChanges
<1>8. CASE WorkerFinishes(r)
  BY <1>8 DEF WorkerFinishes, Ends, Failure
<1>9. CASE WorkerStops(r)
  BY <1>9 DEF WorkerStops, Ends, Failure
<1>10. CASE Acknowledge(r)
  BY <1>10 DEF Acknowledge
<1> QED
  BY <1>1, <1>2, <1>3, <1>4, <1>5, <1>6, <1>7, <1>8, <1>9, <1>10 DEF SyncMove

-------------------------------------------------------------------------------
(* The theorems.                                                           *)

(* The invariant holds initially.                                          *)
LEMMA SyncInit == Init => SyncInv
<1> SUFFICES ASSUME Init PROVE SyncInv
  OBVIOUS
<1>1. TypeOK
  BY SyncAssumption DEF Init, TypeOK
<1>2. Holding /\ Waiting /\ Telling /\ ChangesTold /\ NoResultAfterCancel
  BY SyncAssumption DEF Init, Holding, Waiting, Telling, ChangesTold, NoResultAfterCancel
<1> QED
  BY <1>1, <1>2 DEF SyncInv

(* A step of a request keeps the invariant.                                *)
LEMMA SyncStep == ASSUME SyncInv, [Next]_vars PROVE SyncInv'
<1>1. CASE Next
  <2> PICK r \in Requests : SyncMove(r)
    BY <1>1 DEF Next, SyncMove
  <2> QED
    BY SyncTypeStep, HoldingStep, WaitingStep, TellingStep, ToldStep, NoResultStep
    DEF SyncInv
<1>2. CASE UNCHANGED vars
  BY <1>2 DEF vars, thread, SyncInv, TypeOK, Holding, Waiting, Telling, ChangesTold,
              NoResultAfterCancel
<1> QED
  BY <1>1, <1>2

(* The invariant holds in every reachable state, for any number of         *)
(* requests however often each is cancelled.                               *)
THEOREM Strengthening == Spec => []SyncInv
  BY SyncStep, SyncInit, PTL DEF Spec

(* Every variable keeps its type; a usage line is written once at most.    *)
THEOREM TypeCorrect == Spec => []TypeOK
<1>1. SyncInv => TypeOK
  BY DEF SyncInv
<1> QED
  BY <1>1, Strengthening, PTL

(* A request that was cancelled once tells of the files its thread has     *)
(* changed, whichever came first (server.py:303-323).                      *)
THEOREM ChangesAreTold == Spec => []ChangesTold
<1>1. SyncInv => ChangesTold
  BY DEF SyncInv
<1> QED
  BY <1>1, Strengthening, PTL

(* A cancelled request returns no result and leaves no usage line          *)
(* (server.py:325-353).                                                    *)
THEOREM CancelledHasNoResult == Spec => []NoResultAfterCancel
<1>1. SyncInv => NoResultAfterCancel
  BY DEF SyncInv
<1> QED
  BY <1>1, Strengthening, PTL

(* A thread that nobody waits for keeps the slot and the lease until it    *)
(* ends, and nothing is begun before its changes are reviewed              *)
(* (job_manager.py:219-243).                                               *)
THEOREM DetachedThreadsKeepOut == Spec => []DetachedKeepsOut
<1>1. SyncInv => DetachedKeepsOut
  BY DEF SyncInv, Holding, DetachedKeepsOut
<1> QED
  BY <1>1, Strengthening, PTL
-------------------------------------------------------------------------------
(* The loop of the agent.                                                  *)

(* The types, one by one.                                                  *)
Types ==
  /\ loopPc \in {"turn", "poll", "request", "finalize", "plan", "tool", "begin",
             "running", "done"}
  /\ turn \in 0 .. MaxTurns
  /\ history \in Seq(Loop!Entries)
  /\ planned \in 0 .. MaxPlan + 1 /\ next \in 1 .. MaxPlan + 2
  /\ metered \in Nat /\ toolCalls \in Nat /\ charged \in Nat
  /\ records \in Nat /\ written \in Nat /\ late \in Nat
  /\ loopOutcome \in {"none", "result", "error", "cancelled",
                   "error_mutated", "cancelled_mutated"}
  /\ inbox \subseteq Messages /\ sent \subseteq Messages /\ seen \subseteq Messages
  /\ sealed \in BOOLEAN /\ loopCancelled \in BOOLEAN /\ expired \in BOOLEAN

(* The calls of entry i are answered by what follows it, up to top.        *)
Answered(h, i, top) == h[i].kind = "assistant" =>
  /\ i + h[i].calls <= top
  /\ \A k \in 1 .. h[i].calls : h[i + k] = Loop!Answer(k)

(* Entry i answers a call of an entry before it.                           *)
Asked(h, i) == h[i].kind = "tool" =>
  \E j \in 1 .. i - 1 : /\ h[j].kind = "assistant"
                        /\ i - j = h[i].calls /\ h[i].calls <= h[j].calls

(* The first top entries are what a provider accepts.                      *)
WellFormed(h, top) == \A i \in 1 .. top : Answered(h, i, top) /\ Asked(h, i)

(* At the end of the history stand a plan of n calls and k answers to it,  *)
(* and before them what a provider accepts.                                *)
Pending(h, n, k) ==
  /\ Len(h) - k \in 1 .. Len(h) /\ k \in 0 .. n
  /\ h[Len(h) - k] = Loop!Assistant(n)
  /\ \A i \in 1 .. k : h[(Len(h) - k) + i] = Loop!Answer(i)
  /\ WellFormed(h, Len(h) - k - 1)

InPlan == {"plan", "tool", "begin", "running"}

Talk ==
  /\ loopPc \in {"turn", "poll", "request", "finalize"} => WellFormed(history, Len(history))
  /\ loopPc \in InPlan => Pending(history, planned, next - 1)
  /\ loopPc = "plan" => next = 1
  /\ loopPc \in {"tool", "begin", "running"} => planned <= MaxPlan
  /\ loopPc \in {"begin", "running"} => next <= planned

Spending ==
  /\ loopPc # "done" => metered <= MaxTokens
  /\ loopPc = "request" => metered + Loop!Size(history) + Output <= MaxTokens
  /\ toolCalls <= MaxTools
  /\ loopPc \in {"tool", "begin"} => toolCalls + planned - next + 1 <= MaxTools
  /\ loopPc = "running" => toolCalls + planned - next <= MaxTools
  /\ written <= MaxBytes /\ charged <= MaxBytes
  /\ loopPc # "done" => written <= charged

Turning == loopPc \notin {"turn", "done"} => turn < MaxTurns

Mail ==
  /\ loopPc \in {"request", "finalize"} \cup InPlan => Loop!In(history) \subseteq seen
  /\ ~loopCancelled => sent \subseteq inbox \cup Loop!In(history)
  /\ loopPc # "done" => loopOutcome = "none"
  /\ loopOutcome = "none" /\ sealed => loopCancelled
  /\ loopOutcome = "result" => sealed
  /\ loopOutcome = "result" /\ ~loopCancelled => sent \subseteq seen

Stopping ==
  late = 0 \/ (late = 1 /\ loopCancelled /\ loopPc \in {"request", "running", "done"})

LoopInv == /\ Types /\ Talk /\ Spending /\ Turning /\ Mail /\ Stopping
-------------------------------------------------------------------------------
(* What is added to the history is an entry.                               *)
LEMMA EntriesAre ==
  /\ \A n \in 0 .. MaxPlan + 1 : Loop!Assistant(n) \in Loop!Entries /\ Loop!Answer(n) \in Loop!Entries
  /\ \A ms \in SUBSET Messages : Loop!Steering(ms) \in Loop!Entries
  BY LoopAssumption DEF Loop!Assistant, Loop!Answer, Loop!Steering, Loop!Entries

(* An entry of the history has the fields of one.                          *)
LEMMA EntryOf ==
  ASSUME NEW h \in Seq(Loop!Entries), NEW i \in 1 .. Len(h)
  PROVE  /\ h[i].calls \in Nat /\ h[i].calls <= MaxPlan + 1
         /\ h[i].messages \subseteq Messages
<1>1. h[i] \in Loop!Entries
  BY ElementOfSeq
<1> QED
  BY <1>1, LoopAssumption DEF Loop!Entries

(* The history holds messages of the parent only.                          *)
LEMMA InMessages ==
  ASSUME NEW h \in Seq(Loop!Entries) PROVE Loop!In(h) \subseteq Messages
<1>1. DOMAIN h = 1 .. Len(h)
  OBVIOUS
<1> QED
  BY <1>1, EntryOf DEF Loop!In

(* What an entry adds to what the model was told.                          *)
LEMMA InAppend ==
  ASSUME NEW h \in Seq(Loop!Entries), NEW e \in Loop!Entries
  PROVE  Loop!In(Append(h, e)) = Loop!In(h) \cup e.messages
<1>1. /\ DOMAIN h = 1 .. Len(h) /\ DOMAIN Append(h, e) = 1 .. Len(h) + 1
      /\ Len(h) \in Nat
      /\ \A i \in 1 .. Len(h) : Append(h, e)[i] = h[i]
      /\ Append(h, e)[Len(h) + 1] = e
  OBVIOUS
<1> QED
  BY <1>1 DEF Loop!In

(* What a provider accepts stays so when more is said.                     *)
LEMMA Prefix ==
  ASSUME NEW h \in Seq(Loop!Entries), NEW g, NEW top \in 0 .. Len(h),
         \A i \in 1 .. top : g[i] = h[i], WellFormed(h, top)
  PROVE  WellFormed(g, top)
<1> SUFFICES ASSUME NEW i \in 1 .. top PROVE Answered(g, i, top) /\ Asked(g, i)
  BY DEF WellFormed
<1>1. g[i] = h[i] /\ h[i].calls \in Nat /\ Answered(h, i, top) /\ Asked(h, i)
  BY EntryOf DEF WellFormed
<1>2. Answered(g, i, top)
  <2> SUFFICES ASSUME h[i].kind = "assistant"
               PROVE  /\ i + h[i].calls <= top
                      /\ \A k \in 1 .. h[i].calls : g[i + k] = Loop!Answer(k)
    BY <1>1 DEF Answered
  <2>1. /\ i + h[i].calls <= top
        /\ \A k \in 1 .. h[i].calls : h[i + k] = Loop!Answer(k)
    BY <1>1 DEF Answered
  <2>2. \A k \in 1 .. h[i].calls : i + k \in 1 .. top
    BY <1>1, <2>1
  <2> QED
    BY <2>1, <2>2
<1>3. Asked(g, i)
  <2> SUFFICES ASSUME h[i].kind = "tool"
               PROVE  \E j \in 1 .. i - 1 : /\ g[j].kind = "assistant"
                                            /\ i - j = h[i].calls
                                            /\ h[i].calls <= g[j].calls
    BY <1>1 DEF Asked
  <2>1. \A j \in 1 .. i - 1 : g[j] = h[j]
    OBVIOUS
  <2> QED
    BY <1>1, <2>1 DEF Asked
<1> QED
  BY <1>2, <1>3

(* A plan with all of its answers is what a provider accepts.              *)
LEMMA PlanAnswered ==
  ASSUME NEW h \in Seq(Loop!Entries), NEW n \in Nat, Pending(h, n, n)
  PROVE  WellFormed(h, Len(h))
<1> DEFINE a == Len(h) - n
<1>1. /\ Len(h) \in Nat /\ a \in 1 .. Len(h)
      /\ h[a].kind = "assistant" /\ h[a].calls = n
      /\ \A i \in 1 .. n : h[a + i] = Loop!Answer(i)
      /\ WellFormed(h, a - 1)
  BY DEF Pending, Loop!Assistant
<1> SUFFICES ASSUME NEW i \in 1 .. Len(h)
             PROVE  Answered(h, i, Len(h)) /\ Asked(h, i)
  BY DEF WellFormed
<1>2. CASE i < a
  <2>1. /\ h[i].calls \in Nat /\ i \in 1 .. a - 1
        /\ Answered(h, i, a - 1) /\ Asked(h, i)
    BY <1>1, <1>2, EntryOf DEF WellFormed
  <2> QED
    BY <1>1, <2>1 DEF Answered
<1>3. CASE i = a
  BY <1>1, <1>3 DEF Answered, Asked
<1>4. CASE i > a
  <2>1. i - a \in 1 .. n /\ a + (i - a) = i
    BY <1>1, <1>4
  <2>2. h[i] = Loop!Answer(i - a)
    BY <1>1, <2>1
  <2> QED
    BY <1>1, <1>4, <2>1, <2>2 DEF Answered, Asked, Loop!Answer
<1> QED
  BY <1>1, <1>2, <1>3, <1>4

(* What the parent says goes behind what was said.                         *)
LEMMA SteeredIs ==
  ASSUME NEW h \in Seq(Loop!Entries), NEW ms \in SUBSET Messages
  PROVE  /\ Loop!Steered(h, ms) \in Seq(Loop!Entries)
         /\ Loop!In(Loop!Steered(h, ms)) = Loop!In(h) \cup ms
         /\ WellFormed(h, Len(h)) => WellFormed(Loop!Steered(h, ms), Len(Loop!Steered(h, ms)))
<1>1. CASE ms = {}
  BY <1>1 DEF Loop!Steered
<1>2. CASE ms # {}
  <2>1. Loop!Steering(ms) \in Loop!Entries
    BY EntriesAre
  <2>2. Loop!Steered(h, ms) = Append(h, Loop!Steering(ms))
    BY <1>2 DEF Loop!Steered
  <2>3. Loop!In(Loop!Steered(h, ms)) = Loop!In(h) \cup ms
    BY <2>1, <2>2, InAppend DEF Loop!Steering
  <2>4. ASSUME WellFormed(h, Len(h))
        PROVE  WellFormed(Append(h, Loop!Steering(ms)), Len(h) + 1)
    <3> DEFINE g == Append(h, Loop!Steering(ms))
    <3>1. /\ Len(h) \in Nat /\ g \in Seq(Loop!Entries)
          /\ \A i \in 1 .. Len(h) : g[i] = h[i]
          /\ g[Len(h) + 1].kind = "user" /\ Len(g) = Len(h) + 1
      BY <2>1 DEF Loop!Steering
    <3> HIDE DEF g
    <3>2. WellFormed(g, Len(h))
      BY <2>4, <3>1, Prefix
    <3>3. ASSUME NEW i \in 1 .. Len(h) + 1
          PROVE  Answered(g, i, Len(h) + 1) /\ Asked(g, i)
      <4>1. CASE i = Len(h) + 1
        BY <3>1, <4>1 DEF Answered, Asked
      <4>2. CASE i \in 1 .. Len(h)
        <5>1. Answered(g, i, Len(h)) /\ Asked(g, i) /\ g[i].calls \in Nat
          BY <3>1, <3>2, <4>2, EntryOf DEF WellFormed
        <5> QED
          BY <3>1, <4>2, <5>1 DEF Answered
      <4> QED
        BY <3>1, <4>1, <4>2
    <3> QED
      BY <3>3 DEF WellFormed, g
  <2> QED
    BY <2>1, <2>2, <2>3, <2>4
<1> QED
  BY <1>1, <1>2

(* A new answer of the model is a plan without answers.                    *)
LEMMA PlanMade ==
  ASSUME NEW h \in Seq(Loop!Entries), NEW n \in 0 .. MaxPlan + 1, WellFormed(h, Len(h))
  PROVE  /\ Append(h, Loop!Assistant(n)) \in Seq(Loop!Entries)
         /\ Loop!In(Append(h, Loop!Assistant(n))) = Loop!In(h)
         /\ Pending(Append(h, Loop!Assistant(n)), n, 0)
<1> DEFINE g == Append(h, Loop!Assistant(n))
<1>1. Loop!Assistant(n) \in Loop!Entries /\ n \in Nat
  BY EntriesAre, LoopAssumption
<1>2. Loop!In(g) = Loop!In(h)
  BY <1>1, InAppend DEF Loop!Assistant
<1>3. /\ Len(h) \in Nat /\ g \in Seq(Loop!Entries) /\ Len(g) = Len(h) + 1
      /\ \A i \in 1 .. Len(h) : g[i] = h[i]
      /\ g[Len(h) + 1] = Loop!Assistant(n)
  BY <1>1
<1> HIDE DEF g
<1>4. WellFormed(g, Len(h))
  BY <1>3, Prefix
<1>5. Pending(g, n, 0)
  <2>1. Len(g) - 0 = Len(h) + 1 /\ Len(g) - 0 - 1 = Len(h)
    BY <1>3
  <2> QED
    BY <1>1, <1>3, <1>4, <2>1 DEF Pending
<1> QED
  BY <1>2, <1>3, <1>5 DEF g

(* The next answer to a plan.                                              *)
LEMMA AnswerGiven ==
  ASSUME NEW h \in Seq(Loop!Entries), NEW n \in 0 .. MaxPlan + 1, NEW k \in 1 .. n,
         Pending(h, n, k - 1)
  PROVE  /\ Append(h, Loop!Answer(k)) \in Seq(Loop!Entries)
         /\ Loop!In(Append(h, Loop!Answer(k))) = Loop!In(h)
         /\ Pending(Append(h, Loop!Answer(k)), n, k)
<1> DEFINE g == Append(h, Loop!Answer(k))
           a == Len(h) - (k - 1)
<1>1. Loop!Answer(k) \in Loop!Entries /\ n \in Nat /\ k \in Nat
  BY EntriesAre, LoopAssumption
<1>2. Loop!In(g) = Loop!In(h)
  BY <1>1, InAppend DEF Loop!Answer
<1>3. /\ Len(h) \in Nat /\ g \in Seq(Loop!Entries) /\ Len(g) = Len(h) + 1
      /\ \A i \in 1 .. Len(h) : g[i] = h[i]
      /\ g[Len(h) + 1] = Loop!Answer(k)
  BY <1>1
<1> HIDE DEF g
<1>4. /\ a \in 1 .. Len(h) /\ h[a] = Loop!Assistant(n)
      /\ \A i \in 1 .. k - 1 : h[a + i] = Loop!Answer(i)
      /\ WellFormed(h, a - 1)
  BY DEF Pending
<1>5. Len(g) - k = a
  BY <1>1, <1>3
<1>6. WellFormed(g, a - 1)
  <2>1. a - 1 \in 0 .. Len(h)
    BY <1>1, <1>3, <1>4
  <2> HIDE DEF a
  <2>2. \A i \in 1 .. a - 1 : g[i] = h[i]
    BY <1>3, <2>1
  <2> QED
    BY <1>4, <2>1, <2>2, Prefix
<1>7. \A i \in 1 .. k : g[a + i] = Loop!Answer(i)
  <2>1. ASSUME NEW i \in 1 .. k - 1 PROVE g[a + i] = Loop!Answer(i)
    <3>1. a + i \in 1 .. Len(h)
      BY <1>1, <1>3, <1>4
    <3> QED
      BY <1>3, <1>4, <3>1
  <2>2. a + k = Len(h) + 1
    BY <1>1, <1>3
  <2> QED
    BY <1>1, <1>3, <2>1, <2>2
<1>8. g[a] = Loop!Assistant(n)
  BY <1>3, <1>4
<1>9. a \in 1 .. Len(g)
  BY <1>3, <1>4
<1> HIDE DEF a
<1>10. Pending(g, n, k)
  <2>1. /\ Len(g) - k \in 1 .. Len(g) /\ g[Len(g) - k] = Loop!Assistant(n)
        /\ \A i \in 1 .. k : g[(Len(g) - k) + i] = Loop!Answer(i)
        /\ WellFormed(g, Len(g) - k - 1)
    BY <1>5, <1>6, <1>7, <1>8, <1>9, Zenon
  <2>2. k \in 0 .. n
    BY <1>1
  <2> QED
    BY <2>1, <2>2 DEF Pending
<1> QED
  BY <1>2, <1>3, <1>10 DEF g

(* The answers to the calls that are skipped complete a plan.              *)
LEMMA SkippedCompletes ==
  ASSUME NEW h \in Seq(Loop!Entries), Pending(h, planned, next - 1),
         planned \in 0 .. MaxPlan + 1, next \in 1 .. MaxPlan + 2
  PROVE  /\ h \o Loop!Skipped(next) \in Seq(Loop!Entries)
         /\ Loop!In(h \o Loop!Skipped(next)) = Loop!In(h)
         /\ WellFormed(h \o Loop!Skipped(next), Len(h \o Loop!Skipped(next)))
<1> DEFINE s == Loop!Skipped(next)
           g == h \o s
           a == Len(h) - (next - 1)
<1>0. planned \in Nat /\ next \in Nat \ {0} /\ next <= planned + 1 /\ Len(h) \in Nat
  BY LoopAssumption DEF Pending
<1>1. /\ s \in Seq(Loop!Entries) /\ Len(s) = planned - next + 1
      /\ \A i \in 1 .. planned - next + 1 : s[i] = Loop!Answer(next + i - 1)
  <2>1. \A i \in 1 .. planned - next + 1 : Loop!Answer(next + i - 1) \in Loop!Entries
    BY <1>0, EntriesAre, LoopAssumption
  <2> QED
    BY <1>0, <2>1 DEF Loop!Skipped
<1>2. /\ g \in Seq(Loop!Entries) /\ Len(g) = Len(h) + (planned - next + 1)
      /\ \A i \in 1 .. Len(h) : g[i] = h[i]
      /\ \A i \in 1 .. planned - next + 1 : g[Len(h) + i] = Loop!Answer(next + i - 1)
  <2> HIDE DEF s
  <2>1. /\ g \in Seq(Loop!Entries) /\ Len(g) = Len(h) + Len(s)
        /\ \A i \in 1 .. Len(h) + Len(s) :
             g[i] = IF i <= Len(h) THEN h[i] ELSE s[i - Len(h)]
    BY <1>1, ConcatProperties
  <2>2. ASSUME NEW i \in 1 .. planned - next + 1
        PROVE  g[Len(h) + i] = Loop!Answer(next + i - 1)
    BY <1>0, <1>1, <2>1
  <2> QED
    BY <1>0, <1>1, <2>1, <2>2
<1> HIDE DEF s, g
<1>3. Loop!In(g) = Loop!In(h)
  <2>1. DOMAIN g = 1 .. Len(g) /\ DOMAIN h = 1 .. Len(h)
    BY <1>2
  <2>2. \A i \in 1 .. Len(g) :
          \/ i \in 1 .. Len(h) /\ g[i] = h[i]
          \/ g[i].messages = {}
    <3>1. ASSUME NEW i \in 1 .. Len(g), i > Len(h) PROVE g[i].messages = {}
      <4>1. i - Len(h) \in 1 .. planned - next + 1 /\ Len(h) + (i - Len(h)) = i
        BY <1>0, <1>2, <3>1
      <4>2. g[i] = Loop!Answer(next + (i - Len(h)) - 1)
        BY <1>2, <4>1
      <4> QED
        BY <4>2 DEF Loop!Answer
    <3> QED
      BY <1>0, <1>2, <3>1
  <2>3. \A i \in 1 .. Len(h) : i \in 1 .. Len(g) /\ g[i] = h[i]
    BY <1>0, <1>2
  <2> QED
    BY <2>1, <2>2, <2>3 DEF Loop!In
<1>4. WellFormed(g, Len(g))
  <2>1. /\ a \in 1 .. Len(h) /\ h[a] = Loop!Assistant(planned)
        /\ \A i \in 1 .. next - 1 : h[a + i] = Loop!Answer(i)
        /\ WellFormed(h, a - 1)
    BY <1>0, <1>2 DEF Pending
  <2>2. \A m \in 1 .. planned : g[a + m] = Loop!Answer(m)
    <3>1. ASSUME NEW m \in 1 .. planned, m <= next - 1 PROVE g[a + m] = Loop!Answer(m)
      <4>1. a + m \in 1 .. Len(h) /\ m \in 1 .. next - 1
        BY <1>0, <2>1, <3>1
      <4> QED
        BY <1>2, <2>1, <4>1
    <3>2. ASSUME NEW m \in 1 .. planned, m > next - 1 PROVE g[a + m] = Loop!Answer(m)
      <4>1. m - (next - 1) \in 1 .. planned - next + 1
            /\ Len(h) + (m - (next - 1)) = a + m
            /\ next + (m - (next - 1)) - 1 = m
        BY <1>0, <2>1, <3>2
      <4> QED
        BY <1>2, <4>1
    <3> QED
      BY <1>0, <3>1, <3>2
  <2>3. Len(g) - planned = a /\ a \in 1 .. Len(g) /\ a - 1 \in 0 .. Len(h)
    BY <1>0, <1>2, <2>1
  <2>4. g[a] = Loop!Assistant(planned) /\ \A i \in 1 .. a - 1 : g[i] = h[i]
    BY <1>0, <1>2, <2>1
  <2> HIDE DEF a
  <2>5. WellFormed(g, a - 1)
    BY <2>1, <2>3, <2>4, Prefix
  <2>6. Pending(g, planned, planned)
    <3>1. /\ Len(g) - planned \in 1 .. Len(g)
          /\ g[Len(g) - planned] = Loop!Assistant(planned)
          /\ \A i \in 1 .. planned : g[(Len(g) - planned) + i] = Loop!Answer(i)
          /\ WellFormed(g, Len(g) - planned - 1)
      BY <2>2, <2>3, <2>4, <2>5, Zenon
    <3>2. planned \in 0 .. planned
      BY <1>0
    <3> QED
      BY <3>1, <3>2 DEF Pending
  <2> QED
    BY <1>0, <1>2, <2>6, PlanAnswered
<1> QED
  BY <1>2, <1>3, <1>4 DEF s, g
-------------------------------------------------------------------------------
(* A run begins with the invariant.                                        *)
LEMMA LoopInit == Loop!Init => LoopInv
<1> SUFFICES ASSUME Loop!Init PROVE LoopInv
  OBVIOUS
<1> USE LoopAssumption DEF Loop!Init
<1>1. Types
  <2>1. history \in Seq(Loop!Entries)
    OBVIOUS
  <2>2. turn \in 0 .. MaxTurns /\ planned \in 0 .. MaxPlan + 1
        /\ next \in 1 .. MaxPlan + 2
    OBVIOUS
  <2>3. /\ metered \in Nat /\ toolCalls \in Nat /\ charged \in Nat
        /\ records \in Nat /\ written \in Nat /\ late \in Nat
        /\ sealed \in BOOLEAN /\ loopCancelled \in BOOLEAN /\ expired \in BOOLEAN
        /\ inbox \subseteq Messages /\ sent \subseteq Messages
        /\ seen \subseteq Messages
    OBVIOUS
  <2> QED
    BY <2>1, <2>2, <2>3 DEF Types
<1>2. Talk
  BY DEF Talk, InPlan, WellFormed
<1>3. Spending /\ Turning /\ Stopping
  BY DEF Spending, Turning, Stopping
<1>4. Mail
  BY DEF Mail, InPlan
<1> QED
  BY <1>1, <1>2, <1>3, <1>4 DEF LoopInv

(* A turn begins only when one is left, so that the next number is one.    *)
LEMMA SteersAre ==
  ASSUME LoopInv, loopPc # "turn", loopPc # "done",
         NEW h \in Seq(Loop!Entries), WellFormed(h, Len(h)), Loop!In(h) = Loop!In(history),
         Loop!SteersWith(h)
  PROVE  /\ history' \in Seq(Loop!Entries) /\ turn' \in 0 .. MaxTurns
         /\ WellFormed(history', Len(history'))
         /\ Loop!In(history') = Loop!In(history) \cup inbox
         /\ inbox' = {}
         /\ \/ loopPc' = "turn" /\ loopOutcome' = loopOutcome
            \/ /\ loopPc' = "done" /\ UNCHANGED turn
               /\ loopOutcome' \in {"error", "error_mutated"}
<1>1. /\ history' = Loop!Steered(h, inbox) /\ inbox \in SUBSET Messages
      /\ turn \in 0 .. MaxTurns /\ turn < MaxTurns
  BY DEF Loop!SteersWith, LoopInv, Types, Turning
<1>2. /\ history' \in Seq(Loop!Entries) /\ Loop!In(history') = Loop!In(h) \cup inbox
      /\ WellFormed(history', Len(history'))
  BY <1>1, SteeredIs
<1>3. turn' \in {turn, turn + 1}
  BY DEF Loop!SteersWith
<1>4. turn' \in 0 .. MaxTurns
  BY <1>1, <1>3, LoopAssumption
<1>5. /\ inbox' = {}
      /\ \/ loopPc' = "turn" /\ loopOutcome' = loopOutcome
         \/ /\ loopPc' = "done" /\ UNCHANGED turn
            /\ loopOutcome' \in {"error", "error_mutated"}
  BY DEF Loop!SteersWith, Loop!Fails, Loop!EndsAs, Loop!WithMutations
<1> QED
  BY <1>2, <1>4, <1>5

(* How a plan or its loop is left for the parent's message.                *)
LEMMA PlanLeft ==
  ASSUME LoopInv, loopPc \in InPlan, NEW from, from = next, Loop!SteersWith(history \o Loop!Skipped(from))
  PROVE  /\ history' \in Seq(Loop!Entries) /\ turn' \in 0 .. MaxTurns
         /\ WellFormed(history', Len(history'))
         /\ Loop!In(history') = Loop!In(history) \cup inbox
         /\ inbox' = {}
         /\ \/ loopPc' = "turn" /\ loopOutcome' = loopOutcome
            \/ /\ loopPc' = "done" /\ UNCHANGED turn
               /\ loopOutcome' \in {"error", "error_mutated"}
<1> DEFINE h == history \o Loop!Skipped(from)
<1>1. /\ history \in Seq(Loop!Entries) /\ Pending(history, planned, next - 1)
      /\ planned \in 0 .. MaxPlan + 1 /\ next \in 1 .. MaxPlan + 2
      /\ loopPc # "turn" /\ loopPc # "done"
  BY DEF LoopInv, Types, Talk, InPlan
<1>2. h \in Seq(Loop!Entries) /\ Loop!In(h) = Loop!In(history) /\ WellFormed(h, Len(h))
  BY <1>1, SkippedCompletes
<1>3. Loop!SteersWith(h)
  OBVIOUS
<1> HIDE DEF h
<1> QED
  BY <1>1, <1>2, <1>3, SteersAre

(* Every variable of the loop keeps its type.                              *)
LEMMA LoopTypeStep == ASSUME LoopInv, [Loop!Next]_Loop!vars PROVE Types'
<1>1. ASSUME NEW m \in Messages, Loop!Send(m) PROVE Types'
  BY <1>1 DEF LoopInv, Types, Loop!Send, Loop!books, Loop!ghosts
<1>2. CASE Loop!Cancel \/ Loop!CancelCloses \/ Loop!TimeIsUp
  BY <1>2
  DEF LoopInv, Types, Loop!Cancel, Loop!CancelCloses, Loop!TimeIsUp, Loop!books,
      Loop!ghosts
<1>3. CASE Loop!TurnBegins
  BY <1>3
  DEF LoopInv, Types, Loop!TurnBegins, Loop!Fails, Loop!EndsAs, Loop!WithMutations,
      Loop!books, Loop!parent, Loop!ghosts
<1>4. CASE Loop!TurnPolls
  <2>1. history' \in Seq(Loop!Entries)
    BY <1>4, SteeredIs DEF LoopInv, Types, Loop!TurnPolls
  <2>2. Loop!In(history') \subseteq Messages
    BY <2>1, InMessages
  <2>3. seen' \subseteq Messages
    BY <1>4, <2>2 DEF LoopInv, Types, Loop!TurnPolls
  <2>4. late' \in Nat
    BY <1>4 DEF LoopInv, Types, Loop!TurnPolls, Loop!Late
  <2> QED
    BY <1>4, <2>1, <2>3, <2>4
    DEF LoopInv, Types, Loop!TurnPolls, Loop!Fails, Loop!EndsAs, Loop!WithMutations,
        Loop!books
<1>5. CASE Loop!ProviderFails
  BY <1>5
  DEF LoopInv, Types, Loop!ProviderFails, Loop!Fails, Loop!EndsAs,
      Loop!WithMutations, Loop!books, Loop!parent, Loop!ghosts
<1>6. CASE Loop!ProviderAnswers
  <2>1. PICK n \in 0 .. MaxPlan + 1, reported \in Reports : 
               /\ metered' = metered + Loop!Cost(reported)
               /\ planned' = n /\ next' = 1
               /\ history' \in {history, Append(history, Loop!Assistant(n))}
    BY <1>6 DEF Loop!ProviderAnswers
  <2>2. history' \in Seq(Loop!Entries)
    BY <2>1, EntriesAre DEF LoopInv, Types
  <2>3. metered' \in Nat
    BY <2>1, LoopAssumption DEF LoopInv, Types, Loop!Cost, Loop!Size
  <2>4. /\ loopPc' \in {"done", "finalize", "plan"}
        /\ loopOutcome' \in {loopOutcome, "error", "cancelled", "error_mutated",
                         "cancelled_mutated"}
        /\ UNCHANGED <<turn, toolCalls, charged, records, Loop!parent, Loop!ghosts>>
    BY <1>6 DEF Loop!ProviderAnswers, Loop!Fails, Loop!EndsAs, Loop!WithMutations
  <2>5. planned' \in 0 .. MaxPlan + 1 /\ next' \in 1 .. MaxPlan + 2
    BY <2>1, LoopAssumption
  <2> QED
    BY <2>2, <2>3, <2>4, <2>5 DEF LoopInv, Types, Loop!parent, Loop!ghosts
<1>7. CASE Loop!Finalize
  <2>1. history' \in Seq(Loop!Entries) /\ turn' \in 0 .. MaxTurns
    BY <1>7, SteersAre DEF LoopInv, Types, Talk, Loop!Finalize
  <2> QED
    BY <1>7, <2>1
    DEF LoopInv, Types, Loop!Finalize, Loop!SteersWith, Loop!Fails, Loop!EndsAs,
        Loop!WithMutations, Loop!books, Loop!ghosts
<1>8. CASE Loop!Plan
  <2>1. history' \in Seq(Loop!Entries) /\ turn' \in 0 .. MaxTurns
    BY <1>8, PlanLeft DEF LoopInv, Types, Talk, InPlan, Loop!Plan
  <2> QED
    BY <1>8, <2>1
    DEF LoopInv, Types, Loop!Plan, Loop!SteersWith, Loop!Fails, Loop!EndsAs,
        Loop!WithMutations, Loop!books, Loop!ghosts
<1>9. CASE Loop!NextTool
  <2>1. history' \in Seq(Loop!Entries)
    BY <1>9, PlanLeft DEF LoopInv, Types, InPlan, Loop!NextTool
  <2>2. turn' \in 0 .. MaxTurns
    BY <1>9, PlanLeft, LoopAssumption
    DEF LoopInv, Types, Turning, InPlan, Loop!NextTool
  <2> QED
    BY <1>9, <2>1, <2>2
    DEF LoopInv, Types, Loop!NextTool, Loop!SteersWith, Loop!Fails, Loop!EndsAs,
        Loop!WithMutations, Loop!books, Loop!ghosts
<1>10. CASE Loop!ToolBegins
  <2>1. toolCalls' \in Nat /\ late' \in Nat
    BY <1>10 DEF LoopInv, Types, Loop!ToolBegins, Loop!Late
  <2> QED
    BY <1>10, <2>1
    DEF LoopInv, Types, Loop!ToolBegins, Loop!Fails, Loop!EndsAs, Loop!WithMutations,
        Loop!parent
<1>11. CASE Loop!ToolAnswers
  <2>1. PICK bytes \in Chunks :
               /\ charged' = charged + bytes
               /\ \E wrote \in {0, bytes} :
                    /\ written' = written + wrote
                    /\ records' = records + (IF wrote > 0 THEN 1 ELSE 0)
               /\ history' = Append(history, Loop!Answer(next)) /\ next' = next + 1
    BY <1>11 DEF Loop!ToolAnswers
  <2>2. next' \in 1 .. MaxPlan + 2 /\ next \in 0 .. MaxPlan + 1
    BY <1>11, <2>1, LoopAssumption DEF Loop!ToolAnswers, LoopInv, Types, Talk
  <2>3. history' \in Seq(Loop!Entries)
    BY <2>1, <2>2, EntriesAre DEF LoopInv, Types
  <2>4. charged' \in Nat /\ written' \in Nat /\ records' \in Nat
    BY <2>1, LoopAssumption DEF LoopInv, Types
  <2>5. /\ loopPc' \in {"done", "tool"}
        /\ loopOutcome' \in {loopOutcome, "error", "cancelled", "error_mutated",
                         "cancelled_mutated"}
        /\ UNCHANGED <<turn, planned, metered, toolCalls, Loop!parent, seen, late>>
    BY <1>11 DEF Loop!ToolAnswers, Loop!EndsAs, Loop!WithMutations
  <2> QED
    BY <2>2, <2>3, <2>4, <2>5 DEF LoopInv, Types, Loop!parent
<1>12. CASE Loop!ToolFails
  <2>1. PICK bytes \in Chunks :
               /\ written' = written + bytes
               /\ records' \in records .. records + (IF bytes > 0 THEN 1 ELSE 0)
    BY <1>12 DEF Loop!ToolFails
  <2>2. written' \in Nat /\ records' \in Nat
    BY <2>1, LoopAssumption DEF LoopInv, Types
  <2>3. /\ loopPc' = "done"
        /\ loopOutcome' \in {loopOutcome, "error", "cancelled", "error_mutated",
                         "cancelled_mutated"}
        /\ UNCHANGED <<turn, history, planned, next, metered, toolCalls, charged,
                       Loop!parent, seen, late>>
    BY <1>12 DEF Loop!ToolFails, Loop!EndsAs, Loop!WithMutations
  <2> QED
    BY <2>2, <2>3 DEF LoopInv, Types, Loop!parent
<1>13. CASE UNCHANGED Loop!vars
  BY <1>13 DEF LoopInv, Types, Loop!vars, Loop!books, Loop!parent, Loop!ghosts
<1> QED
  BY <1>1, <1>2, <1>3, <1>4, <1>5, <1>6, <1>7, <1>8, <1>9, <1>10, <1>11, <1>12,
     <1>13
  DEF Loop!Next, Loop!Loop

(* Nobody but the loop adds to the history, and what it adds is answered.  *)
LEMMA TalkStep == ASSUME LoopInv, [Loop!Next]_Loop!vars PROVE Talk'
<1>1. ASSUME NEW m \in Messages, Loop!Send(m) PROVE Talk'
  BY <1>1 DEF LoopInv, Talk, InPlan, Loop!Send
<1>2. CASE Loop!Cancel \/ Loop!CancelCloses \/ Loop!TimeIsUp
  BY <1>2 DEF LoopInv, Talk, InPlan, Loop!Cancel, Loop!CancelCloses, Loop!TimeIsUp
<1>3. CASE Loop!TurnBegins
  BY <1>3 DEF LoopInv, Talk, InPlan, Loop!TurnBegins, Loop!Fails, Loop!EndsAs
<1>4. CASE Loop!TurnPolls
  <2>1. WellFormed(history', Len(history'))
    BY <1>4, SteeredIs DEF LoopInv, Types, Talk, Loop!TurnPolls
  <2>2. loopPc' \in {"done", "request"}
    BY <1>4 DEF Loop!TurnPolls, Loop!Fails, Loop!EndsAs
  <2> QED
    BY <2>1, <2>2 DEF Talk, InPlan
<1>5. CASE Loop!ProviderFails
  BY <1>5 DEF LoopInv, Talk, InPlan, Loop!ProviderFails, Loop!Fails, Loop!EndsAs
<1>6. CASE Loop!ProviderAnswers
  <2>1. CASE loopPc' = "done"
    BY <2>1 DEF Talk, InPlan
  <2>2. CASE loopPc' # "done"
    <3>1. PICK n \in 0 .. MaxPlan + 1 :
                 /\ planned' = n /\ next' = 1
                 /\ history' = Append(history, Loop!Assistant(n))
                 /\ loopPc' = (IF n = 0 THEN "finalize" ELSE "plan")
      BY <1>6, <2>2 DEF Loop!ProviderAnswers, Loop!Fails, Loop!EndsAs
    <3>2. history \in Seq(Loop!Entries) /\ WellFormed(history, Len(history))
      BY <1>6 DEF Loop!ProviderAnswers, LoopInv, Types, Talk
    <3>3. history' \in Seq(Loop!Entries) /\ Pending(history', n, 0)
      BY <3>1, <3>2, PlanMade
    <3>4. n = 0 => WellFormed(history', Len(history'))
      BY <3>3, PlanAnswered
    <3>5. next' - 1 = 0
      BY <3>1
    <3> QED
      BY <3>1, <3>3, <3>4, <3>5 DEF Talk, InPlan
  <2> QED
    BY <2>1, <2>2
<1>7. CASE Loop!Finalize
  <2>1. WellFormed(history', Len(history')) /\ loopPc' \in {"turn", "done"}
    BY <1>7, SteersAre DEF LoopInv, Types, Talk, Loop!Finalize
  <2> QED
    BY <2>1 DEF Talk, InPlan
<1>8. CASE Loop!Plan
  <2>1. CASE loopPc' \in {"turn", "done"}
    <3>1. loopPc' = "turn" => WellFormed(history', Len(history'))
      BY <1>8, PlanLeft DEF LoopInv, Talk, InPlan, Loop!Plan, Loop!Fails, Loop!EndsAs
    <3> QED
      BY <2>1, <3>1 DEF Talk, InPlan
  <2>2. CASE loopPc' \notin {"turn", "done"}
    <3>1. /\ loopPc' = "tool" /\ ~Loop!TooMany /\ loopPc = "plan"
          /\ UNCHANGED <<history, planned, next>>
      BY <1>8, <2>2 DEF Loop!Plan, Loop!SteersWith, Loop!Fails, Loop!EndsAs
    <3>2. planned <= MaxPlan
      BY <3>1, LoopAssumption DEF Loop!TooMany, LoopInv, Types
    <3> QED
      BY <3>1, <3>2 DEF LoopInv, Talk, InPlan
  <2> QED
    BY <2>1, <2>2
<1>9. CASE Loop!NextTool
  <2>1. CASE loopPc' = "turn" /\ next <= planned
    <3>1. WellFormed(history', Len(history'))
      BY <1>9, <2>1, PlanLeft
      DEF LoopInv, Types, InPlan, Loop!NextTool, Loop!Fails, Loop!EndsAs
    <3> QED
      BY <2>1, <3>1 DEF Talk, InPlan
  <2>2. CASE next > planned
    <3>1. /\ Pending(history, planned, next - 1) /\ history \in Seq(Loop!Entries)
          /\ planned \in Nat /\ next \in Nat
      BY <1>9, LoopAssumption DEF LoopInv, Types, Talk, InPlan, Loop!NextTool
    <3>2. next - 1 = planned
      BY <2>2, <3>1 DEF Pending
    <3>3. WellFormed(history, Len(history))
      BY <3>1, <3>2, PlanAnswered
    <3>4. loopPc' = "turn" /\ history' = history
      BY <1>9, <2>2, <3>1 DEF Loop!NextTool
    <3> QED
      BY <3>3, <3>4 DEF Talk, InPlan
  <2>3. CASE loopPc' # "turn" /\ next <= planned
    BY <1>9, <2>3
    DEF LoopInv, Types, Talk, InPlan, Loop!NextTool, Loop!SteersWith, Loop!Fails,
        Loop!EndsAs
  <2> QED
    BY <1>9, <2>1, <2>2, <2>3, LoopAssumption DEF LoopInv, Types
<1>10. CASE Loop!ToolBegins
  BY <1>10 DEF LoopInv, Talk, InPlan, Loop!ToolBegins, Loop!Fails, Loop!EndsAs
<1>11. CASE Loop!ToolAnswers
  <2>1. /\ history' = Append(history, Loop!Answer(next)) /\ next' = next + 1
        /\ UNCHANGED planned /\ loopPc' \in {"tool", "done"}
    BY <1>11 DEF Loop!ToolAnswers, Loop!EndsAs
  <2>2. /\ history \in Seq(Loop!Entries) /\ Pending(history, planned, next - 1)
        /\ planned \in 0 .. MaxPlan + 1 /\ next \in 1 .. planned
        /\ planned <= MaxPlan
    BY <1>11, LoopAssumption DEF LoopInv, Types, Talk, InPlan, Loop!ToolAnswers
  <2>3. Pending(history', planned, next)
    BY <2>1, <2>2, AnswerGiven
  <2>4. next' - 1 = next
    BY <2>1, <2>2
  <2> QED
    BY <2>1, <2>2, <2>3, <2>4 DEF Talk, InPlan
<1>12. CASE Loop!ToolFails
  BY <1>12 DEF LoopInv, Talk, InPlan, Loop!ToolFails, Loop!Fails, Loop!EndsAs
<1>13. CASE UNCHANGED Loop!vars
  BY <1>13 DEF LoopInv, Talk, InPlan, Loop!vars
<1> QED
  BY <1>1, <1>2, <1>3, <1>4, <1>5, <1>6, <1>7, <1>8, <1>9, <1>10, <1>11, <1>12,
     <1>13
  DEF Loop!Next, Loop!Loop

(* A request is paid for before it is sent, a tool before it begins.       *)
LEMMA SpendingStep == ASSUME LoopInv, [Loop!Next]_Loop!vars PROVE Spending'
<1> USE DEF LoopInv, Spending
<1>1. ASSUME NEW m \in Messages, Loop!Send(m) PROVE Spending'
  BY <1>1 DEF Loop!Send, Loop!books, Loop!ghosts
<1>2. CASE Loop!Cancel \/ Loop!CancelCloses \/ Loop!TimeIsUp
  BY <1>2 DEF Loop!Cancel, Loop!CancelCloses, Loop!TimeIsUp, Loop!books, Loop!ghosts
<1>3. CASE Loop!TurnBegins
  BY <1>3 DEF Loop!TurnBegins, Loop!Fails, Loop!EndsAs, Loop!books, Loop!ghosts
<1>4. CASE Loop!TurnPolls
  <2>1. /\ loopPc' = "done" \/ (loopPc' = "request" /\ ~Loop!Unaffordable(history'))
        /\ UNCHANGED <<planned, next, Loop!books, written>> /\ loopPc = "poll"
    BY <1>4 DEF Loop!TurnPolls, Loop!Fails, Loop!EndsAs
  <2>2. history' \in Seq(Loop!Entries)
    BY LoopTypeStep DEF Types
  <2> QED
    BY <2>1, <2>2, LoopAssumption DEF Loop!Unaffordable, Loop!Size, Loop!books, Types
<1>5. CASE Loop!ProviderFails
  BY <1>5 DEF Loop!ProviderFails, Loop!Fails, Loop!EndsAs, Loop!books, Loop!ghosts
<1>6. CASE Loop!ProviderAnswers
  BY <1>6 DEF Loop!ProviderAnswers, Loop!Fails, Loop!EndsAs, Loop!ghosts
<1>7. CASE Loop!Finalize
  BY <1>7
  DEF Loop!Finalize, Loop!SteersWith, Loop!Fails, Loop!EndsAs, Loop!books,
      Loop!ghosts
<1>8. CASE Loop!Plan
  <2>1. /\ loopPc' \in {"done", "turn"} \/ (loopPc' = "tool" /\ ~Loop!TooMany)
        /\ UNCHANGED <<planned, next, Loop!books, written>> /\ loopPc = "plan" /\ next = 1
    BY <1>8
    DEF Loop!Plan, Loop!SteersWith, Loop!Fails, Loop!EndsAs, Loop!ghosts, Talk
  <2> QED
    BY <2>1, LoopAssumption DEF Loop!TooMany, Loop!books, Types
<1>9. CASE Loop!NextTool
  BY <1>9
  DEF Loop!NextTool, Loop!SteersWith, Loop!Fails, Loop!EndsAs, Loop!books,
      Loop!ghosts
<1>10. CASE Loop!ToolBegins
  <2>1. /\ \/ loopPc' = "done" /\ UNCHANGED toolCalls
           \/ loopPc' = "running" /\ toolCalls' = toolCalls + 1
        /\ UNCHANGED <<planned, next, metered, charged, written>> /\ loopPc = "begin"
    BY <1>10 DEF Loop!ToolBegins, Loop!Fails, Loop!EndsAs
  <2> QED
    BY <2>1, LoopAssumption DEF Types, Talk
<1>11. CASE Loop!ToolAnswers
  <2>1. PICK bytes \in Chunks :
               /\ bytes <= MaxBytes - charged
               /\ charged' = charged + bytes
               /\ \E wrote \in {0, bytes} : written' = written + wrote
    BY <1>11 DEF Loop!ToolAnswers, Loop!Reserved
  <2>2. /\ loopPc' \in {"tool", "done"} /\ loopPc = "running" /\ next' = next + 1
        /\ UNCHANGED <<planned, metered, toolCalls>>
    BY <1>11 DEF Loop!ToolAnswers, Loop!EndsAs
  <2>3. bytes \in Nat
    BY LoopAssumption
  <2>4. written' <= charged' /\ written' <= MaxBytes /\ charged' <= MaxBytes
    BY <2>1, <2>2, <2>3, LoopAssumption DEF Types
  <2> QED
    BY <2>2, <2>4, LoopAssumption DEF Types
<1>12. CASE Loop!ToolFails
  <2>1. PICK bytes \in Chunks :
               bytes <= MaxBytes - charged /\ written' = written + bytes
    BY <1>12 DEF Loop!ToolFails, Loop!Reserved
  <2>2. /\ loopPc' = "done" /\ loopPc = "running"
        /\ UNCHANGED <<planned, next, metered, toolCalls, charged>>
    BY <1>12 DEF Loop!ToolFails, Loop!EndsAs
  <2> QED
    BY <2>1, <2>2, LoopAssumption DEF Types
<1>13. CASE UNCHANGED Loop!vars
  BY <1>13 DEF Loop!vars, Loop!books, Loop!ghosts
<1> QED
  BY <1>1, <1>2, <1>3, <1>4, <1>5, <1>6, <1>7, <1>8, <1>9, <1>10, <1>11, <1>12,
     <1>13
  DEF Loop!Next, Loop!Loop

(* A turn is begun only when one is left.                                  *)
LEMMA TurningStep == ASSUME LoopInv, [Loop!Next]_Loop!vars PROVE Turning'
<1> USE DEF LoopInv, Turning
<1>1. ASSUME NEW m \in Messages, Loop!Send(m) PROVE Turning'
  BY <1>1 DEF Loop!Send
<1>2. CASE Loop!Cancel \/ Loop!CancelCloses \/ Loop!TimeIsUp
  BY <1>2 DEF Loop!Cancel, Loop!CancelCloses, Loop!TimeIsUp
<1>3. CASE Loop!TurnBegins
  BY <1>3, LoopAssumption
  DEF Loop!TurnBegins, Loop!OutOfTurns, Loop!Fails, Loop!EndsAs, Types
<1>4. CASE Loop!TurnPolls
  BY <1>4 DEF Loop!TurnPolls, Loop!Fails, Loop!EndsAs
<1>5. CASE Loop!ProviderFails \/ Loop!ProviderAnswers
  BY <1>5 DEF Loop!ProviderFails, Loop!ProviderAnswers, Loop!Fails, Loop!EndsAs
<1>6. CASE Loop!Finalize \/ Loop!Plan \/ Loop!NextTool
  BY <1>6
  DEF Loop!Finalize, Loop!Plan, Loop!NextTool, Loop!SteersWith, Loop!Fails,
      Loop!EndsAs
<1>7. CASE Loop!ToolBegins \/ Loop!ToolAnswers \/ Loop!ToolFails
  BY <1>7
  DEF Loop!ToolBegins, Loop!ToolAnswers, Loop!ToolFails, Loop!Fails, Loop!EndsAs
<1>8. CASE UNCHANGED Loop!vars
  BY <1>8 DEF Loop!vars
<1> QED
  BY <1>1, <1>2, <1>3, <1>4, <1>5, <1>6, <1>7, <1>8 DEF Loop!Next, Loop!Loop

(* A message leaves the mailbox only for the history, but for a cancel,    *)
(* and the loop goes on with what the model has seen.                      *)
LEMMA MailStep == ASSUME LoopInv, [Loop!Next]_Loop!vars PROVE Mail'
<1> USE DEF LoopInv, Mail, InPlan
<1>1. ASSUME NEW m \in Messages, Loop!Send(m) PROVE Mail'
  BY <1>1 DEF Loop!Send, Loop!ghosts
<1>2. CASE Loop!Cancel \/ Loop!CancelCloses \/ Loop!TimeIsUp
  BY <1>2 DEF Loop!Cancel, Loop!CancelCloses, Loop!TimeIsUp, Loop!ghosts
<1>3. CASE Loop!TurnBegins
  BY <1>3
  DEF Loop!TurnBegins, Loop!Fails, Loop!EndsAs, Loop!WithMutations, Loop!parent,
      Loop!ghosts
<1>4. CASE Loop!TurnPolls
  <2>1. Loop!In(history') = Loop!In(history) \cup inbox
    BY <1>4, SteeredIs DEF Types, Loop!TurnPolls
  <2>2. /\ inbox' = {} /\ UNCHANGED <<sealed, loopCancelled, sent>> /\ loopPc = "poll"
        /\ \/ loopPc' = "done" /\ loopOutcome' \in {"error", "error_mutated"}
           \/ loopPc' = "request" /\ seen' = Loop!In(history') /\ UNCHANGED loopOutcome
    BY <1>4 DEF Loop!TurnPolls, Loop!Fails, Loop!EndsAs, Loop!WithMutations
  <2> QED
    BY <2>1, <2>2
<1>5. CASE Loop!ProviderFails
  BY <1>5
  DEF Loop!ProviderFails, Loop!Fails, Loop!EndsAs, Loop!WithMutations, Loop!parent,
      Loop!ghosts
<1>6. CASE Loop!ProviderAnswers
  <2>1. PICK n \in 0 .. MaxPlan + 1 : history' \in {history, Append(history, Loop!Assistant(n))}
    BY <1>6 DEF Loop!ProviderAnswers
  <2>2. Loop!In(history') = Loop!In(history)
    BY <1>6, <2>1, PlanMade DEF Types, Talk, Loop!ProviderAnswers
  <2>3. /\ UNCHANGED <<Loop!parent, seen>> /\ loopPc = "request"
        /\ \/ /\ loopPc' = "done"
              /\ loopOutcome' \in {"error", "error_mutated", "cancelled",
                                "cancelled_mutated"}
           \/ loopPc' \in {"finalize", "plan"} /\ UNCHANGED loopOutcome
    BY <1>6
    DEF Loop!ProviderAnswers, Loop!Fails, Loop!EndsAs, Loop!WithMutations,
        Loop!ghosts
  <2> QED
    BY <2>2, <2>3 DEF Loop!parent
<1>7. CASE Loop!Finalize
  <2>1. CASE inbox # {}
    <3>1. /\ Loop!In(history') = Loop!In(history) \cup inbox /\ inbox' = {}
          /\ \/ loopPc' = "turn" /\ loopOutcome' = loopOutcome
             \/ loopPc' = "done" /\ loopOutcome' \in {"error", "error_mutated"}
      BY <1>7, <2>1, SteersAre DEF Types, Talk, Loop!Finalize
    <3>2. UNCHANGED <<sealed, loopCancelled, sent>> /\ loopPc = "finalize"
      BY <1>7, <2>1 DEF Loop!Finalize
    <3> QED
      BY <3>1, <3>2
  <2>2. CASE inbox = {}
    BY <1>7, <2>2 DEF Loop!Finalize, Loop!ghosts
  <2> QED
    BY <2>1, <2>2
<1>8. CASE Loop!Plan \/ Loop!NextTool
  <2>1. CASE UNCHANGED <<history, inbox>>
    BY <1>8, <2>1
    DEF Loop!Plan, Loop!NextTool, Loop!SteersWith, Loop!Fails, Loop!EndsAs,
        Loop!WithMutations, Loop!ghosts
  <2>2. CASE ~UNCHANGED <<history, inbox>>
    <3>1. /\ Loop!In(history') = Loop!In(history) \cup inbox /\ inbox' = {}
          /\ \/ loopPc' = "turn" /\ loopOutcome' = loopOutcome
             \/ loopPc' = "done" /\ loopOutcome' \in {"error", "error_mutated"}
      BY <1>8, <2>2, PlanLeft DEF Talk, Loop!Plan, Loop!NextTool
    <3>2. UNCHANGED <<sealed, loopCancelled, sent>> /\ loopPc \in {"plan", "tool"}
      BY <1>8 DEF Loop!Plan, Loop!NextTool
    <3> QED
      BY <3>1, <3>2
  <2> QED
    BY <2>1, <2>2
<1>9. CASE Loop!ToolBegins
  BY <1>9
  DEF Loop!ToolBegins, Loop!Fails, Loop!EndsAs, Loop!WithMutations, Loop!parent
<1>10. CASE Loop!ToolAnswers
  <2>1. /\ history' = Append(history, Loop!Answer(next)) /\ loopPc = "running"
        /\ UNCHANGED <<Loop!parent, seen>>
        /\ \/ /\ loopPc' = "done"
              /\ loopOutcome' \in {"error", "error_mutated", "cancelled",
                                "cancelled_mutated"}
           \/ loopPc' = "tool" /\ UNCHANGED loopOutcome
    BY <1>10 DEF Loop!ToolAnswers, Loop!EndsAs, Loop!WithMutations
  <2>2. next \in 1 .. planned /\ planned \in 0 .. MaxPlan + 1
    BY <2>1, LoopAssumption DEF Types, Talk
  <2>3. Loop!In(history') = Loop!In(history)
    BY <2>1, <2>2, AnswerGiven DEF Types, Talk
  <2> QED
    BY <2>1, <2>3 DEF Loop!parent
<1>11. CASE Loop!ToolFails
  BY <1>11 DEF Loop!ToolFails, Loop!EndsAs, Loop!WithMutations, Loop!parent
<1>12. CASE UNCHANGED Loop!vars
  BY <1>12 DEF Loop!vars, Loop!parent, Loop!ghosts
<1> QED
  BY <1>1, <1>2, <1>3, <1>4, <1>5, <1>6, <1>7, <1>8, <1>9, <1>10, <1>11, <1>12
  DEF Loop!Next, Loop!Loop

(* What begins after a cancel is the last that begins.                     *)
LEMMA StoppingStep == ASSUME LoopInv, [Loop!Next]_Loop!vars PROVE Stopping'
<1> USE DEF LoopInv, Stopping
<1>1. ASSUME NEW m \in Messages, Loop!Send(m) PROVE Stopping'
  BY <1>1 DEF Loop!Send, Loop!ghosts
<1>2. CASE Loop!Cancel \/ Loop!CancelCloses \/ Loop!TimeIsUp
  BY <1>2 DEF Loop!Cancel, Loop!CancelCloses, Loop!TimeIsUp, Loop!ghosts
<1>3. CASE Loop!TurnBegins
  BY <1>3 DEF Loop!TurnBegins, Loop!Fails, Loop!EndsAs, Loop!parent, Loop!ghosts
<1>4. CASE Loop!TurnPolls
  <2>1. /\ loopPc = "poll" /\ UNCHANGED loopCancelled
        /\ \/ loopPc' = "request" /\ late' = late + (IF loopCancelled THEN 1 ELSE 0)
           \/ loopPc' = "done" /\ UNCHANGED late
    BY <1>4 DEF Loop!TurnPolls, Loop!Fails, Loop!EndsAs, Loop!Late
  <2> QED
    BY <2>1
<1>5. CASE Loop!ProviderFails \/ Loop!ProviderAnswers
  <2>1. UNCHANGED <<loopCancelled, late>> /\ loopPc = "request"
    BY <1>5 DEF Loop!ProviderFails, Loop!ProviderAnswers, Loop!parent, Loop!ghosts
  <2>2. loopCancelled => loopPc' = "done"
    BY <1>5
    DEF Loop!ProviderFails, Loop!ProviderAnswers, Loop!Stopped, Loop!Fails,
        Loop!EndsAs
  <2> QED
    BY <2>1, <2>2
<1>6. CASE Loop!Finalize \/ Loop!Plan \/ Loop!NextTool
  BY <1>6 DEF Loop!Finalize, Loop!Plan, Loop!NextTool, Loop!ghosts
<1>7. CASE Loop!ToolBegins
  <2>1. /\ loopPc = "begin" /\ UNCHANGED loopCancelled
        /\ \/ loopPc' = "running" /\ late' = late + (IF loopCancelled THEN 1 ELSE 0)
           \/ loopPc' = "done" /\ UNCHANGED late
    BY <1>7 DEF Loop!ToolBegins, Loop!Fails, Loop!EndsAs, Loop!parent, Loop!Late
  <2> QED
    BY <2>1
<1>8. CASE Loop!ToolAnswers \/ Loop!ToolFails
  <2>1. UNCHANGED <<loopCancelled, late>> /\ loopPc = "running"
    BY <1>8 DEF Loop!ToolAnswers, Loop!ToolFails, Loop!parent
  <2>2. loopCancelled => loopPc' = "done"
    BY <1>8 DEF Loop!ToolAnswers, Loop!ToolFails, Loop!Stopped, Loop!EndsAs
  <2> QED
    BY <2>1, <2>2
<1>9. CASE UNCHANGED Loop!vars
  BY <1>9 DEF Loop!vars, Loop!parent, Loop!ghosts
<1> QED
  BY <1>1, <1>2, <1>3, <1>4, <1>5, <1>6, <1>7, <1>8, <1>9 DEF Loop!Next, Loop!Loop
-------------------------------------------------------------------------------
(* A step of the loop keeps its invariant.                                 *)
LEMMA LoopStep == ASSUME LoopInv, [Loop!Next]_Loop!vars PROVE LoopInv'
  BY LoopTypeStep, TalkStep, SpendingStep, TurningStep, MailStep, StoppingStep
  DEF LoopInv

(* The types, as the loop states them.                                     *)
LEMMA TypesFollow == Types => Loop!TypeOK
<1> SUFFICES ASSUME Types PROVE Loop!TypeOK
  OBVIOUS
<1>1. {metered, toolCalls, charged, records, written, late} \subseteq Nat
  BY DEF Types
<1>2. {sealed, loopCancelled, expired} \subseteq BOOLEAN
  BY DEF Types
<1> QED
  BY <1>1, <1>2 DEF Types, Loop!TypeOK

(* What the invariant says of a run.                                       *)
LEMMA LoopFollows ==
  LoopInv => Loop!TypeOK /\ Loop!HistoryWellFormed /\ Loop!SteeringReachesModel /\ Loop!NoStaleTool
            /\ Loop!CancelStops /\ Loop!BudgetsHold
<1> SUFFICES ASSUME LoopInv
             PROVE  Loop!TypeOK /\ Loop!HistoryWellFormed /\ Loop!SteeringReachesModel /\ Loop!NoStaleTool
                      /\ Loop!CancelStops /\ Loop!BudgetsHold
  OBVIOUS
<1>1. Loop!TypeOK
  BY TypesFollow DEF LoopInv
<1>2. Loop!HistoryWellFormed
  <2> SUFFICES ASSUME loopPc = "request", NEW i \in DOMAIN history
               PROVE  /\ history[i].kind = "assistant" =>
                           /\ i + history[i].calls <= Len(history)
                           /\ \A k \in 1 .. history[i].calls : history[i + k] = Loop!Answer(k)
                      /\ history[i].kind = "tool" =>
                           \E j \in 1 .. i - 1 : /\ history[j].kind = "assistant"
                                                 /\ i - j = history[i].calls
                                                 /\ history[i].calls <= history[j].calls
    BY DEF Loop!HistoryWellFormed
  <2>1. WellFormed(history, Len(history)) /\ DOMAIN history = 1 .. Len(history)
    BY DEF LoopInv, Types, Talk
  <2>2. Answered(history, i, Len(history)) /\ Asked(history, i)
    BY <2>1 DEF WellFormed
  <2> QED
    BY <2>2 DEF Answered, Asked
<1>3. Loop!SteeringReachesModel /\ Loop!NoStaleTool
  BY DEF Loop!SteeringReachesModel, Loop!NoStaleTool, LoopInv, Mail, InPlan
<1>4. Loop!CancelStops /\ Loop!BudgetsHold
  BY DEF Loop!CancelStops, Loop!BudgetsHold, LoopInv, Stopping, Spending
<1> QED
  BY <1>1, <1>2, <1>3, <1>4
-------------------------------------------------------------------------------
(* One call of the provider.                                               *)

(* What an attempt came to is known from its end to the next.              *)
Verdicts ==
  /\ callPc \in {"check", "start", "wait", "backoff"} => verdict # "ok"
  /\ callPc \in {"stop", "judge"} => verdict # "none"
  /\ verdict = "ok" => child = "ok"
  /\ callOutcome = "ok" => verdict = "ok"
  /\ callPc = "backoff" => attempt < Retries /\ reasons # {}

Children ==
  /\ Call!Alive => callPc \in {"wait", "stop", "gone"} \/ callOutcome = "cleanup"
  /\ Call!Alive => (watched <=> callPc \in {"wait", "stop"})
  /\ callOutcome # "none" => callPc \in {"done", "gone"}

CallInv == Call!TypeOK /\ Verdicts /\ Children /\ Call!NothingPastDeadline /\ Call!RepeatsTransientOnly
-------------------------------------------------------------------------------
(* The smallest of two or three times is one of them, and none is smaller. *)
LEMMA SmallestOfTwo ==
  ASSUME NEW a \in Int, NEW b \in Int
  PROVE  /\ Call!Smallest({a, b}) \in {a, b}
         /\ Call!Smallest({a, b}) <= a /\ Call!Smallest({a, b}) <= b
<1>1. \E x \in {a, b} : \A y \in {a, b} : x <= y
  <2>1. CASE a <= b
    BY <2>1
  <2>2. CASE b <= a
    BY <2>2
  <2> QED
    BY <2>1, <2>2
<1>2. Call!Smallest({a, b}) \in {a, b} /\ \A y \in {a, b} : Call!Smallest({a, b}) <= y
  BY <1>1 DEF Call!Smallest
<1> QED
  BY <1>2

(* The same for three.                                                     *)
LEMMA SmallestOfThree ==
  ASSUME NEW a \in Int, NEW b \in Int, NEW c \in Int
  PROVE  /\ Call!Smallest({a, b, c}) \in {a, b, c} /\ Call!Smallest({a, b, c}) <= c
         /\ Call!Smallest({a, b, c}) <= a /\ Call!Smallest({a, b, c}) <= b
<1>1. \E x \in {a, b, c} : \A y \in {a, b, c} : x <= y
  <2>1. CASE a <= b /\ a <= c
    BY <2>1
  <2>2. CASE b <= a /\ b <= c
    BY <2>2
  <2>3. CASE c <= a /\ c <= b
    BY <2>3
  <2> QED
    BY <2>1, <2>2, <2>3
<1>2. /\ Call!Smallest({a, b, c}) \in {a, b, c}
      /\ \A y \in {a, b, c} : Call!Smallest({a, b, c}) <= y
  BY <1>1 DEF Call!Smallest
<1> QED
  BY <1>2

(* No more is left than the clock that counts everything leaves.           *)
LEMMA RemainingIs ==
  ASSUME Call!TypeOK, NEW d \in Call!Deadlines
  PROVE  Call!Remaining(d) \in Int /\ Call!Remaining(d) <= d.cont - now
<1>1. d.mono - Call!Monotonic \in Int /\ d.real - Call!Realtime \in Int /\ d.cont - Call!Continuous \in Int
  BY DEF Call!TypeOK, Call!Deadlines, Call!Monotonic, Call!Realtime, Call!Continuous
<1>2. /\ Call!Remaining(d) \in {d.mono - Call!Monotonic, d.real - Call!Realtime, d.cont - Call!Continuous}
      /\ Call!Remaining(d) <= d.cont - Call!Continuous
  BY <1>1, SmallestOfThree DEF Call!Remaining
<1> QED
  BY <1>1, <1>2 DEF Call!Continuous

(* The deadline of the run, in each of the clocks.                         *)
LEMMA RunDeadlineIs == Call!RunDeadline \in Call!Deadlines /\ Call!RunDeadline.cont = RunSeconds
  BY CallAssumption DEF Call!RunDeadline, Call!Deadlines

(* A deadline some time from now is a deadline.                            *)
LEMMA AfterIs ==
  ASSUME Call!TypeOK, NEW s \in Int PROVE Call!After(s) \in Call!Deadlines
  BY DEF Call!TypeOK, Call!After, Call!Deadlines, Call!Monotonic, Call!Realtime,
         Call!Continuous

(* The deadline of a request is not after that of the run.                 *)
LEMMA LimitedIs ==
  ASSUME Call!TypeOK
  PROVE  /\ Call!Limited(RequestSeconds) \in Call!Deadlines
         /\ Call!Limited(RequestSeconds).cont <= RunSeconds
<1> DEFINE d == Call!RunDeadline
           l == Call!After(RequestSeconds)
<1>1. /\ d \in Call!Deadlines /\ d.cont = RunSeconds /\ l \in Call!Deadlines
      /\ RequestSeconds \in Int /\ RunSeconds \in Int
  BY RunDeadlineIs, AfterIs, CallAssumption
<1>2. /\ d.mono \in Int /\ d.real \in Int /\ d.cont \in Int
      /\ l.mono \in Int /\ l.real \in Int /\ l.cont \in Int
  BY <1>1 DEF Call!Deadlines
<1> DEFINE e == [mono |-> Call!Smallest({d.mono, l.mono}),
                 real |-> Call!Smallest({d.real, l.real}),
                 cont |-> Call!Smallest({d.cont, l.cont})]
<1>3. Call!Limited(RequestSeconds) \in {d, e}
  BY DEF Call!Limited
<1> HIDE DEF d, l
<1>4. /\ Call!Smallest({d.mono, l.mono}) \in Int /\ Call!Smallest({d.real, l.real}) \in Int
      /\ Call!Smallest({d.cont, l.cont}) \in Int /\ Call!Smallest({d.cont, l.cont}) <= d.cont
  BY <1>2, SmallestOfTwo
<1>5. e \in Call!Deadlines /\ e.cont <= RunSeconds
  BY <1>1, <1>4 DEF Call!Deadlines
<1> QED
  BY <1>1, <1>3, <1>5
-------------------------------------------------------------------------------
(* A call begins with the invariant.                                       *)
LEMMA CallInit == Call!Init => CallInv
<1> SUFFICES ASSUME Call!Init PROVE CallInv
  OBVIOUS
<1>1. Call!TypeOK
  <2>1. [mono |-> 0, real |-> 0, cont |-> 0] \in Call!Deadlines
    BY DEF Call!Deadlines
  <2>2. requestEnd \in Call!Deadlines /\ childEnd \in Call!Deadlines
    BY <2>1 DEF Call!Init
  <2>3. 0 \in 0 .. Retries
    BY CallAssumption
  <2>4. /\ byRun \in BOOLEAN /\ callCancelled \in BOOLEAN /\ watched \in BOOLEAN
        /\ reasons \in SUBSET (Call!Answers \cup {"cancelled", "deadline"})
    BY DEF Call!Init
  <2> QED
    BY <2>2, <2>3, <2>4 DEF Call!Init, Call!TypeOK, Call!Answers, Call!Outcomes
<1> QED
  BY <1>1
  DEF Call!Init, CallInv, Verdicts, Children, Call!Alive, Call!NothingPastDeadline,
      Call!RepeatsTransientOnly

(* Every variable of the call keeps its type.                              *)
LEMMA CallTypeStep == ASSUME CallInv, [Call!Next]_Call!vars PROVE Call!TypeOK'
<1> USE DEF CallInv, Verdicts, Call!Answers, Call!Outcomes
<1>1. CASE Call!CheckCancel
  BY <1>1
  DEF Call!TypeOK, Call!CheckCancel, Call!Ends, Call!clock, Call!helper, Call!ghosts
<1>2. CASE Call!Start
  <2>1. requestEnd' \in Call!Deadlines /\ byRun' \in BOOLEAN
    <3>1. requestEnd' = Call!Limited(RequestSeconds)
          /\ byRun' = (Call!Remaining(Call!RunDeadline) <= RequestSeconds)
      BY <1>2 DEF Call!Start
    <3> QED
      BY <3>1, LimitedIs
  <2>2. Call!After(Call!Remaining(requestEnd')) \in Call!Deadlines
    BY <2>1, RemainingIs, AfterIs
  <2>3. UNCHANGED <<Call!clock, attempt, verdict, wakes, callCancelled, reasons>>
    BY <1>2 DEF Call!Start
  <2>4. \/ /\ callPc' = "wait" /\ UNCHANGED callOutcome
           /\ child' = "running" /\ watched' = TRUE /\ began' = now
           /\ childEnd' = Call!After(Call!Remaining(requestEnd'))
        \/ /\ callPc' = "done" /\ callOutcome' \in {"deadline", "permanent"}
           /\ UNCHANGED <<child, watched, childEnd, began>>
    BY <1>2 DEF Call!Start, Call!Launched, Call!Ends
  <2> QED
    BY <2>1, <2>2, <2>3, <2>4 DEF Call!TypeOK, Call!clock
<1>3. CASE Call!Await
  BY <1>3
  DEF Call!TypeOK, Call!Await, Call!Decoded, Call!clock, Call!helper, Call!ghosts
<1>4. CASE Call!Stop
  BY <1>4
  DEF Call!TypeOK, Call!Stop, Call!StopsOrNot, Call!Ends, Call!clock, Call!ghosts
<1>5. CASE Call!Judge
  <2>1. wakes' \in Int
    <3>1. Backoff * (attempt + 1) \in Int
      BY CallAssumption DEF Call!TypeOK
    <3>2. Call!Smallest({Backoff * (attempt + 1), Call!Remaining(Call!RunDeadline)}) \in Int
      BY <3>1, RunDeadlineIs, RemainingIs, SmallestOfTwo
    <3> QED
      BY <1>5, <3>2 DEF Call!TypeOK, Call!Judge, Call!Monotonic
  <2>2. /\ UNCHANGED <<Call!clock, attempt, requestEnd, byRun, verdict, callCancelled, Call!helper,
                       began>>
        /\ callPc' \in {"done", "backoff"} /\ verdict # "none"
        /\ callOutcome' \in {callOutcome, "unreachable", "deadline"}
             \/ (verdict # "transient" /\ callOutcome' = verdict)
        /\ reasons' \in {reasons, reasons \cup {verdict}}
    BY <1>5 DEF Call!Judge, Call!Ends, Call!Retryable
  <2> QED
    BY <2>1, <2>2 DEF Call!TypeOK, Call!clock, Call!helper
<1>6. CASE Call!Wake
  BY <1>6, CallAssumption
  DEF Call!TypeOK, Call!Wake, Call!Ends, Call!clock, Call!helper, Call!ghosts
<1>7. CASE Call!ChildAnswers \/ Call!ChildWatchdog
  <2>1. /\ child' \in {"ok", "transient", "permanent", "crashed"}
        /\ UNCHANGED <<now, asleep, skew, callPc, attempt, requestEnd, byRun, verdict,
                       wakes, callOutcome, callCancelled, childEnd, watched, began, reasons>>
    BY <1>7
    DEF Call!ChildAnswers, Call!ChildWatchdog, Call!clock, Call!thread, Call!ghosts
  <2> QED
    BY <2>1 DEF Call!TypeOK
<1>8. CASE Call!Tick \/ Call!Suspend
  <2>1. /\ now' = now + 1 /\ asleep' \in {asleep, asleep + 1}
        /\ UNCHANGED <<skew, callPc, attempt, requestEnd, byRun, verdict, wakes, callOutcome,
                       callCancelled, child, childEnd, watched, began, reasons>>
    BY <1>8 DEF Call!Tick, Call!Suspend, Call!thread, Call!helper, Call!ghosts
  <2> QED
    BY <2>1 DEF Call!TypeOK
<1>9. CASE Call!SetClock
  BY <1>9, CallAssumption
  DEF Call!TypeOK, Call!SetClock, Call!thread, Call!helper, Call!ghosts
<1>10. CASE Call!Cancel \/ Call!ServerDies
  <2>1. /\ callPc' \in {callPc, "gone"}
        /\ UNCHANGED <<now, asleep, skew, attempt, requestEnd, byRun, verdict, wakes,
                       callOutcome, child, childEnd, began, reasons>>
    BY <1>10
    DEF Call!Cancel, Call!ServerDies, Call!clock, Call!thread, Call!helper,
        Call!ghosts
  <2>2. callCancelled' \in BOOLEAN
    BY <1>10 DEF Call!TypeOK, Call!Cancel, Call!ServerDies
  <2>3. watched' \in BOOLEAN
    BY <1>10 DEF Call!TypeOK, Call!Cancel, Call!ServerDies, Call!helper
  <2> QED
    BY <2>1, <2>2, <2>3 DEF Call!TypeOK
<1>11. CASE UNCHANGED Call!vars
  BY <1>11
  DEF Call!TypeOK, Call!vars, Call!clock, Call!thread, Call!helper, Call!ghosts
<1> QED
  BY <1>1, <1>2, <1>3, <1>4, <1>5, <1>6, <1>7, <1>8, <1>9, <1>10, <1>11
  DEF Call!Next, Call!Thread

(* A child is started only while the clock that counts everything leaves   *)
(* the run time.                                                           *)
LEMMA DeadlineStep == ASSUME CallInv, [Call!Next]_Call!vars PROVE Call!NothingPastDeadline'
<1> USE DEF CallInv, Call!NothingPastDeadline
<1>1. CASE Call!Start
  <2>1. CASE UNCHANGED <<child, began>>
    BY <2>1
  <2>2. CASE ~UNCHANGED <<child, began>>
    <3>1. /\ requestEnd' = Call!Limited(RequestSeconds)
          /\ Call!Remaining(requestEnd') > 0 /\ began' = now
      BY <1>1, <2>2 DEF Call!Start, Call!Launched
    <3>2. requestEnd' \in Call!Deadlines /\ requestEnd'.cont <= RunSeconds
      BY <3>1, LimitedIs
    <3>3. Call!Remaining(requestEnd') \in Int /\ Call!Remaining(requestEnd') <= requestEnd'.cont - now
      BY <3>2, RemainingIs
    <3> QED
      BY <3>1, <3>2, <3>3, CallAssumption DEF Call!TypeOK, Call!Deadlines
  <2> QED
    BY <2>1, <2>2
<1>2. CASE Call!CheckCancel \/ Call!Await \/ Call!Judge \/ Call!Wake
  BY <1>2
  DEF Call!CheckCancel, Call!Await, Call!Judge, Call!Wake, Call!helper, Call!ghosts
<1>3. CASE Call!Stop
  BY <1>3 DEF Call!Stop, Call!StopsOrNot, Call!Alive, Call!ghosts
<1>4. CASE Call!ChildAnswers \/ Call!ChildWatchdog
  BY <1>4 DEF Call!ChildAnswers, Call!ChildWatchdog, Call!Alive, Call!ghosts
<1>5. CASE Call!Tick \/ Call!Suspend \/ Call!SetClock \/ Call!Cancel \/ Call!ServerDies
  BY <1>5
  DEF Call!Tick, Call!Suspend, Call!SetClock, Call!Cancel, Call!ServerDies,
      Call!helper, Call!ghosts
<1>6. CASE UNCHANGED Call!vars
  BY <1>6 DEF Call!vars, Call!helper, Call!ghosts
<1> QED
  BY <1>1, <1>2, <1>3, <1>4, <1>5, <1>6 DEF Call!Next, Call!Thread

(* A child lives only while its attempt lasts, or is reported.             *)
LEMMA ChildrenStep == ASSUME CallInv, [Call!Next]_Call!vars PROVE Children'
<1> USE DEF CallInv, Children, Call!Alive
<1>1. CASE Call!CheckCancel
  BY <1>1 DEF Call!CheckCancel, Call!Ends, Call!helper
<1>2. CASE Call!Start
  <2>1. /\ callPc = "start"
        /\ \/ /\ callPc' = "wait" /\ UNCHANGED callOutcome
              /\ child' = "running" /\ watched' = TRUE
           \/ /\ callPc' = "done" /\ UNCHANGED <<child, watched>>
    BY <1>2 DEF Call!Start, Call!Launched, Call!Ends
  <2> QED
    BY <2>1
<1>3. CASE Call!Await
  BY <1>3 DEF Call!Await, Call!helper
<1>4. CASE Call!Stop
  BY <1>4 DEF Call!Stop, Call!StopsOrNot, Call!Ends
<1>5. CASE Call!Judge \/ Call!Wake
  BY <1>5 DEF Call!Judge, Call!Wake, Call!Ends, Call!helper
<1>6. CASE Call!ChildAnswers \/ Call!ChildWatchdog
  BY <1>6 DEF Call!ChildAnswers, Call!ChildWatchdog, Call!thread, Call!Answers
<1>7. CASE Call!Tick \/ Call!Suspend \/ Call!SetClock \/ Call!Cancel
  BY <1>7
  DEF Call!Tick, Call!Suspend, Call!SetClock, Call!Cancel, Call!thread, Call!helper
<1>8. CASE Call!ServerDies
  BY <1>8 DEF Call!ServerDies
<1>9. CASE UNCHANGED Call!vars
  BY <1>9 DEF Call!vars, Call!thread, Call!helper
<1> QED
  BY <1>1, <1>2, <1>3, <1>4, <1>5, <1>6, <1>7, <1>8, <1>9 DEF Call!Next, Call!Thread

(* An answer is believed only if the child that ended gave it, and an      *)
(* attempt follows only one that failed in passing.                        *)
LEMMA VerdictsStep == ASSUME CallInv, [Call!Next]_Call!vars PROVE Verdicts' /\ Call!RepeatsTransientOnly'
<1> USE DEF CallInv, Verdicts, Call!RepeatsTransientOnly, Call!Answers
<1>1. CASE Call!CheckCancel
  BY <1>1 DEF Call!CheckCancel, Call!Ends, Call!helper, Call!ghosts
<1>2. CASE Call!Start
  <2>1. /\ callPc = "start" /\ UNCHANGED <<attempt, verdict, reasons>>
        /\ \/ callPc' = "wait" /\ UNCHANGED callOutcome
           \/ callPc' = "done" /\ callOutcome' \in {"deadline", "permanent"}
    BY <1>2 DEF Call!Start, Call!Launched, Call!Ends
  <2> QED
    BY <2>1 DEF Children
<1>3. CASE Call!Await
  <2>1. /\ callPc = "wait" /\ callPc' = "stop"
        /\ UNCHANGED <<attempt, callOutcome, child, reasons>>
        /\ \/ verdict' = Call!Decoded
           \/ verdict' \in {"cancelled", "deadline", "transient"}
    BY <1>3 DEF Call!Await, Call!helper, Call!ghosts
  <2> QED
    BY <2>1 DEF Call!Decoded, Children
<1>4. CASE Call!Stop
  BY <1>4 DEF Call!Stop, Call!StopsOrNot, Call!Ends, Call!Alive, Call!ghosts
<1>5. CASE Call!Judge
  <2>1. /\ callPc = "judge" /\ UNCHANGED <<attempt, verdict, child>>
        /\ \/ /\ callPc' = "done" /\ UNCHANGED reasons
              /\ callOutcome' \in {"unreachable", "deadline", verdict}
           \/ /\ callPc' = "backoff" /\ UNCHANGED callOutcome
              /\ reasons' = reasons \cup {verdict}
              /\ verdict = "transient" /\ attempt < Retries
    BY <1>5 DEF Call!Judge, Call!Ends, Call!Repeats, Call!Retryable, Call!helper
  <2> QED
    BY <2>1
<1>6. CASE Call!Wake
  BY <1>6 DEF Call!Wake, Call!Ends, Children, Call!helper, Call!ghosts, Call!TypeOK
<1>7. CASE Call!ChildAnswers \/ Call!ChildWatchdog
  BY <1>7
  DEF Call!ChildAnswers, Call!ChildWatchdog, Call!Alive, Call!thread, Call!ghosts
<1>8. CASE Call!Tick \/ Call!Suspend \/ Call!SetClock \/ Call!Cancel
  BY <1>8
  DEF Call!Tick, Call!Suspend, Call!SetClock, Call!Cancel, Call!thread, Call!helper,
      Call!ghosts
<1>9. CASE Call!ServerDies
  BY <1>9 DEF Call!ServerDies, Call!ghosts
<1>10. CASE UNCHANGED Call!vars
  BY <1>10 DEF Call!vars, Call!thread, Call!helper, Call!ghosts
<1> QED
  BY <1>1, <1>2, <1>3, <1>4, <1>5, <1>6, <1>7, <1>8, <1>9, <1>10
  DEF Call!Next, Call!Thread

(* A step of the call keeps its invariant.                                 *)
LEMMA CallStep == ASSUME CallInv, [Call!Next]_Call!vars PROVE CallInv'
  BY CallTypeStep, DeadlineStep, ChildrenStep, VerdictsStep DEF CallInv

(* What the invariant says of a call.                                      *)
LEMMA CallFollows ==
  CallInv => Call!TypeOK /\ Call!NothingPastDeadline /\ Call!NoChildLeft /\ Call!RepeatsTransientOnly
  BY DEF CallInv, Children, Call!NoChildLeft
-------------------------------------------------------------------------------
(* A child and what it writes.                                             *)

(* The last line on the pipe is what the child meant to say, or no answer. *)
LastMeant(ls) ==
  ls # <<>> => ls[Len(ls)] \in {"ready", "warning", "error", "garbage", answer}

(* It has said that it will change the file, on a line of its own.         *)
Said(ls, o) == ls # <<>> /\ ls[1] = "ready" /\ (o => Len(ls) > 1)

PipeTypes ==
  /\ kind \in {"provider", "reading", "changing"}
  /\ childPc \in {"born", "read", "work", "ready", "commit", "warn", "answer", "unwind",
             "exit", "ended"}
  /\ code \in {"none", "0", "1", "killed"} /\ request \in {"whole", "cut"}
  /\ lines \in Seq(Pipe!Lines) /\ output \in Seq(Pipe!Lines)
  /\ open \in BOOLEAN
  /\ answer \in {"none", "ok", "refused", "budget", "transient", "permanent"}
  /\ record \in {"none", "committed", "uncertain"}
  /\ pipeVerdict \in {"none", "clean", "again", "review", "unverified", "plain"}

(* What is on the pipe, by where the child stands.                         *)
OnPipe ==
  /\ open => lines # <<>>
  /\ childPc \in {"born", "read", "work", "ready"} => lines = <<>>
  /\ childPc \in {"commit", "warn"} => lines = <<"ready">> /\ ~open /\ answer = "ok"
  /\ childPc \in {"ready", "answer"} => answer # "none"
  /\ LastMeant(lines)
  /\ fileChanged => Said(lines, open)

(* The journal, the pipe, the file: in this order.                         *)
Order ==
  /\ childPc \in {"ready", "commit", "warn"} => journaled
  /\ fileChanged => journaled
  /\ journaled => kind = "changing"
  /\ childPc \in {"born", "read", "work", "ready", "commit"} => ~fileChanged

(* What the server has read and decided.                                   *)
Known ==
  /\ server \in {"waits", "stops", "dead", "cleans", "settles", "done"}
  /\ server \in {"cleans", "settles", "done"} =>
       (childPc = "ended" /\ output = lines) \/ (~tidy /\ output = <<>>)
  /\ server \in {"waits", "stops", "dead"} => output = <<>>
  /\ result \in {"none", "ok", "refused", "transient"}
  /\ result # "none" => kind = "provider" \/ result # "transient"
  /\ result \in {"ok", "refused"} =>
       /\ server \in {"cleans", "settles", "done"}
       /\ childPc = "ended" /\ output = lines /\ result = answer
  /\ server # "done" => pipeVerdict = "none"
  /\ server = "dead" => pipeVerdict = "none"

PipeInv == PipeTypes /\ OnPipe /\ Order /\ Known /\ Pipe!OnlyWholeAnswers /\ Pipe!ChangesTold
-------------------------------------------------------------------------------
(* What is added to the pipe takes nothing away that had its end.          *)
LEMMA AddingIs ==
  ASSUME PipeInv, NEW line \in Pipe!Lines
  PROVE  /\ Pipe!Adding(line) \in Seq(Pipe!Lines) /\ Pipe!Adding(line) # <<>>
         /\ Pipe!Adding(line)[Len(Pipe!Adding(line))] \in {"garbage", line}
         /\ fileChanged => Pipe!Adding(line)[1] = "ready" /\ Len(Pipe!Adding(line)) > 1
         /\ lines = <<"ready">> /\ ~open => Said(Pipe!Adding(line), TRUE)
<1>1. lines \in Seq(Pipe!Lines) /\ Len(lines) \in Nat /\ (open => lines # <<>>)
  BY DEF PipeInv, PipeTypes, OnPipe
<1>2. CASE open
  <2> DEFINE n == Len(lines)
             m == [lines EXCEPT ![n] = "garbage"]
  <2>1. n \in 1 .. Len(lines) /\ "garbage" \in Pipe!Lines
    BY <1>1, <1>2 DEF Pipe!Lines
  <2>2. m \in Seq(Pipe!Lines) /\ Len(m) = n
        /\ \A i \in 1 .. n : m[i] = IF i = n THEN "garbage" ELSE lines[i]
    BY <1>1, <2>1, ExceptSeq
  <2>3. Pipe!Adding(line) = m
    BY <1>2 DEF Pipe!Adding
  <2> HIDE DEF m
  <2>4. fileChanged => m[1] = "ready" /\ n > 1
    BY <1>1, <1>2, <2>1, <2>2 DEF PipeInv, OnPipe, Said
  <2>5. m # <<>>
    BY <2>1, <2>2
  <2> QED
    BY <1>2, <2>1, <2>2, <2>3, <2>4, <2>5
<1>3. CASE ~open
  <2>1. /\ Pipe!Adding(line) = Append(lines, line) /\ Pipe!Adding(line) \in Seq(Pipe!Lines)
        /\ Len(Pipe!Adding(line)) = Len(lines) + 1
        /\ Pipe!Adding(line)[Len(lines) + 1] = line
        /\ \A i \in 1 .. Len(lines) : Pipe!Adding(line)[i] = lines[i]
    BY <1>1, <1>3 DEF Pipe!Adding
  <2>2. fileChanged => Len(lines) > 0 /\ lines[1] = "ready"
    BY <1>1 DEF PipeInv, OnPipe, Said
  <2>3. lines = <<"ready">> => Len(lines) = 1 /\ lines[1] = "ready"
    OBVIOUS
  <2> QED
    BY <1>1, <2>1, <2>2, <2>3 DEF Said
<1> QED
  BY <1>2, <1>3

(* What a whole line leaves on the pipe.                                   *)
LEMMA WriteIs ==
  ASSUME PipeInv, NEW line \in {"ready", "warning", "error", answer}, line \in Pipe!Lines,
         NEW ends \in BOOLEAN, Pipe!Write(line, ends)
  PROVE  /\ lines' \in Seq(Pipe!Lines) /\ open' \in BOOLEAN /\ lines' # <<>>
         /\ lines'[Len(lines')] \in {"ready", "warning", "error", "garbage", answer}
         /\ fileChanged => Said(lines', open')
         /\ lines = <<"ready">> /\ ~open => Said(lines', open')
<1>1. lines' = Pipe!Adding(line) /\ open' = ~ends
  BY DEF Pipe!Write
<1>2. /\ lines' \in Seq(Pipe!Lines) /\ lines' # <<>>
      /\ lines'[Len(lines')] \in {"garbage", line}
      /\ fileChanged => lines'[1] = "ready" /\ Len(lines') > 1
      /\ lines = <<"ready">> /\ ~open => Said(lines', TRUE)
  BY <1>1, AddingIs
<1> QED
  BY <1>1, <1>2 DEF Said

(* What a write that is interrupted leaves.                                *)
LEMMA LeftIs ==
  ASSUME PipeInv, Pipe!Left
  PROVE  /\ lines' \in Seq(Pipe!Lines) /\ open' \in BOOLEAN
         /\ open' => lines' # <<>>
         /\ LastMeant(lines')
         /\ fileChanged => Said(lines', open')
         /\ childPc \notin {"ready", "warn", "answer", "unwind"} => UNCHANGED <<lines, open>>
<1>0. /\ lines \in Seq(Pipe!Lines) /\ open \in BOOLEAN /\ (open => lines # <<>>)
      /\ LastMeant(lines) /\ (fileChanged => Said(lines, open))
  BY DEF PipeInv, PipeTypes, OnPipe
<1>1. CASE UNCHANGED <<lines, open>>
  BY <1>0, <1>1 DEF LastMeant, Said
<1>2. CASE ~UNCHANGED <<lines, open>>
  <2>1. PICK line : /\ line \in {"ready", "warning", "error", answer}
                    /\ childPc \in {"ready", "warn", "answer", "unwind"}
                    /\ line \in Pipe!Lines
                    /\ Pipe!Interrupted(line, childPc \in {"ready", "warn"})
    BY <1>2, Zenon
    DEF Pipe!Left, Pipe!Writing, PipeInv, PipeTypes, OnPipe, Pipe!Lines
  <2>2. CASE lines' = Pipe!Adding("garbage") /\ open' = TRUE
    <3>1. "garbage" \in Pipe!Lines
      BY DEF Pipe!Lines
    <3>2. /\ lines' \in Seq(Pipe!Lines) /\ lines' # <<>>
          /\ lines'[Len(lines')] = "garbage"
          /\ fileChanged => lines'[1] = "ready" /\ Len(lines') > 1
      BY <2>2, <3>1, AddingIs
    <3> QED
      BY <2>1, <2>2, <3>2 DEF LastMeant, Said
  <2>3. CASE Pipe!Write(line, childPc \in {"ready", "warn"})
    <3>1. (childPc \in {"ready", "warn"}) \in BOOLEAN
      OBVIOUS
    <3>2. /\ lines' \in Seq(Pipe!Lines) /\ open' \in BOOLEAN /\ lines' # <<>>
          /\ lines'[Len(lines')] \in {"ready", "warning", "error", "garbage", answer}
          /\ fileChanged => Said(lines', open')
      BY <2>1, <2>3, <3>1, WriteIs
    <3> QED
      BY <2>1, <3>2 DEF LastMeant
  <2> QED
    BY <1>2, <2>1, <2>2, <2>3 DEF Pipe!Interrupted
<1> QED
  BY <1>1, <1>2
-------------------------------------------------------------------------------
(* A child begins with the invariant.                                      *)
LEMMA PipeInit == Pipe!Init => PipeInv
<1> SUFFICES ASSUME Pipe!Init PROVE PipeInv
  OBVIOUS
<1>1. PipeTypes
  <2>1. lines \in Seq(Pipe!Lines) /\ output \in Seq(Pipe!Lines)
    BY DEF Pipe!Init
  <2> QED
    BY <2>1 DEF Pipe!Init, PipeTypes
<1>2. OnPipe /\ Order
  BY DEF Pipe!Init, OnPipe, Order, LastMeant
<1>3. Known /\ Pipe!OnlyWholeAnswers /\ Pipe!ChangesTold
  BY DEF Pipe!Init, Known, Pipe!OnlyWholeAnswers, Pipe!ChangesTold
<1> QED
  BY <1>1, <1>2, <1>3 DEF PipeInv

(* A child that lives is one whose answer the server does not have.        *)
LEMMA ChildMoves ==
  ASSUME PipeInv, childPc # "ended", UNCHANGED <<kind, Pipe!serverVars>>, Order'
  PROVE  Known' /\ Pipe!OnlyWholeAnswers' /\ Pipe!ChangesTold'
<1>1. /\ UNCHANGED <<server, output, result, tidy, record, pipeVerdict>>
      /\ result \notin {"ok", "refused"}
      /\ server \in {"cleans", "settles", "done"} => ~tidy /\ output = <<>>
  BY DEF PipeInv, Known, Pipe!serverVars
<1>2. Known'
  BY <1>1 DEF PipeInv, Known
<1>3. Pipe!OnlyWholeAnswers'
  BY <1>1 DEF PipeInv, Pipe!OnlyWholeAnswers
<1>4. Pipe!ChangesTold'
  BY <1>1 DEF PipeInv, Known, Pipe!ChangesTold, Order
<1> QED
  BY <1>2, <1>3, <1>4

(* Wherever the child is stopped, the invariant holds.                     *)
LEMMA ChildStep ==
  ASSUME PipeInv,
         \/ Pipe!Starts \/ Pipe!Reads \/ Pipe!Asks \/ Pipe!Executes \/ Pipe!RecordsIntent \/ Pipe!TellsReady
         \/ Pipe!Commits \/ Pipe!Warns \/ Pipe!WritesAnswer \/ Pipe!Unwinds \/ Pipe!Exits
         \/ Pipe!Terminated \/ Pipe!Killed \/ Pipe!Signal
  PROVE  PipeInv'
<1>0. childPc # "ended" /\ UNCHANGED <<kind, Pipe!serverVars>>
  BY DEF Pipe!Starts, Pipe!Reads, Pipe!Asks, Pipe!Executes, Pipe!RecordsIntent,
         Pipe!TellsReady, Pipe!Commits, Pipe!Warns, Pipe!WritesAnswer, Pipe!Unwinds,
         Pipe!Exits, Pipe!Terminated, Pipe!Killed, Pipe!Signal, Pipe!Own, Pipe!Alive
<1> SUFFICES PipeTypes' /\ OnPipe' /\ Order'
  BY <1>0, ChildMoves DEF PipeInv
<1>1. UNCHANGED <<server, output, result, tidy, record, pipeVerdict>>
  BY <1>0 DEF Pipe!serverVars
<1>2. request' \in {"whole", "cut"}
  BY DEF Pipe!Starts, Pipe!Reads, Pipe!Asks, Pipe!Executes, Pipe!RecordsIntent,
         Pipe!TellsReady, Pipe!Commits, Pipe!Warns, Pipe!WritesAnswer, Pipe!Unwinds,
         Pipe!Exits, Pipe!Terminated, Pipe!Killed, Pipe!Signal, Pipe!Own, PipeInv,
         PipeTypes
<1>3. CASE Pipe!Starts \/ Pipe!Reads \/ Pipe!Asks \/ Pipe!Executes \/ Pipe!RecordsIntent
  <2>1. /\ UNCHANGED <<lines, open, fileChanged>> /\ lines = <<>>
        /\ childPc \in {"born", "read", "work"}
        /\ childPc' \in {"read", "ended", "answer", "work", "unwind", "ready"}
        /\ code' \in {"none", "0", "1", "killed"}
        /\ answer' \in {"none", "ok", "refused", "budget", "transient", "permanent"}
        /\ journaled' = journaled \/ journaled' = TRUE
        /\ journaled' # journaled \/ childPc' = "ready" => journaled' /\ kind = "changing"
        /\ childPc' \in {"ready", "answer"} => answer' # "none"
    BY <1>3
    DEF Pipe!Starts, Pipe!Reads, Pipe!Asks, Pipe!Executes, Pipe!RecordsIntent,
        Pipe!Own, Pipe!Answers, Pipe!Ends, PipeInv, PipeTypes, OnPipe
  <2>2. PipeTypes'
    BY <1>0, <1>1, <1>2, <2>1 DEF PipeInv, PipeTypes
  <2>3. OnPipe'
    BY <2>1 DEF PipeInv, OnPipe, Order, LastMeant
  <2>4. Order'
    BY <1>0, <2>1 DEF PipeInv, Order
  <2> QED
    BY <2>2, <2>3, <2>4
<1>4. CASE Pipe!TellsReady
  <2>1. /\ childPc = "ready" /\ lines = <<>> /\ ~open /\ ~fileChanged
        /\ UNCHANGED <<code, answer, journaled, fileChanged>>
        /\ \/ childPc' = "unwind" /\ UNCHANGED <<lines, open>>
           \/ /\ Pipe!Write("ready", TRUE)
              /\ childPc' \in {"commit", "answer"} /\ (childPc' = "commit" => answer = "ok")
    BY <1>4 DEF Pipe!TellsReady, Pipe!Tells, Pipe!AfterReady, PipeInv, OnPipe, Order
  <2>2. ASSUME Pipe!Write("ready", TRUE) PROVE lines' = <<"ready">> /\ open' = FALSE
    <3>1. lines' = Append(<<>>, "ready") /\ open' = FALSE
      BY <2>1, <2>2 DEF Pipe!Write, Pipe!Adding
    <3>2. Append(<<>>, "ready") = <<"ready">>
      OBVIOUS
    <3> QED
      BY <3>1, <3>2
  <2>3. "ready" \in Pipe!Lines
    BY DEF Pipe!Lines
  <2>4. lines' \in Seq(Pipe!Lines) /\ open' \in BOOLEAN
    <3>1. <<"ready">> \in Seq(Pipe!Lines)
      BY <2>3
    <3> QED
      BY <2>1, <2>2, <3>1 DEF PipeInv, PipeTypes
  <2>5. PipeTypes'
    BY <1>0, <1>1, <1>2, <2>1, <2>4 DEF PipeInv, PipeTypes
  <2>6. OnPipe'
    <3>1. <<"ready">>[Len(<<"ready">>)] = "ready" /\ <<"ready">> # <<>>
      OBVIOUS
    <3>2. answer # "none"
      BY <2>1 DEF PipeInv, OnPipe
    <3>3. CASE childPc' = "unwind" /\ UNCHANGED <<lines, open>>
      BY <2>1, <3>3 DEF PipeInv, OnPipe, LastMeant
    <3>4. CASE Pipe!Write("ready", TRUE)
      BY <2>1, <2>2, <3>1, <3>2, <3>4 DEF OnPipe, LastMeant
    <3> QED
      BY <2>1, <3>3, <3>4
  <2>7. Order'
    BY <1>0, <2>1 DEF PipeInv, Order
  <2> QED
    BY <2>5, <2>6, <2>7
<1>5. CASE Pipe!Commits
  <2>1. /\ childPc = "commit" /\ lines = <<"ready">> /\ ~open /\ journaled
        /\ kind = "changing" /\ UNCHANGED <<code, lines, open, journaled>>
        /\ childPc' \in {"warn", "answer"}
        /\ \/ fileChanged' = TRUE /\ answer' = answer /\ answer = "ok"
           \/ childPc' = "answer" /\ answer' = "refused" /\ fileChanged' = fileChanged /\ ~fileChanged
    BY <1>5 DEF Pipe!Commits, Pipe!Own, PipeInv, OnPipe, Order
  <2>2. PipeTypes'
    BY <1>0, <1>1, <1>2, <2>1 DEF PipeInv, PipeTypes
  <2>3. <<"ready">> # <<>> /\ <<"ready">>[1] = "ready" /\ Len(<<"ready">>) = 1
    OBVIOUS
  <2>4. OnPipe'
    BY <2>1, <2>3 DEF OnPipe, LastMeant, Said
  <2>5. Order'
    BY <1>0, <2>1 DEF Order
  <2> QED
    BY <2>2, <2>4, <2>5
<1>6. CASE Pipe!Warns
  <2>1. /\ childPc = "warn" /\ journaled /\ kind = "changing"
        /\ UNCHANGED <<code, journaled, fileChanged>> /\ answer' \in {"ok", "refused"}
        /\ \/ childPc' = "unwind" /\ UNCHANGED <<lines, open>>
           \/ childPc' = "answer" /\ Pipe!Write("warning", TRUE)
        /\ lines = <<"ready">> /\ ~open
    BY <1>6 DEF Pipe!Warns, Pipe!Tells, Pipe!Own, PipeInv, OnPipe, Order
  <2>2. CASE UNCHANGED <<lines, open>> /\ childPc' = "unwind"
    <3>1. PipeTypes'
      BY <1>0, <1>1, <1>2, <2>1, <2>2 DEF PipeInv, PipeTypes
    <3>2. <<"ready">>[Len(<<"ready">>)] = "ready"
      OBVIOUS
    <3>3. OnPipe'
      BY <2>1, <2>2, <3>2 DEF PipeInv, OnPipe, LastMeant
    <3> QED
      BY <1>0, <2>1, <2>2, <3>1, <3>3 DEF PipeInv, Order
  <2>3. CASE Pipe!Write("warning", TRUE) /\ childPc' = "answer"
    <3>1. "warning" \in Pipe!Lines
      BY DEF Pipe!Lines
    <3>2. /\ lines' \in Seq(Pipe!Lines) /\ lines' # <<>>
          /\ lines'[Len(lines')] \in {"garbage", "warning"}
          /\ Said(lines', TRUE) /\ open' = FALSE
      BY <2>1, <2>3, <3>1, AddingIs DEF Pipe!Write
    <3>3. PipeTypes'
      BY <1>0, <1>1, <1>2, <2>1, <2>3, <3>2 DEF PipeInv, PipeTypes
    <3>4. OnPipe'
      BY <2>1, <2>3, <3>2 DEF OnPipe, LastMeant, Said
    <3> QED
      BY <1>0, <2>1, <2>3, <3>3, <3>4 DEF PipeInv, Order
  <2> QED
    BY <2>1, <2>2, <2>3
<1>7. CASE Pipe!WritesAnswer \/ Pipe!Unwinds
  <2>1. /\ childPc \in {"answer", "unwind"} /\ childPc' \in {"exit", "unwind"}
        /\ UNCHANGED <<code, answer, journaled, fileChanged>>
        /\ \/ UNCHANGED <<lines, open>>
           \/ \E line \in {"error", answer} : Pipe!Write(line, FALSE) /\ line \in Pipe!Lines
    BY <1>7
    DEF Pipe!WritesAnswer, Pipe!Unwinds, Pipe!Tells, Pipe!Lines, PipeInv, PipeTypes,
        OnPipe
  <2>2. /\ lines' \in Seq(Pipe!Lines) /\ open' \in BOOLEAN /\ (open' => lines' # <<>>)
        /\ LastMeant(lines')
        /\ fileChanged => Said(lines', open')
    <3>1. CASE UNCHANGED <<lines, open>>
      BY <3>1 DEF PipeInv, PipeTypes, OnPipe, LastMeant, Said
    <3>2. CASE \E line \in {"error", answer} : Pipe!Write(line, FALSE) /\ line \in Pipe!Lines
      BY <3>2, WriteIs DEF LastMeant
    <3> QED
      BY <2>1, <3>1, <3>2
  <2>3. PipeTypes'
    BY <1>0, <1>1, <1>2, <2>1, <2>2 DEF PipeInv, PipeTypes
  <2>4. OnPipe'
    BY <2>1, <2>2 DEF OnPipe, LastMeant
  <2> QED
    BY <1>0, <2>1, <2>3, <2>4 DEF PipeInv, Order
<1>8. CASE Pipe!Terminated \/ Pipe!Killed
  <2>1. /\ Pipe!Left /\ UNCHANGED <<answer, journaled>>
        /\ childPc' \in {"unwind", "exit", "ended"}
        /\ code' \in {"none", "0", "1", "killed"}
        /\ fileChanged' = fileChanged \/ (childPc = "commit" /\ fileChanged' = TRUE)
    BY <1>8 DEF Pipe!Terminated, Pipe!Killed, Pipe!Ends, PipeInv, PipeTypes
  <2>2. /\ lines' \in Seq(Pipe!Lines) /\ open' \in BOOLEAN /\ (open' => lines' # <<>>)
        /\ LastMeant(lines')
        /\ fileChanged => Said(lines', open')
        /\ childPc = "commit" => UNCHANGED <<lines, open>>
    BY <2>1, LeftIs
  <2>3. childPc = "commit" => lines = <<"ready">> /\ ~open
    BY DEF PipeInv, OnPipe
  <2>4. <<"ready">> # <<>> /\ <<"ready">>[1] = "ready"
    OBVIOUS
  <2>5. fileChanged' => Said(lines', open')
    BY <2>1, <2>2, <2>3, <2>4 DEF Said
  <2>6. PipeTypes'
    BY <1>0, <1>1, <1>2, <2>1, <2>2 DEF PipeInv, PipeTypes
  <2>7. OnPipe'
    BY <2>1, <2>2, <2>5 DEF OnPipe, LastMeant
  <2>8. Order'
    BY <1>0, <2>1 DEF PipeInv, Order
  <2> QED
    BY <2>6, <2>7, <2>8
<1>9. CASE Pipe!Exits \/ Pipe!Signal
  <2>1. /\ childPc' \in {childPc, "ended"} /\ code' \in {code, "0"}
        /\ UNCHANGED <<lines, open, answer, journaled, fileChanged>>
    BY <1>9 DEF Pipe!Exits, Pipe!Signal, Pipe!Ends
  <2>2. PipeTypes'
    BY <1>0, <1>1, <1>2, <2>1 DEF PipeInv, PipeTypes
  <2>3. OnPipe'
    BY <2>1 DEF PipeInv, OnPipe, LastMeant, Said
  <2> QED
    BY <1>0, <2>1, <2>2, <2>3 DEF PipeInv, Order
<1> QED
  BY <1>3, <1>4, <1>5, <1>6, <1>7, <1>8, <1>9
-------------------------------------------------------------------------------
(* What the server takes for the answer is what the child meant.           *)
LEMMA DecodedIs ==
  ASSUME PipeInv, Pipe!Decoded # "none"
  PROVE  /\ Pipe!Decoded = answer
         /\ kind = "provider" => Pipe!Decoded \in {"ok", "transient"}
         /\ kind # "provider" => Pipe!Decoded \in {"ok", "refused"}
<1>1. /\ Pipe!Decoded = lines[Len(lines)] /\ lines # <<>>
      /\ Pipe!Decoded \in (IF kind = "provider" THEN {"ok", "transient"} ELSE {"ok", "refused"})
  BY DEF Pipe!Decoded
<1>2. Pipe!Decoded \in {"ready", "warning", "error", "garbage", answer}
  BY <1>1 DEF PipeInv, OnPipe, LastMeant
<1> QED
  BY <1>1, <1>2

(* What the server reads and decides keeps the invariant.                  *)
LEMMA ServerStep ==
  ASSUME PipeInv, Pipe!ServerDies \/ Pipe!Receives \/ Pipe!StopsWaiting \/ Pipe!Stops \/ Pipe!Cleans \/ Pipe!Settles
  PROVE  PipeInv'
<1>1. /\ UNCHANGED <<kind, childPc, code, lines, open, answer, journaled, fileChanged>>
      /\ request' \in {request, "whole", "cut"}
      /\ output' \in {output, lines}
      /\ record' \in {record, "none", "committed", "uncertain"}
  BY DEF Pipe!ServerDies, Pipe!Receives, Pipe!StopsWaiting, Pipe!Stops, Pipe!Cleans,
         Pipe!Settles, Pipe!childVars, Pipe!Status
<1>2. pipeVerdict' \in {pipeVerdict, "clean", "again", "review", "unverified", "plain"}
  BY DEF Pipe!ServerDies, Pipe!Receives, Pipe!StopsWaiting, Pipe!Stops, Pipe!Cleans,
         Pipe!Settles, Pipe!ProviderVerdict, Pipe!ToolVerdict
<1>3. PipeTypes'
  BY <1>1, <1>2 DEF PipeInv, PipeTypes
<1>4. OnPipe' /\ Order'
  BY <1>1 DEF PipeInv, OnPipe, Order, LastMeant, Said
<1>5. CASE Pipe!ServerDies \/ Pipe!StopsWaiting
  <2>1. /\ server \in {"waits", "stops"} /\ server' \in {"dead", "stops"}
        /\ UNCHANGED <<output, tidy, record, pipeVerdict>>
        /\ result' = result \/ result' = "none" \/ (result' = "transient" /\ kind = "provider")
    BY <1>5 DEF Pipe!ServerDies, Pipe!StopsWaiting
  <2> QED
    BY <1>1, <1>3, <1>4, <2>1
    DEF PipeInv, Known, Pipe!OnlyWholeAnswers, Pipe!ChangesTold
<1>6. CASE Pipe!Receives
  <2>1. /\ server = "waits" /\ server' = "cleans" /\ output' = lines
        /\ result' = Pipe!Decoded /\ childPc = "ended" /\ UNCHANGED <<tidy, record, pipeVerdict>>
    BY <1>6 DEF Pipe!Receives, Pipe!Alive
  <2>2. Known'
    BY <1>1, <2>1, DecodedIs DEF PipeInv, Known
  <2> QED
    BY <1>1, <1>3, <1>4, <2>1, <2>2
    DEF PipeInv, Known, Pipe!OnlyWholeAnswers, Pipe!ChangesTold
<1>7. CASE Pipe!Stops \/ Pipe!Cleans
  <2>1. /\ UNCHANGED <<result, record, pipeVerdict>>
        /\ \/ /\ server = "stops" /\ server' = "cleans"
              /\ childPc = "ended" /\ output' = lines /\ tidy' = tidy
           \/ /\ server = "stops" /\ server' = "cleans"
              /\ output' = output /\ ~tidy'
           \/ /\ server = "cleans" /\ server' = "settles"
              /\ output' = output /\ (tidy' = tidy \/ ~tidy')
    BY <1>7 DEF Pipe!Stops, Pipe!Cleans, Pipe!Alive
  <2>2. /\ server' \in {"cleans", "settles"} /\ pipeVerdict' = "none"
        /\ (childPc = "ended" /\ output' = lines) \/ (~tidy' /\ output' = <<>>)
    BY <2>1 DEF PipeInv, Known
  <2>3. result \in {"ok", "refused"} => childPc = "ended" /\ output' = lines /\ result = answer
    BY <2>1 DEF PipeInv, Known
  <2>4. Known'
    BY <1>1, <2>1, <2>2, <2>3 DEF PipeInv, Known
  <2>5. Pipe!OnlyWholeAnswers' /\ Pipe!ChangesTold'
    BY <1>1, <2>2 DEF PipeInv, Pipe!OnlyWholeAnswers, Pipe!ChangesTold, Order
  <2> QED
    BY <1>3, <1>4, <2>4, <2>5 DEF PipeInv
<1>8. CASE Pipe!Settles
  <2>1. /\ server = "settles" /\ server' = "done" /\ record' \in Pipe!Status
        /\ pipeVerdict' = (IF kind = "provider" THEN Pipe!ProviderVerdict
                       ELSE Pipe!ToolVerdict(record'))
        /\ UNCHANGED <<output, result, tidy>>
    BY <1>8 DEF Pipe!Settles
  <2>2. Known'
    BY <1>1, <2>1 DEF PipeInv, Known
  <2>3. \/ childPc = "ended" /\ output = lines
        \/ ~tidy /\ output = <<>>
    BY <2>1 DEF PipeInv, Known
  <2>4. Pipe!Status = {"none"} \/ (kind = "changing" /\ "none" \notin Pipe!Status /\
                                      ("committed" \in Pipe!Status => fileChanged))
    BY DEF Pipe!Status
  <2>5. /\ result \in {"ok", "refused"} => result = answer
        /\ result \in {"none", "ok", "refused", "transient"}
        /\ result = "transient" => kind = "provider"
        /\ fileChanged => journaled /\ kind = "changing"
    BY DEF PipeInv, Known, Order
  <2>6. Pipe!OnlyWholeAnswers'
    <3> SUFFICES ASSUME pipeVerdict' = "clean"
                 PROVE  /\ result = answer /\ answer \in {"ok", "refused"}
                        /\ kind = "changing" /\ answer = "ok" =>
                             /\ fileChanged /\ journaled /\ record' = "committed"
                             /\ ~Pipe!Has("warning")
      BY <1>1, <2>1 DEF Pipe!OnlyWholeAnswers, Pipe!Has
    <3>1. CASE kind = "provider"
      BY <2>1, <2>5, <3>1 DEF Pipe!ProviderVerdict
    <3>2. CASE kind # "provider" /\ record' = "none"
      BY <2>1, <2>5, <3>2 DEF Pipe!ToolVerdict
    <3>3. CASE kind # "provider" /\ record' # "none"
      <4>1. result = "ok" /\ record' = "committed" /\ ~Pipe!Has("warning")
        BY <2>1, <3>3 DEF Pipe!ToolVerdict
      <4> QED
        BY <2>1, <2>4, <2>5, <3>3, <4>1
    <3> QED
      BY <3>1, <3>2, <3>3
  <2>7. Pipe!ChangesTold'
    <3>1. CASE childPc = "ended" /\ output = lines /\ fileChanged
      <4>1. lines \in Seq(Pipe!Lines) /\ lines # <<>> /\ lines[1] = "ready"
        BY <3>1 DEF PipeInv, PipeTypes, OnPipe, Said
      <4>2. 1 \in 1 .. Len(output) /\ output[1] = "ready"
        BY <3>1, <4>1
      <4>3. Pipe!Has("ready") /\ kind = "changing"
        BY <2>5, <3>1, <4>2 DEF Pipe!Has
      <4>4. record' # "none"
        BY <2>1, <4>3 DEF Pipe!Status
      <4>5. pipeVerdict' = "review" \/ (pipeVerdict' = "clean" /\ result = "ok")
        BY <2>1, <4>3, <4>4 DEF Pipe!ToolVerdict
      <4> QED
        BY <1>1, <2>1, <2>5, <4>5 DEF Pipe!ChangesTold
    <3>2. CASE ~tidy /\ output = <<>>
      BY <1>1, <2>1, <2>5, <3>2 DEF Pipe!ChangesTold
    <3>3. CASE ~fileChanged
      BY <1>1, <3>3 DEF Pipe!ChangesTold
    <3> QED
      BY <2>3, <3>1, <3>2, <3>3
  <2> QED
    BY <1>3, <1>4, <2>2, <2>6, <2>7 DEF PipeInv
<1> QED
  BY <1>5, <1>6, <1>7, <1>8

(* A step of the child or its server keeps the invariant.                  *)
LEMMA PipeStep == ASSUME PipeInv, [Pipe!Next]_Pipe!vars PROVE PipeInv'
<1>1. CASE UNCHANGED Pipe!vars
  <2>1. PipeTypes' /\ OnPipe' /\ Order' /\ Known'
    BY <1>1
    DEF PipeInv, Pipe!vars, Pipe!childVars, Pipe!serverVars, PipeTypes, OnPipe,
        Order, Known, LastMeant, Said
  <2>2. Pipe!OnlyWholeAnswers' /\ Pipe!ChangesTold'
    BY <1>1
    DEF PipeInv, Pipe!vars, Pipe!childVars, Pipe!serverVars, Pipe!OnlyWholeAnswers,
        Pipe!ChangesTold, Pipe!Has
  <2> QED
    BY <2>1, <2>2 DEF PipeInv
<1> QED
  BY <1>1, ChildStep, ServerStep DEF Pipe!Next

(* What the invariant says of a child.                                     *)
LEMMA PipeFollows == PipeInv => Pipe!TypeOK /\ Pipe!OnlyWholeAnswers /\ Pipe!ChangesTold
  BY DEF PipeInv, PipeTypes, Pipe!TypeOK

-------------------------------------------------------------------------------
(* The parts together.                                                     *)

(* A step of the process is a step of one part and leaves the others.      *)
LEMMA StepsApart ==
  ASSUME [PartsNext]_partVars
  PROVE  /\ [Next]_vars /\ [Loop!Next]_Loop!vars
         /\ [Call!Next]_Call!vars /\ [Pipe!Next]_Pipe!vars
<1>1. CASE PartsNext
  <2>1. [Next]_vars
    BY <1>1 DEF PartsNext, InSync, InLoop, InCall, InPipe
  <2>2. [Loop!Next]_Loop!vars
    BY <1>1
    DEF PartsNext, InSync, InLoop, InCall, InPipe, loopVars, Loop!vars, Loop!books,
        Loop!parent, Loop!ghosts
  <2>3. [Call!Next]_Call!vars
    BY <1>1
    DEF PartsNext, InSync, InLoop, InCall, InPipe, callVars, Call!vars, Call!clock,
        Call!thread, Call!helper, Call!ghosts
  <2>4. [Pipe!Next]_Pipe!vars
    BY <1>1
    DEF PartsNext, InSync, InLoop, InCall, InPipe, pipeVars, Pipe!vars,
        Pipe!childVars, Pipe!serverVars
  <2> QED
    BY <2>1, <2>2, <2>3, <2>4
<1>2. CASE UNCHANGED partVars
  BY <1>2
  DEF partVars, vars, loopVars, Loop!vars, Loop!books, Loop!parent, Loop!ghosts,
      callVars, Call!vars, Call!clock, Call!thread, Call!helper, Call!ghosts,
      pipeVars, Pipe!vars, Pipe!childVars, Pipe!serverVars
<1> QED
  BY <1>1, <1>2

(* The invariants of the parts hold in every reachable state of the        *)
(* process.                                                                *)
THEOREM PartsKeepTheirInvariants ==
  PartsSpec => [](SyncInv /\ LoopInv /\ CallInv /\ PipeInv)
<1> DEFINE I == SyncInv /\ LoopInv /\ CallInv /\ PipeInv
<1>1. PartsInit => I
  BY SyncInit, LoopInit, CallInit, PipeInit DEF PartsInit
<1>2. I /\ [PartsNext]_partVars => I'
  BY StepsApart, SyncStep, LoopStep, CallStep, PipeStep
<1> QED
  BY <1>1, <1>2, PTL DEF PartsSpec

(* A cancelled synchronous request is never answered as if nothing had     *)
(* happened, and while its thread runs it keeps others out                 *)
(* (server.py:284-340).                                                    *)
THEOREM CancelStaysSafe == PartsSpec => []CancelIsSafe
<1>1. SyncInv => CancelIsSafe
  BY DEF SyncInv, Holding, DetachedKeepsOut, CancelIsSafe
<1> QED
  BY <1>1, PartsKeepTheirInvariants, PTL

(* What the loop asks the provider is a conversation it accepts, however   *)
(* the parent steers and cancels; every message that was accepted is in a  *)
(* request before a result is returned, no tool runs that the parent has   *)
(* overruled, and after a cancel at most one request or tool begins        *)
(* (agent_loop.py:223-431).                                                *)
THEOREM ConversationStaysRight == PartsSpec => []ConversationRight
<1>1. LoopInv => ConversationRight
  BY LoopFollows DEF ConversationRight
<1> QED
  BY <1>1, PartsKeepTheirInvariants, PTL

(* No run spends more than its budgets, whatever the provider reports and  *)
(* the tools write (resource_budget.py:1).                                 *)
THEOREM BudgetsAlwaysHold == PartsSpec => []BudgetsHold
<1>1. LoopInv => BudgetsHold
  BY LoopFollows DEF BudgetsHold
<1> QED
  BY <1>1, PartsKeepTheirInvariants, PTL

(* No attempt is begun after the end of the run, on whatever clock; none   *)
(* is repeated but after a failure in passing; no child is left; and of a  *)
(* child that is stopped anywhere, within any write, no half answer is     *)
(* believed and no change is passed over (provider_retry.py:60,            *)
(* tool_process.py:161-227, 281-369).                                      *)
THEOREM AttemptsStayRight == PartsSpec => []AttemptsRight
<1>1. CallInv /\ PipeInv => AttemptsRight
  BY CallFollows, PipeFollows DEF AttemptsRight
<1> QED
  BY <1>1, PartsKeepTheirInvariants, PTL

================================================================================
