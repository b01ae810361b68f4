------------------------------ MODULE MCDelegation ------------------------------
(***************************************************************************)
(* Four parts of a server process that share no state, side by side: the   *)
(* synchronous requests (SyncDelegation), the loop of an agent             *)
(* (AgentLoop), one call of the provider (ProviderCall), and one child     *)
(* with what it writes to the server (ChildPipe).  In a behaviour, part    *)
(* says which of them moves: the states add up and do not multiply.        *)
(***************************************************************************)
EXTENDS SyncDelegation, TLC

CONSTANTS Parts,
          Messages, MaxTurns, MaxPlan, MaxTools, MaxTokens, Output, MaxHistory,
          MaxBytes, Reports, Chunks,
          RunSeconds, RequestSeconds, Backoff, Retries, Horizon, MaxAsleep, MaxSkew,
          MaxSignals

ASSUME LoopAssumption ==
  /\ MaxTurns \in Nat /\ MaxPlan \in Nat /\ MaxTools \in Nat
  /\ MaxTokens \in Nat /\ Output \in Nat /\ MaxHistory \in Nat /\ MaxBytes \in Nat
  /\ Reports \subseteq Nat /\ Chunks \subseteq Nat

ASSUME CallAssumption ==
  /\ RunSeconds \in Nat /\ RequestSeconds \in Nat /\ Backoff \in Nat
  /\ Retries \in Nat /\ Horizon \in Nat /\ MaxAsleep \in Nat /\ MaxSkew \in Nat

VARIABLES part,
  loopPc, turn, history, planned, next, metered, toolCalls, charged, records,
  loopOutcome, inbox, sealed, loopCancelled, expired, sent, seen, written, late,
  now, asleep, skew, callPc, attempt, requestEnd, byRun, verdict, wakes,
  callCancelled, child, childEnd, watched, callOutcome, began, reasons,
  kind, childPc, code, request, lines, open, answer, signals, pending, journaled,
  fileChanged, server, output, result, tidy, record, pipeVerdict

Loop == INSTANCE AgentLoop
          WITH pc <- loopPc, outcome <- loopOutcome, cancelled <- loopCancelled
Call == INSTANCE ProviderCall
          WITH pc <- callPc, outcome <- callOutcome, cancelled <- callCancelled
Pipe == INSTANCE ChildPipe
          WITH pc <- childPc, changed <- fileChanged, verdict <- pipeVerdict

loopVars == <<loopPc, turn, history, planned, next, metered, toolCalls, charged,
              records, loopOutcome, inbox, sealed, loopCancelled, expired, sent,
              seen, written, late>>
callVars == <<now, asleep, skew, callPc, attempt, requestEnd, byRun, verdict, wakes,
              callCancelled, child, childEnd, watched, callOutcome, began, reasons>>
pipeVars == <<kind, childPc, code, request, lines, open, answer, signals, pending,
              journaled, fileChanged, server, output, result, tidy, record, pipeVerdict>>
partVars == <<part, vars, loopVars, callVars, pipeVars>>

PartsInit == part \in Parts /\ Init /\ Loop!Init /\ Call!Init /\ Pipe!Init
             /\ (part # "pipe" => kind = "provider")

InSync(A) == part = "sync" /\ A /\ UNCHANGED <<part, loopVars, callVars, pipeVars>>
InLoop(A) == part = "loop" /\ A /\ UNCHANGED <<part, vars, callVars, pipeVars>>
InCall(A) == part = "call" /\ A /\ UNCHANGED <<part, vars, loopVars, pipeVars>>
InPipe(A) == part = "pipe" /\ A /\ UNCHANGED <<part, vars, loopVars, callVars>>

PartsNext ==
  InSync(Next) \/ InLoop(Loop!Next) \/ InCall(Call!Next) \/ InPipe(Pipe!Next)

PartsSpec == PartsInit /\ [][PartsNext]_partVars

Symmetry == Permutations(Requests) \cup Permutations(Messages)

-------------------------------------------------------------------------------
(* A cancelled synchronous request is never answered as if nothing had     *)
(* happened when its thread has changed files, it returns no result, and   *)
(* while its thread runs it keeps others out (server.py:284-340).          *)
CancelIsSafe == TypeOK /\ ChangesTold /\ NoResultAfterCancel /\ DetachedKeepsOut

(* What the loop asks the provider is a conversation it accepts, has every *)
(* message of the parent before a result, and leads to no tool that the    *)
(* parent has overruled or cancelled (agent_loop.py:223-431).              *)
ConversationRight ==
  /\ Loop!TypeOK /\ Loop!HistoryWellFormed /\ Loop!SteeringReachesModel
  /\ Loop!NoStaleTool /\ Loop!CancelStops

(* The budgets of a run hold together (resource_budget.py:1).              *)
BudgetsHold == Loop!BudgetsHold

(* The attempts of a call stay within the time of the run, follow only     *)
(* failures that say so, and leave no child behind (provider_retry.py:60); *)
(* of a child that is stopped anywhere, no half answer is believed and no  *)
(* change is passed over (tool_process.py:161-227, 281-369).               *)
AttemptsRight ==
  /\ Call!TypeOK /\ Call!NothingPastDeadline /\ Call!NoChildLeft
  /\ Call!RepeatsTransientOnly
  /\ Pipe!TypeOK /\ Pipe!OnlyWholeAnswers /\ Pipe!ChangesTold
================================================================================
