--------------------------------- MODULE MCEnds --------------------------------
(***************************************************************************)
(* What must end, in three parts of a server process that share no state   *)
(* here, side by side: the tool calls and their subprocesses               *)
(* (MutationCalls), the synchronous requests (SyncDelegation) and one call *)
(* of the provider (ProviderCall).  In a behaviour, part says which of     *)
(* them moves.                                                             *)
(***************************************************************************)
EXTENDS MutationCalls, TLC

CONSTANTS Parts, Requests, MaxCancels, MaxChanges, None,
          RunSeconds, RequestSeconds, Backoff, Retries, Horizon, MaxAsleep, MaxSkew

VARIABLES part,
  task, event, worker, workerOutcome, changed, response, holder, changes, usage,
  cancels,
  now, asleep, skew, pc, attempt, requestEnd, byRun, verdict, wakes, cancelled,
  process, childEnd, watched, callOutcome, began, reasons

Sync == INSTANCE SyncDelegation WITH outcome <- workerOutcome, journal <- changes
Provider == INSTANCE ProviderCall WITH child <- process, outcome <- callOutcome

syncVars == <<task, event, worker, workerOutcome, changed, response, holder,
              changes, usage, cancels>>
providerVars == <<now, asleep, skew, pc, attempt, requestEnd, byRun, verdict,
                  wakes, cancelled, process, childEnd, watched, callOutcome,
                  began, reasons>>
partVars == <<part, vars, syncVars, providerVars>>

PartsInit == part \in Parts /\ Init /\ Sync!Init /\ Provider!Init

InTools(A)    == part = "tools" /\ A /\ UNCHANGED <<part, syncVars, providerVars>>
InSync(A)     == part = "sync" /\ A /\ UNCHANGED <<part, vars, providerVars>>
InProvider(A) == part = "provider" /\ A /\ UNCHANGED <<part, vars, syncVars>>

PartsNext == InTools(Next) \/ InSync(Sync!Next) \/ InProvider(Provider!Next)

(* Deadlines of tools pass, signals arrive, and a server in a call goes on *)
(* with it; a tool may hang, and nobody need acknowledge.                  *)
ToolFairness ==
  /\ \A t \in Tx : WF_partVars(InTools(Watchdog(t) \/ Expire(t) \/ Die(t)))
  /\ \A s \in Servers : WF_partVars(InTools(Calling(s)))

(* The event loop and the threads are scheduled; nothing makes an agent    *)
(* finish, but its checks of the event are reached.                        *)
SyncFairness ==
  \A r \in Requests :
    /\ WF_partVars(InSync(Sync!Resumes(r) \/ Sync!ResumesCancelled(r)))
    /\ WF_partVars(InSync(Sync!WorkerStarts(r)))
    /\ WF_partVars(InSync(Sync!WorkerStops(r)))

(* Time passes, and the thread of a call and its watchdog are scheduled;   *)
(* nothing makes a provider answer.                                        *)
ProviderFairness ==
  /\ WF_partVars(InProvider(Provider!Thread))
  /\ WF_partVars(InProvider(Provider!ChildWatchdog))
  /\ WF_partVars(InProvider(Provider!Tick))

PartsSpec == /\ PartsInit /\ [][PartsNext]_partVars
             /\ ToolFairness /\ SyncFairness /\ ProviderFairness

-------------------------------------------------------------------------------
(* Every child of a tool call ends and gives the lease back, whatever it   *)
(* hangs in and whether or not its server is alive, and every call returns *)
(* to the agent or ends the delegation (tool_child.py, tool_process.py).   *)
ToolCallsEnd == LeaseReturns /\ CallsEnd

(* A cancelled request and its thread end, and a call of the provider and  *)
(* each of its children end, whatever the provider does (server.py:287,    *)
(* hard_deadline.py:1).                                                    *)
DelegationsEnd ==
  /\ Sync!CancelFrees
  /\ (part = "provider" => Provider!CallEnds) /\ Provider!ChildrenEnd
================================================================================
