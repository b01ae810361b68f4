-------------------------------- MODULE AgentLoop -------------------------------
(***************************************************************************)
(* One run of the agent loop (gpt_mcp/agent_loop.py) with its budgets      *)
(* (gpt_mcp/resource_budget.py): what goes into the conversation, when it  *)
(* is steered, when it is stopped, and what it may spend.                  *)
(*                                                                         *)
(* An entry of the history costs one unit, whether it is counted in bytes  *)
(* or in tokens, as the code counts a byte for a token.  What the model    *)
(* answers and what a tool does is open.                                   *)
(***************************************************************************)
EXTENDS Integers, Sequences, FiniteSets

CONSTANTS Messages,      \* what the parent may send, each at most once
          MaxTurns,      \* config.max_turns
          MaxPlan,       \* MAX_TOOL_CALLS_PER_TURN
          MaxTools,      \* MAX_TOOL_CALLS_PER_RUN
          MaxTokens,     \* MAX_TOTAL_TOKENS_PER_RUN
          Output,        \* MAX_OUTPUT_TOKENS_PER_REQUEST
          MaxHistory,    \* MAX_PROVIDER_HISTORY_BYTES
          MaxBytes,      \* MAX_MUTATION_BYTES_PER_RUN
          Reports,       \* the usage a provider may report
          Chunks         \* the bytes a tool may write

VARIABLES
  pc,         \* where the loop stands
  turn, history,
  planned,    \* tool calls of the last answer
  next,       \* the one to be run next
  metered,    \* state.budget_tokens, with what was reported
  toolCalls,  \* state.tool_calls
  charged,    \* mutation_budget.used
  records,    \* mutation records of the run
  outcome,
  inbox, sealed, cancelled, expired,   \* what the parent and the clock do
  sent,       \* messages that were accepted (not in the code)
  seen,       \* messages in the last request (not in the code)
  written,    \* bytes put into the workspace (not in the code)
  late        \* requests and tools begun after the cancel (not in the code)

books  == <<metered, toolCalls, charged, records>>
parent == <<inbox, sealed, cancelled, expired, sent>>
ghosts == <<seen, written, late>>
vars   == <<pc, turn, history, planned, next, books, outcome, parent, ghosts>>

-------------------------------------------------------------------------------
(* The conversation.                                                       *)

Assistant(n) == [kind |-> "assistant", calls |-> n, messages |-> {}]
Answer(i)    == [kind |-> "tool", calls |-> i, messages |-> {}]
Steering(ms) == [kind |-> "user", calls |-> 0, messages |-> ms]

(* The system prompt and the task are one entry more.                      *)
Size(h) == 1 + Len(h)
TooLong(h) == Size(h) > MaxHistory

In(h) == UNION {h[i].messages : i \in DOMAIN h}

Steered(h, ms) == IF ms = {} THEN h ELSE Append(h, Steering(ms))

(* Fault: the calls that are skipped get no answer.                        *)
Skipped_Silently(from) == <<>>
Skipped(from) == [i \in 1 .. (planned - from + 1) |-> Answer(from + i - 1)]

-------------------------------------------------------------------------------
Init ==
  /\ pc = "turn" /\ turn = 0 /\ history = <<>>
  /\ planned = 0 /\ next = 1
  /\ metered = 0 /\ toolCalls = 0 /\ charged = 0 /\ records = 0
  /\ outcome = "none"
  /\ inbox = {} /\ sealed = FALSE /\ cancelled = FALSE /\ expired = FALSE
  /\ sent = {} /\ seen = {} /\ written = 0 /\ late = 0

(* The parent and the clock.                                               *)
Send(m) ==
  /\ ~sealed /\ m \notin sent
  /\ inbox' = inbox \cup {m} /\ sent' = sent \cup {m}
  /\ UNCHANGED <<pc, turn, history, planned, next, books, outcome, sealed,
                 cancelled, expired, ghosts>>

Cancel ==
  /\ ~cancelled /\ cancelled' = TRUE
  /\ UNCHANGED <<pc, turn, history, planned, next, books, outcome, inbox, sealed,
                 expired, sent, ghosts>>

CancelCloses ==
  /\ cancelled /\ ~sealed
  /\ sealed' = TRUE /\ inbox' = {}
  /\ UNCHANGED <<pc, turn, history, planned, next, books, outcome, cancelled,
                 expired, sent, ghosts>>

TimeIsUp ==
  /\ ~expired /\ expired' = TRUE
  /\ UNCHANGED <<pc, turn, history, planned, next, books, outcome, inbox, sealed,
                 cancelled, sent, ghosts>>

-------------------------------------------------------------------------------
(* The loop.                                                               *)

(* Fault: the cancel event is left to the caller.                          *)
Stopped_Never == FALSE
Stopped == cancelled

(* An error or a cancel ends the run; what it changed is told with it.     *)
WithMutations(how) ==
  IF how = "error" THEN "error_mutated" ELSE "cancelled_mutated"
EndsAs(how, n) ==
  /\ pc' = "done"
  /\ outcome' = IF n = 0 THEN how ELSE WithMutations(how)

Fails(how) == EndsAs(how, records)

Late == late' = late + (IF cancelled THEN 1 ELSE 0)

(* Fault: the turns are counted from the wrong end.                        *)
OutOfTurns_OneMore == turn > MaxTurns
OutOfTurns == turn = MaxTurns

(* range(max_turns), and _run_turn before it polls.                        *)
TurnBegins ==
  /\ pc = "turn"
  /\ \/ /\ OutOfTurns \/ expired \/ metered >= MaxTokens
        /\ Fails("error")
     \/ /\ ~(OutOfTurns \/ expired \/ metered >= MaxTokens)
        /\ IF Stopped THEN Fails("cancelled")
           ELSE pc' = "poll" /\ UNCHANGED outcome
  /\ UNCHANGED <<turn, history, planned, next, books, parent, ghosts>>

(* _ensure_request_budget                                                  *)
Unaffordable(h) == Size(h) + Output > MaxTokens - metered

(* The poll of a turn; then the request goes out, if it can be paid for.   *)
TurnPolls ==
  /\ pc = "poll"
  /\ history' = Steered(history, inbox) /\ inbox' = {}
  /\ \/ /\ TooLong(history') \/ Unaffordable(history')
        /\ Fails("error") /\ UNCHANGED <<seen, late>>
     \/ /\ ~(TooLong(history') \/ Unaffordable(history'))
        /\ pc' = "request" /\ seen' = In(history') /\ Late
        /\ UNCHANGED outcome
  /\ UNCHANGED <<turn, planned, next, books, sealed, cancelled, expired, sent,
                 written>>

(* A provider that reports too little is charged for the bytes.            *)
Cost(reported) == LET bytes == Size(history) + 1 IN
  IF reported > bytes THEN reported ELSE bytes

ProviderFails ==
  /\ pc = "request"
  /\ \/ Fails("error")
     \/ cancelled /\ Fails("cancelled")
  /\ UNCHANGED <<turn, history, planned, next, books, parent, ghosts>>

(* _record_response: an answer that costs too much, or makes the history   *)
(* too long, ends the run, and so does a cancel during the request.        *)
ProviderAnswers ==
  /\ pc = "request"
  /\ \E n \in 0 .. MaxPlan + 1, reported \in Reports :
       /\ metered' = metered + Cost(reported)
       /\ planned' = n /\ next' = 1
       /\ \/ /\ metered' > MaxTokens
             /\ Fails("error") /\ UNCHANGED history
          \/ /\ metered' <= MaxTokens
             /\ history' = Append(history, Assistant(n))
             /\ IF TooLong(history') THEN Fails("error")
                ELSE IF Stopped THEN Fails("cancelled")
                ELSE /\ pc' = (IF n = 0 THEN "finalize" ELSE "plan")
                     /\ UNCHANGED outcome
  /\ UNCHANGED <<turn, toolCalls, charged, records, parent, ghosts>>

(* A steering update ends the turn.                                        *)
SteersWith(h) ==
  /\ history' = Steered(h, inbox) /\ inbox' = {}
  /\ IF TooLong(history')
     THEN Fails("error") /\ UNCHANGED turn
     ELSE pc' = "turn" /\ turn' = turn + 1 /\ UNCHANGED outcome

(* Fault: an empty mailbox is not closed.                                  *)
Finalize_Open ==
  /\ pc = "finalize"
  /\ \/ inbox # {} /\ SteersWith(history) /\ UNCHANGED sealed
     \/ /\ inbox = {}
        /\ pc' = "done" /\ outcome' = "result"
        /\ UNCHANGED <<history, inbox, turn, sealed>>
  /\ UNCHANGED <<planned, next, books, cancelled, expired, sent, ghosts>>

(* _finalize_or_steer: the mailbox is drained, or found empty and closed.  *)
Finalize ==
  /\ pc = "finalize"
  /\ \/ inbox # {} /\ SteersWith(history) /\ UNCHANGED sealed
     \/ /\ inbox = {} /\ sealed' = TRUE
        /\ pc' = "done" /\ outcome' = "result"
        /\ UNCHANGED <<history, inbox, turn>>
  /\ UNCHANGED <<planned, next, books, cancelled, expired, sent, ghosts>>

(* Fault: each batch is within the limit.                                  *)
TooMany_ThisTurn == planned > MaxPlan
(* _validate_tool_batch                                                    *)
TooMany == planned > MaxPlan \/ toolCalls + planned > MaxTools

(* _execute_planned_tools up to its loop.                                  *)
Plan ==
  /\ pc = "plan"
  /\ \/ /\ Stopped /\ Fails("cancelled") /\ UNCHANGED <<history, inbox, turn>>
     \/ /\ ~Stopped /\ TooMany
        /\ Fails("error") /\ UNCHANGED <<history, inbox, turn>>
     \/ /\ ~Stopped /\ ~TooMany /\ inbox # {}
        /\ SteersWith(history \o Skipped(1))
     \/ /\ ~Stopped /\ ~TooMany /\ inbox = {}
        /\ pc' = "tool" /\ UNCHANGED <<history, inbox, turn, outcome>>
  /\ UNCHANGED <<planned, next, books, sealed, cancelled, expired, sent, ghosts>>

(* Fault: the update is for the next turn, the plan goes on.               *)
NextTool_KeepsPlan ==
  /\ pc = "tool"
  /\ \/ /\ next > planned
        /\ pc' = "turn" /\ turn' = turn + 1
        /\ UNCHANGED <<history, inbox, outcome>>
     \/ /\ next <= planned
        /\ pc' = "begin" /\ history' = Steered(history, inbox) /\ inbox' = {}
        /\ UNCHANGED <<turn, outcome>>
  /\ UNCHANGED <<planned, next, books, sealed, cancelled, expired, sent, ghosts>>

(* The head of that loop: the calls that are left are skipped when the     *)
(* parent sent something.                                                  *)
NextTool ==
  /\ pc = "tool"
  /\ \/ /\ next > planned
        /\ pc' = "turn" /\ turn' = turn + 1
        /\ UNCHANGED <<history, inbox, outcome>>
     \/ /\ next <= planned /\ Stopped
        /\ Fails("cancelled") /\ UNCHANGED <<history, inbox, turn>>
     \/ /\ next <= planned /\ ~Stopped /\ inbox # {}
        /\ SteersWith(history \o Skipped(next))
     \/ /\ next <= planned /\ ~Stopped /\ inbox = {}
        /\ pc' = "begin" /\ UNCHANGED <<history, inbox, turn, outcome>>
  /\ UNCHANGED <<planned, next, books, sealed, cancelled, expired, sent, ghosts>>

(* _execute_and_record_tool until the tool runs.                           *)
ToolBegins ==
  /\ pc = "begin"
  /\ \/ expired /\ Fails("error") /\ UNCHANGED <<toolCalls, late>>
     \/ /\ ~expired
        /\ toolCalls' = toolCalls + 1 /\ Late
        /\ pc' = "running" /\ UNCHANGED outcome
  /\ UNCHANGED <<turn, history, planned, next, metered, charged, records, parent,
                 seen, written>>

(* MutationBudget.reserve, in the tool's process.                          *)
Reserved(bytes) == bytes <= MaxBytes - charged

(* The tool answers, with its text or with an error for the model to read; *)
(* a reservation is charged whether it was used or not, and a change is    *)
(* recorded.                                                               *)
ToolAnswers ==
  /\ pc = "running"
  /\ \E bytes \in {b \in Chunks : Reserved(b)} : \E wrote \in {0, bytes} :
       /\ charged' = charged + bytes
       /\ written' = written + wrote
       /\ records' = records + (IF wrote > 0 THEN 1 ELSE 0)
       /\ history' = Append(history, Answer(next)) /\ next' = next + 1
       /\ IF TooLong(history') THEN EndsAs("error", records')
          ELSE IF Stopped THEN EndsAs("cancelled", records')
          ELSE pc' = "tool" /\ UNCHANGED outcome
  /\ UNCHANGED <<turn, planned, metered, toolCalls, parent, seen, late>>

(* The tool's process refuses, is stopped, or ends without an answer: the  *)
(* run ends, and what it may have written is not charged any more.         *)
ToolFails ==
  /\ pc = "running"
  /\ \E bytes \in {b \in Chunks : Reserved(b)} :
       /\ written' = written + bytes
       /\ records' \in records .. records + (IF bytes > 0 THEN 1 ELSE 0)
       /\ \/ EndsAs("error", records')
          \/ cancelled /\ EndsAs("cancelled", records')
  /\ UNCHANGED <<turn, history, planned, next, metered, toolCalls, charged,
                 parent, seen, late>>

-------------------------------------------------------------------------------
Loop == \/ TurnBegins \/ TurnPolls \/ ProviderFails \/ ProviderAnswers
        \/ Finalize \/ Plan \/ NextTool \/ ToolBegins \/ ToolAnswers \/ ToolFails

Next == \/ Loop \/ (\E m \in Messages : Send(m))
        \/ Cancel \/ CancelCloses \/ TimeIsUp

Spec == Init /\ [][Next]_vars

-------------------------------------------------------------------------------
(* Properties.                                                             *)

Entries == [kind : {"assistant", "tool", "user"}, calls : 0 .. MaxPlan + 1,
            messages : SUBSET Messages]

TypeOK ==
  /\ pc \in {"turn", "poll", "request", "finalize", "plan", "tool", "begin",
             "running", "done"}
  /\ turn \in 0 .. MaxTurns
  /\ history \in Seq(Entries)
  /\ planned \in 0 .. MaxPlan + 1 /\ next \in 1 .. MaxPlan + 2
  /\ {metered, toolCalls, charged, records, written, late} \subseteq Nat
  /\ outcome \in {"none", "result", "error", "cancelled",
                   "error_mutated", "cancelled_mutated"}
  /\ inbox \subseteq Messages /\ sent \subseteq Messages /\ seen \subseteq Messages
  /\ {sealed, cancelled, expired} \subseteq BOOLEAN

(* Every request is a conversation a provider accepts: each tool call of   *)
(* an answer is answered once, in order and before anything else is said,  *)
(* whether the tool ran or was skipped (agent_loop.py:279-288).            *)
HistoryWellFormed == pc = "request" =>
  \A i \in DOMAIN history : LET e == history[i] IN
    /\ e.kind = "assistant" =>
         /\ i + e.calls <= Len(history)
         /\ \A k \in 1 .. e.calls : history[i + k] = Answer(k)
    /\ e.kind = "tool" =>
         \E j \in 1 .. i - 1 :
           history[j].kind = "assistant" /\ i - j = e.calls /\ e.calls <= history[j].calls

(* A run that returns its result has closed its mailbox, and everything    *)
(* that was accepted into it was in a request the model has answered, if   *)
(* the parent did not cancel (agent_loop.py:238-247).                      *)
SteeringReachesModel ==
  outcome = "result" /\ ~cancelled => sealed /\ sent \subseteq seen

(* No tool of a plan runs that was made before the parent's newer          *)
(* instructions were received (agent_loop.py:420-431).                     *)
NoStaleTool == pc \in {"begin", "running"} => In(history) \subseteq seen

(* The budgets hold together: a run that goes on has paid for all of its   *)
(* answers, with as much as the next may take; tools are counted over the  *)
(* turns; and no more is written than the run may write, also by a tool    *)
(* whose answer was lost (resource_budget.py:1, agent_loop.py:223).        *)
BudgetsHold ==
  /\ pc # "done" => metered <= MaxTokens
  /\ pc = "request" => metered + Size(history) + Output <= MaxTokens
  /\ toolCalls <= MaxTools
  /\ written <= MaxBytes
  /\ pc # "done" => written <= charged

(* After a cancel at most the one request or tool begins that the loop had *)
(* already decided on (provider_retry.py:120-122).                         *)
CancelStops == late <= 1
================================================================================
