------------------------------- MODULE ChildPipe -------------------------------
(***************************************************************************)
(* What passes between a server and one of its children: a child that asks *)
(* the provider (provider_child.py, provider_process.py), a child that     *)
(* runs one tool call which changes nothing, and one whose call changes a  *)
(* file (tool_child.py, tool_process.py).                                  *)
(*                                                                         *)
(* The child reads its request to the end, works, and writes lines to a    *)
(* pipe that the server reads when the child has ended.  It is terminated  *)
(* or killed between any two steps and within any write: a line is then    *)
(* missing, cut, or followed on the same line by what is written next.     *)
(* The server believes what it reads when the child is gone, and says of   *)
(* each change of a file that it may have been made.                       *)
(***************************************************************************)
EXTENDS Integers, Sequences

CONSTANT MaxSignals  \* SIGTERMs that a child is sent, by its server and its watchdog

VARIABLES
  kind,      \* "provider", "reading" or "changing"
  pc,        \* where the child stands
  code,      \* how it exited
  request,   \* what the server sends is "whole", or "cut" if it dies early
  lines,     \* the lines on the pipe
  open,      \* the last of them has no end yet
  answer,    \* what the child came to
  signals,   \* SIGTERMs sent
  pending,   \* one is on its way
  journaled, \* the intent of the change is in the journal
  changed,   \* the file is changed
  server,    \* where the server stands
  output,    \* the lines that it has read
  result,    \* what it takes for the answer, or "none" if the call failed
  tidy,      \* the child and what it left are cleaned up
  record,    \* the status of the mutation record, or "none"
  verdict    \* what the call came to for the server

childVars  == <<kind, pc, code, lines, open, answer, pending, journaled, changed>>
serverVars == <<server, output, result, tidy, record, verdict>>
vars == <<childVars, request, signals, serverVars>>

Alive == pc # "ended"

Init ==
  /\ kind \in {"provider", "reading", "changing"}
  /\ pc = "born" /\ code = "none" /\ request = "whole"
  /\ lines = <<>> /\ open = FALSE /\ answer = "none"
  /\ signals = 0 /\ pending = FALSE
  /\ journaled = FALSE /\ changed = FALSE
  /\ server = "waits" /\ output = <<>> /\ result = "none" /\ tidy = TRUE
  /\ record = "none" /\ verdict = "none"

-------------------------------------------------------------------------------
(* The pipe.                                                               *)

(* What is written after an open line is read as part of that line.        *)
Adding(line) == IF open THEN [lines EXCEPT ![Len(lines)] = "garbage"]
                ELSE Append(lines, line)

(* _write_bytes: all of a line, in as many writes as it takes.             *)
Write(line, ends) == lines' = Adding(line) /\ open' = ~ends

(* The same, interrupted: nothing of it is written, a part, or all.        *)
Interrupted(line, ends) ==
  \/ UNCHANGED <<lines, open>>
  \/ lines' = Adding("garbage") /\ open' = TRUE
  \/ Write(line, ends)

(* What is being written: mutation_ready and mutation_warning end with a   *)
(* newline, the payload does not.                                          *)
Writing == CASE pc = "ready" -> "ready" [] pc = "warn" -> "warning"
             [] pc = "answer" -> answer [] pc = "unwind" -> "error"
             [] OTHER -> "nothing"

Left == IF Writing = "nothing" THEN UNCHANGED <<lines, open>>
        ELSE Interrupted(Writing, pc \in {"ready", "warn"})

Ends(how) == pc' = "ended" /\ code' = how /\ pending' = FALSE

-------------------------------------------------------------------------------
(* The child.                                                              *)

Own == <<kind, request, signals, serverVars>>

(* main: arguments that make no sense or a limit that cannot be set end it *)
(* in silence; the child of the provider answers that it failed.           *)
Starts ==
  /\ pc = "born"
  /\ \/ pc' = "read" /\ UNCHANGED <<code, answer, pending>>
     \/ Ends("0") /\ UNCHANGED answer
     \/ /\ kind = "provider"
        /\ pc' = "answer" /\ answer' = "permanent" /\ UNCHANGED <<code, pending>>
  /\ UNCHANGED <<Own, lines, open, journaled, changed>>

(* _read_payload reads to the end, and refuses what is cut or too large.   *)
Reads ==
  /\ pc = "read"
  /\ pc' = IF request = "whole" THEN "work" ELSE "unwind"
  /\ UNCHANGED <<Own, code, lines, open, answer, pending, journaled, changed>>

Answers(line) == pc' = "answer" /\ answer' = line /\ UNCHANGED <<code, pending>>

(* execute_request: an answer, or an error that may be repeated or not.    *)
Asks ==
  /\ pc = "work" /\ kind = "provider"
  /\ \E line \in {"ok", "transient", "permanent"} : Answers(line)
  /\ UNCHANGED <<Own, lines, open, journaled, changed>>

(* _execute: the tool's result, which may say that it refuses; the bytes   *)
(* of the run are used up; or an exception.                                *)
Executes ==
  /\ pc = "work" /\ kind # "provider"
  /\ \/ \E line \in {"refused", "budget"} : Answers(line)
     \/ kind = "reading" /\ Answers("ok")
     \/ pc' = "unwind" /\ UNCHANGED <<answer, code, pending>>
  /\ UNCHANGED <<Own, lines, open, journaled, changed>>

(* Once the server is dead, nothing can be written to the pipe.            *)
Tells(line, ends, then) ==
  IF server = "dead" THEN pc' = "unwind" /\ UNCHANGED <<lines, open>>
  ELSE Write(line, ends) /\ pc' = then

(* _persist_mutation_ready: the intent is journaled before it is told, and *)
(* told before anything is changed.                                        *)
RecordsIntent ==
  /\ pc = "work" /\ kind = "changing"
  /\ journaled' = TRUE /\ pc' = "ready"
  /\ answer' \in {"ok", "refused"}
  /\ UNCHANGED <<Own, code, lines, open, pending, changed>>

AfterReady == IF answer = "ok" THEN "commit" ELSE "answer"

(* Fault: the line is not ended.                                           *)
TellsReady_SameLine ==
  /\ pc = "ready" /\ Tells("ready", FALSE, AfterReady)
  /\ UNCHANGED <<Own, code, answer, pending, journaled, changed>>

TellsReady ==
  /\ pc = "ready" /\ Tells("ready", TRUE, AfterReady)
  /\ UNCHANGED <<Own, code, answer, pending, journaled, changed>>

(* _finish_posix_commit: the file is replaced, or was changed by another;  *)
(* what was doubtful about it is journaled and told, SIGTERM still blocked.*)
Commits ==
  /\ pc = "commit"
  /\ \/ changed' = TRUE /\ pc' \in {"warn", "answer"} /\ UNCHANGED answer
     \/ pc' = "answer" /\ answer' = "refused" /\ UNCHANGED changed
  /\ UNCHANGED <<Own, code, lines, open, pending, journaled>>

(* _persist_mutation_warning: the tool reports an error if the warning     *)
(* cannot be journaled, but the file stays changed.                        *)
Warns ==
  /\ pc = "warn" /\ Tells("warning", TRUE, "answer")
  /\ answer' \in {"ok", "refused"}
  /\ UNCHANGED <<Own, code, pending, journaled, changed>>

WritesAnswer ==
  /\ pc = "answer" /\ Tells(answer, FALSE, "exit")
  /\ UNCHANGED <<Own, code, answer, pending, journaled, changed>>

(* The handler of main writes that the call failed, if it can.             *)
Unwinds ==
  /\ pc = "unwind" /\ pc' = "exit"
  /\ IF server = "dead" THEN UNCHANGED <<lines, open>> ELSE Write("error", FALSE)
  /\ UNCHANGED <<Own, code, answer, pending, journaled, changed>>

Exits ==
  /\ pc = "exit" /\ Ends("0")
  /\ UNCHANGED <<Own, lines, open, answer, journaled, changed>>

-------------------------------------------------------------------------------
(* Signals.                                                                *)

(* _terminate_tool raises wherever the tool is, but not within the commit; *)
(* nothing catches it in the handler of the budget and after the answer.   *)
(* The provider's child has no handler.                                    *)
Terminated ==
  /\ Alive /\ pending /\ Left /\ pc \notin {"commit", "warn"}
  /\ \/ (kind = "provider" \/ pc = "born") /\ Ends("killed")
     \/ /\ kind # "provider"
        /\ pc \in {"read", "work", "ready"} \/ (pc = "answer" /\ answer # "budget")
        /\ pc' = "unwind" /\ pending' = FALSE /\ UNCHANGED code
     \/ /\ kind # "provider" /\ pc = "unwind"
        /\ pc' = "exit" /\ pending' = FALSE /\ UNCHANGED code
     \/ /\ kind # "provider"
        /\ pc \in {"unwind", "exit"} \/ (pc = "answer" /\ answer = "budget")
        /\ Ends("1")
  /\ UNCHANGED <<Own, answer, journaled, changed>>

(* SIGKILL, by the server or the system, or os._exit of the watchdog; the  *)
(* call that replaces the file may still be carried out.                   *)
Killed ==
  /\ Alive /\ Left /\ Ends("killed")
  /\ changed' \in (IF pc = "commit" THEN {changed, TRUE} ELSE {changed})
  /\ UNCHANGED <<Own, answer, journaled>>

(* SIGTERM, by the server or by the child's own watchdog, which sees the   *)
(* deadline and the death of the server.                                   *)
Signal ==
  /\ Alive /\ signals < MaxSignals
  /\ signals' = signals + 1 /\ pending' = TRUE
  /\ UNCHANGED <<kind, pc, code, request, lines, open, answer, journaled, changed,
                 serverVars>>

-------------------------------------------------------------------------------
(* The server.                                                             *)

(* The server is killed, perhaps before its request was written.           *)
ServerDies ==
  /\ server \in {"waits", "stops"} /\ server' = "dead"
  /\ request' \in (IF pc \in {"born", "read"} THEN {"whole", "cut"} ELSE {request})
  /\ UNCHANGED <<childVars, signals, output, result, tidy, record, verdict>>

(* _decode takes the last line of a tool, and _decode_response all that    *)
(* the provider's child has written as one answer.                         *)
Decoded ==
  IF code # "0" \/ lines = <<>> THEN "none"
  ELSE LET last == lines[Len(lines)] IN
       IF last \in (IF kind = "provider" THEN {"ok", "transient"} ELSE {"ok", "refused"})
       THEN last ELSE "none"

(* communicate returns once the child has closed its pipe.                 *)
Receives ==
  /\ server = "waits" /\ ~Alive
  /\ server' = "cleans" /\ output' = lines /\ result' = Decoded
  /\ UNCHANGED <<childVars, request, signals, tidy, record, verdict>>

(* _wait_for_tool, _wait_for_provider: the call is cancelled, or out of    *)
(* time; an attempt that used up its own time may be repeated.             *)
StopsWaiting ==
  /\ server = "waits"
  /\ server' = "stops"
  /\ result' \in (IF kind = "provider" THEN {"none", "transient"} ELSE {"none"})
  /\ UNCHANGED <<childVars, request, signals, output, tidy, record, verdict>>

(* _stop_process: SIGTERM, then SIGKILL; what the child has written is     *)
(* read once it is gone.  If it will not go, its output is lost.           *)
Stops ==
  /\ server = "stops"
  /\ server' = "cleans"
  /\ \/ ~Alive /\ output' = lines /\ UNCHANGED tidy
     \/ tidy' = FALSE /\ UNCHANGED output
  /\ UNCHANGED <<childVars, request, signals, result, record, verdict>>

(* _cleanup_tool_artifacts may fail, which leaves a result as it is.       *)
Cleans ==
  /\ server = "cleans" /\ server' = "settles"
  /\ tidy' \in {tidy, FALSE}
  /\ UNCHANGED <<childVars, request, signals, output, result, record, verdict>>

Has(line) == \E i \in 1..Len(output) : output[i] = line

(* _interrupted_mutation_state: the tool said what it would write, and the *)
(* file is read again; another process may have written it since.          *)
Status ==
  IF kind # "changing" \/ ~Has("ready") THEN {"none"}
  ELSE IF changed THEN {"committed", "uncertain"} ELSE {"uncertain"}

(* _complete_tool_call, _finish_interrupted_call                           *)
ToolVerdict(status) ==
  IF status # "none"
  THEN IF result = "ok" /\ tidy /\ status = "committed" /\ ~Has("warning")
       THEN "clean" ELSE "review"
  ELSE IF result = "none" \/ (~tidy /\ ~(kind = "changing" /\ result = "ok"))
       THEN "plain"
  ELSE IF kind = "changing" /\ result = "ok" THEN "unverified" ELSE "clean"

ProviderVerdict ==
  IF ~tidy THEN "plain"
  ELSE CASE result = "ok" -> "clean" [] result = "transient" -> "again"
         [] OTHER -> "plain"

Settles ==
  /\ server = "settles" /\ server' = "done"
  /\ record' \in Status
  /\ verdict' = IF kind = "provider" THEN ProviderVerdict ELSE ToolVerdict(record')
  /\ UNCHANGED <<childVars, request, signals, output, result, tidy>>

-------------------------------------------------------------------------------
Next ==
  \/ Starts \/ Reads \/ Asks \/ Executes \/ RecordsIntent \/ TellsReady
  \/ Commits \/ Warns \/ WritesAnswer \/ Unwinds \/ Exits
  \/ Terminated \/ Killed \/ Signal
  \/ ServerDies \/ Receives \/ StopsWaiting \/ Stops \/ Cleans \/ Settles

Spec == Init /\ [][Next]_vars

-------------------------------------------------------------------------------
Lines == {"ready", "warning", "ok", "refused", "budget", "error", "transient",
          "permanent", "garbage"}

TypeOK ==
  /\ kind \in {"provider", "reading", "changing"}
  /\ code \in {"none", "0", "1", "killed"} /\ request \in {"whole", "cut"}
  /\ lines \in Seq(Lines) /\ output \in Seq(Lines)
  /\ record \in {"none", "committed", "uncertain"}
  /\ verdict \in {"none", "clean", "again", "review", "unverified", "plain"}

(* A server takes as the result only what a child that ended well meant to *)
(* say, whole, wherever it was stopped; and it takes a change as made only *)
(* if the file was changed, and nothing about it is in doubt               *)
(* (tool_process.py:178, provider_process.py:139).                         *)
OnlyWholeAnswers ==
  verdict = "clean" =>
    /\ result = answer /\ answer \in {"ok", "refused"}
    /\ kind = "changing" /\ answer = "ok" =>
         changed /\ journaled /\ record = "committed" /\ ~Has("warning")

(* However and whenever a child is stopped, a file that it changed is in   *)
(* the journal, and unless it could not be stopped at all, the caller is   *)
(* told of the change, as made or as one to review (tool_child.py:163,     *)
(* tool_process.py:311).                                                   *)
ChangesTold ==
  /\ changed => journaled
  /\ verdict # "none" /\ changed =>
       \/ verdict = "review" \/ (verdict = "clean" /\ result = "ok")
       \/ ~tidy /\ output = <<>>
================================================================================
