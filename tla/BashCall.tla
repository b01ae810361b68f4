------------------------------- MODULE BashCall -------------------------------
(***************************************************************************)
(* A Bash call: the tool process starts a shell in a session (POSIX) or a  *)
(* job (Windows) of its own, waits for it, and ends whatever is left of    *)
(* it.  The server ends the tool when the delegation is cancelled or out   *)
(* of time; the tool's watchdog ends it when the server is gone            *)
(* (bash_tool.py, tool_child.py, provider_process.py).                     *)
(*                                                                         *)
(* The shell does not hold the workspace lease: what survives the tool may *)
(* change files beside the next delegation.  On POSIX a termination is an  *)
(* exception in the tool's main thread, wherever that is; on Windows the   *)
(* tool ends at once, and the system closes its handle of the job, which   *)
(* ends the processes in it.  A killed process does nothing more, however  *)
(* long the system takes to remove it.                                     *)
(***************************************************************************)
EXTENDS Naturals, FiniteSets

CONSTANTS Background   \* processes that the command may leave behind

VARIABLES system,    \* "posix" or "nt"
          tool,      \* where the tool's main thread is
          known,     \* the caller of _start_host_command has the process
          running,   \* the command's processes that are alive
          away,      \* those that left the session, or were started outside the job
          job,       \* Windows: "none", "open" or "closed"
          timedOut, failed, \* what the tool has seen of the call
          reply,     \* "none", "exit", "timeout" or "error"
          signals,   \* who sent its termination: "server" or "watchdog"
          blind      \* history: the tool was interrupted between fork and kill

vars == <<system, tool, known, running, away, job, timedOut, failed, reply, signals, blind>>

Shell == "shell"
Command == {Shell} \cup Background

Init ==
  /\ system \in {"posix", "nt"} /\ tool = "start" /\ known = FALSE
  /\ running = {} /\ away = {} /\ job = "none" /\ timedOut = FALSE
  /\ failed = FALSE /\ reply = "none" /\ signals = {} /\ blind = FALSE

-------------------------------------------------------------------------------
\* The command: its shell starts processes, which may leave its session, and ends.

Fork(p) ==
  /\ Shell \in running /\ p \notin running \cup away
  /\ running' = running \cup {p}
  /\ away' = IF system = "nt" /\ job = "none" THEN away \cup {p} ELSE away
  /\ UNCHANGED <<system, tool, known, job, timedOut, failed, reply, signals, blind>>

Detach(p) ==
  /\ system = "posix" /\ p \in running \ {Shell} /\ away' = away \cup {p}
  /\ UNCHANGED <<system, tool, known, running, job, timedOut, failed, reply, signals, blind>>

Ends(p) ==
  /\ p \in running /\ running' = running \ {p}
  /\ UNCHANGED <<system, tool, known, away, job, timedOut, failed, reply, signals, blind>>

-------------------------------------------------------------------------------
\* The tool's main thread.

Spawn ==
  /\ tool = "start" /\ tool' = "starting" /\ running' = {Shell}
  /\ UNCHANGED <<system, known, away, job, timedOut, failed, reply, signals, blind>>

SpawnFails ==
  /\ tool = "start" /\ tool' = "cleanup" /\ failed' = TRUE
  /\ UNCHANGED <<system, known, running, away, job, timedOut, reply, signals, blind>>

\* _stop_host_process: the process group, also after its shell has ended; the tree
\* of a Windows shell, or if that fails the shell, only while it runs.
Stopped_WhileShellRuns ==
  IF Shell \notin running THEN {running}
  ELSE IF system = "posix" THEN {running \cap away}
  ELSE {{}, running \ {Shell}}

Stopped ==
  IF system = "posix" THEN {running \cap away}
  ELSE IF Shell \in running THEN {{}, running \ {Shell}}
  ELSE {running}

\* The shell is put into a job; if that fails the shell is killed where it was started.
Bind ==
  /\ tool = "starting" /\ job = "none" /\ system = "nt"
  /\ \/ job' = "open" /\ UNCHANGED <<tool, running, failed>>
     \/ /\ job' = "none" /\ tool' = "cleanup" /\ failed' = TRUE
        /\ running' \in Stopped
  /\ UNCHANGED <<system, known, away, timedOut, reply, signals, blind>>

Started ==
  /\ tool = "starting" /\ (system = "nt" => job = "open")
  /\ tool' = "waiting" /\ known' = TRUE
  /\ UNCHANGED <<system, running, away, job, timedOut, failed, reply, signals, blind>>

Waited ==
  /\ tool = "waiting" /\ tool' = "cleanup"
  /\ \/ Shell \notin running /\ timedOut' = timedOut
     \/ timedOut' = TRUE
  /\ UNCHANGED <<system, known, running, away, job, failed, reply, signals, blind>>

Stop ==
  /\ tool = "cleanup" /\ tool' = "close"
  /\ running' \in IF known THEN Stopped ELSE {running}
  /\ \/ failed' = failed
     \/ known /\ failed' = TRUE
  /\ UNCHANGED <<system, known, away, job, timedOut, reply, signals, blind>>

CloseJob ==
  /\ tool = "close" /\ tool' = "join"
  /\ IF known /\ job = "open"
     THEN job' = "closed" /\ running' = running \cap away
     ELSE UNCHANGED <<job, running>>
  /\ UNCHANGED <<system, known, away, timedOut, failed, reply, signals, blind>>

\* The readers end with the last process that holds the pipe; each is given its time.
Join ==
  /\ tool = "join" /\ tool' = "answer"
  /\ \/ failed' = failed
     \/ running # {} /\ failed' = TRUE
  /\ UNCHANGED <<system, known, running, away, job, timedOut, reply, signals, blind>>

Answer ==
  /\ tool = "answer" /\ tool' = "ended"
  /\ reply' = IF failed THEN "error" ELSE IF timedOut THEN "timeout" ELSE "exit"
  /\ UNCHANGED <<system, known, running, away, job, timedOut, failed, signals, blind>>

-------------------------------------------------------------------------------
\* Ending the tool.

\* Between the start of the shell and the end of its kill nobody else knows it.
Uncovered == tool = "starting" \/ (tool = "cleanup" /\ running # {})

Interrupted ==
  /\ blind' = (blind \/ Uncovered)
  /\ tool' = CASE tool \in {"start", "starting", "waiting"} -> "cleanup"
               [] tool \in {"cleanup", "close", "join", "answer"} -> "ended"
  /\ running' \in {running, IF tool = "starting" THEN running \cap away ELSE running}
  /\ failed' = TRUE
  /\ reply' = IF tool' = "ended" THEN "error" ELSE reply
  /\ UNCHANGED <<system, known, away, job, timedOut>>

Killed ==
  /\ blind' = (blind \/ (job # "open" /\ running # {}))
  /\ tool' = "ended" /\ reply' = "none"
  /\ IF job = "open" THEN job' = "closed" /\ running' = running \cap away
     ELSE UNCHANGED <<job, running>>
  /\ UNCHANGED <<system, known, away, timedOut, failed>>

Terminate(who) ==
  /\ tool # "ended" /\ who \notin signals /\ signals' = signals \cup {who}
  /\ IF system = "posix" THEN Interrupted ELSE Killed

\* The server and the watchdog wait for seconds before they end the tool for good.
Kill ==
  /\ tool # "ended" /\ system = "posix" /\ signals # {}
  /\ Killed /\ UNCHANGED signals

\* A later call has a tool of its own.
NextCall ==
  /\ tool = "ended" /\ running = {} /\ tool' = "start" /\ known' = FALSE /\ away' = {}
  /\ job' = "none" /\ timedOut' = FALSE /\ failed' = FALSE /\ reply' = "none"
  /\ signals' = {} /\ blind' = FALSE /\ UNCHANGED <<system, running>>

Next ==
  \/ \E p \in Background : Fork(p) \/ Detach(p)
  \/ \E p \in Command : Ends(p)
  \/ Spawn \/ SpawnFails \/ Bind \/ Started \/ Waited \/ Stop \/ CloseJob \/ Join \/ Answer
  \/ \E who \in {"server", "watchdog"} : Terminate(who)
  \/ Kill \/ NextCall

Spec == Init /\ [][Next]_vars

-------------------------------------------------------------------------------
\* The state is of the types that the code gives it.
TypeOK ==
  /\ system \in {"posix", "nt"}
  /\ tool \in {"start", "starting", "waiting", "cleanup", "close", "join", "answer", "ended"}
  /\ known \in BOOLEAN /\ timedOut \in BOOLEAN /\ failed \in BOOLEAN /\ blind \in BOOLEAN
  /\ running \subseteq Command /\ away \subseteq Background
  /\ job \in {"none", "open", "closed"}
  /\ reply \in {"none", "exit", "timeout", "error"}
  /\ signals \subseteq {"server", "watchdog"}

(* An answer, and the end of the tool that its lease follows, leave no     *)
(* process of the command but those that left its session or its job: also *)
(* when the shell ended before its children, when the time ran out, and    *)
(* when the server and the watchdog both end the tool.  The exceptions are *)
(* named: a termination between the start of the shell and its kill, and   *)
(* the kill of a tool that does not end in time (bash_tool.py:298).        *)
CommandGone ==
  /\ reply \in {"exit", "timeout"} => running \subseteq away
  /\ tool = "ended" /\ ~blind => running \subseteq away
===============================================================================
