----------------------------- MODULE MutationCalls -----------------------------
(***************************************************************************)
(* How the gpt-as-subagent servers of one workspace change its files:      *)
(* tool_process.py (the server's side of one Write, Edit or NotebookEdit   *)
(* call), tool_child.py (the subprocess that runs it), execution_lock.py   *)
(* (the lease, a file lock on an open file that the child inherits),       *)
(* transaction_journal.py and transaction_recovery.py (the intent journal  *)
(* that outlives both and gates the next delegation).                      *)
(*                                                                         *)
(* A transaction is one tool call and its child.  Children are killed, and *)
(* servers crash, between any two steps; a child that is killed inside a   *)
(* system call of the commit may still finish that call.  The lease is the *)
(* set of processes that hold the locked open file, and is free when that  *)
(* is empty.  The file is named by the transaction that last wrote it.     *)
(***************************************************************************)
EXTENDS Integers, FiniteSets

CONSTANTS Servers,    \* server processes on the workspace
          Tx,         \* transaction ids, each drawn once (uuid4)
          NoTx,       \* no tool call
          Foreign,    \* a file content nobody's transaction wrote
          MaxRecords  \* MAX_RECORDS of the journal, MAX_MUTATION_RECORDS

ASSUME IdAssumption ==
  /\ Servers \cap Tx = {}
  /\ NoTx \notin Tx /\ Foreign \notin Tx
ASSUME RecordsAssumption == MaxRecords \in Nat \ {0}
ASSUME FiniteAssumption == IsFiniteSet(Tx)

VARIABLES
  phase,    \* where a server's delegation or acknowledgement stands
  call,     \* the tool call the server is in
  mine,     \* the calls of its current delegation
  failed,   \* the call's failure or cleanup_error is set
  told,     \* the mutation records of the delegation (MutationAccumulator)
  todo,     \* ids an acknowledgement still has to delete
  holders,  \* processes that hold the open, locked lease file
  child,    \* where a call's subprocess stands
  signal,   \* the signal on its way to the subprocess
  reply,    \* the last line the subprocess printed
  ready,    \* it printed its mutation_ready line
  warned,   \* it printed a mutation_warning line
  journal,  \* ids with a record in the journal
  announced,\* ids that ever had one
  shown,    \* ids the host has been shown
  acked,    \* ids whose record the host's acknowledgement deleted
  file,     \* who wrote the file's content
  mutated,  \* transactions that changed the file
  outcome   \* what the server concluded about a call

serverVars  == <<phase, call, mine, failed, told, todo>>
childVars   == <<child, signal, reply, ready, warned>>
journalVars == <<journal, announced, shown, acked>>
fileVars    == <<file, mutated>>
vars == <<serverVars, holders, childVars, journalVars, fileVars, outcome>>

Delegating == {"run", "wait", "clean", "settle", "over"}
Phases     == Delegating \cup {"idle", "check", "ack"}
Working    == {"born", "intended", "ready", "committing", "committed"}
ChildSteps == Working \cup {"none", "replied", "dead"}
Alive(t)   == child[t] \in Working \cup {"replied"}

Init ==
  /\ phase = [s \in Servers |-> "idle"]
  /\ call = [s \in Servers |-> NoTx]
  /\ mine = [s \in Servers |-> {}]
  /\ failed = [s \in Servers |-> FALSE]
  /\ told = [s \in Servers |-> {}] /\ todo = [s \in Servers |-> {}]
  /\ holders = {}
  /\ child = [t \in Tx |-> "none"] /\ signal = [t \in Tx |-> "none"]
  /\ reply = [t \in Tx |-> "none"]
  /\ ready = [t \in Tx |-> FALSE] /\ warned = [t \in Tx |-> FALSE]
  /\ journal = {} /\ announced = {} /\ shown = {} /\ acked = {}
  /\ file = Foreign /\ mutated = {}
  /\ outcome = [t \in Tx |-> "none"]

-------------------------------------------------------------------------------
(* A server's delegation.                                                  *)

(* Closing the lease file frees the lease only if no child holds it too.   *)
Released(p) == holders \ {p}

(* acquire_workspace_lease                                                 *)
Acquire(s, next) ==
  /\ phase[s] = "idle"
  /\ holders = {}
  /\ holders' = {s}
  /\ phase' = [phase EXCEPT ![s] = next]

(* _acquire_ready_workspace_lease_locked, its two halves: the lease first, *)
(* the journal then.                                                       *)
BeginDelegation(s) ==
  /\ Acquire(s, "check")
  /\ UNCHANGED <<call, mine, failed, told, todo, childVars, journalVars,
                 fileVars, outcome>>

(* Fault: the delegation starts over whatever the journal holds.           *)
CheckJournal_Ignored(s) ==
  /\ phase[s] = "check"
  /\ phase' = [phase EXCEPT ![s] = "run"]
  /\ UNCHANGED <<call, mine, failed, told, todo, holders, childVars,
                 journalVars, fileVars, outcome>>

(* require_no_pending: with a record left the lease goes back, and the     *)
(* error names the records.                                                *)
CheckJournal(s) ==
  /\ phase[s] = "check"
  /\ IF journal = {}
     THEN /\ phase' = [phase EXCEPT ![s] = "run"]
          /\ UNCHANGED <<holders, shown>>
     ELSE /\ phase' = [phase EXCEPT ![s] = "idle"]
          /\ holders' = Released(s)
          /\ shown' = shown \cup journal
  /\ UNCHANGED <<call, mine, failed, told, todo, childVars, journal, announced,
                 acked, fileVars, outcome>>

(* Fault: the child is started without the lease file.                     *)
LaunchTool_NoLease(s, t) ==
  /\ phase[s] = "run" /\ child[t] = "none"
  /\ child' = [child EXCEPT ![t] = "born"]
  /\ phase' = [phase EXCEPT ![s] = "wait"]
  /\ call' = [call EXCEPT ![s] = t]
  /\ mine' = [mine EXCEPT ![s] = @ \cup {t}]
  /\ failed' = [failed EXCEPT ![s] = FALSE]
  /\ UNCHANGED <<told, todo, holders, signal, reply, ready, warned, journalVars,
                 fileVars, outcome>>

(* _launch_tool_call: the child inherits the lease file (pass_fds).        *)
LaunchTool(s, t) ==
  /\ phase[s] = "run" /\ child[t] = "none"
  /\ child' = [child EXCEPT ![t] = "born"]
  /\ holders' = holders \cup {t}
  /\ phase' = [phase EXCEPT ![s] = "wait"]
  /\ call' = [call EXCEPT ![s] = t]
  /\ mine' = [mine EXCEPT ![s] = @ \cup {t}]
  /\ failed' = [failed EXCEPT ![s] = FALSE]
  /\ UNCHANGED <<told, todo, signal, reply, ready, warned, journalVars,
                 fileVars, outcome>>

(* _receive_tool_result: the pipe ended, so the child is gone, or the      *)
(* server stops waiting for it, cancelled or past the deadline.            *)
ReceiveResult(s) ==
  /\ phase[s] = "wait" /\ child[call[s]] = "dead"
  /\ failed' = [failed EXCEPT ![s] = reply[call[s]] \notin {"ok", "error_result"}]
  /\ phase' = [phase EXCEPT ![s] = "clean"]
  /\ UNCHANGED <<call, mine, told, todo, holders, childVars, journalVars,
                 fileVars, outcome>>

StopWaiting(s) ==
  /\ phase[s] = "wait"
  /\ failed' = [failed EXCEPT ![s] = TRUE]
  /\ phase' = [phase EXCEPT ![s] = "clean"]
  /\ UNCHANGED <<call, mine, told, todo, holders, childVars, journalVars,
                 fileVars, outcome>>

(* _stop_process, first signal; the second is Expire below.                *)
StopTerm(s) ==
  /\ phase[s] = "clean" /\ Alive(call[s]) /\ signal[call[s]] = "none"
  /\ signal' = [signal EXCEPT ![call[s]] = "term"]
  /\ UNCHANGED <<serverVars, holders, child, reply, ready, warned, journalVars,
                 fileVars, outcome>>

(* _cleanup_tool_process, when the child is gone: its artifacts are        *)
(* cleaned, or that fails.                                                 *)
CleanUp(s) ==
  /\ phase[s] = "clean" /\ child[call[s]] = "dead"
  /\ \E ok \in BOOLEAN : failed' = [failed EXCEPT ![s] = @ \/ ~ok]
  /\ phase' = [phase EXCEPT ![s] = "settle"]
  /\ UNCHANGED <<call, mine, told, todo, holders, childVars, journalVars,
                 fileVars, outcome>>

(* The killed child does not end in time: "tool process cleanup failed".   *)
GiveUp(s) ==
  /\ phase[s] = "clean" /\ Alive(call[s]) /\ signal[call[s]] = "kill"
  /\ failed' = [failed EXCEPT ![s] = TRUE]
  /\ phase' = [phase EXCEPT ![s] = "settle"]
  /\ UNCHANGED <<call, mine, told, todo, holders, childVars, journalVars,
                 fileVars, outcome>>

(* What a child printed is known once it is gone.                          *)
KnownReady(t) == child[t] = "dead" /\ ready[t]

(* Fault: the status is the child's word, not what the file says.          *)
Classified_FromReply(t, readable) == reply[t]

(* _interrupted_mutation_state: the file is read again and compared.       *)
Classified(t, readable) ==
  IF readable /\ file = t THEN "committed" ELSE "uncertain"

(* Fault: a failed call is reported like one that changed nothing.         *)
Settle_ForgetsFailure(s, readable) ==
  LET t == call[s] IN
  /\ phase[s] = "settle"
  /\ IF KnownReady(t) /\ ~failed[s]
     THEN /\ outcome' = [outcome EXCEPT ![t] = Classified(t, readable)]
          /\ told' = [told EXCEPT ![s] = @ \cup {t}]
     ELSE /\ outcome' = [outcome EXCEPT
                           ![t] = IF child[t] = "dead" THEN "nothing" ELSE "lost"]
          /\ UNCHANGED told
  /\ phase' = [phase EXCEPT ![s] = IF failed[s] THEN "over" ELSE "run"]
  /\ call' = [call EXCEPT ![s] = NoTx]
  /\ failed' = [failed EXCEPT ![s] = FALSE]
  /\ UNCHANGED <<mine, todo, holders, childVars, journalVars, fileVars>>

(* _complete_tool_call: a call whose intent is known gets a record; it and *)
(* a call that failed end the delegation, unless the mutation is clean.    *)
(* Without a record the call changed "nothing", or the child outlived the  *)
(* cleanup and its output is "lost".                                       *)
Settle(s, readable) ==
  LET t == call[s]
      clean == /\ ~failed[s]
               /\ KnownReady(t) => /\ reply[t] = "ok" /\ ~warned[t]
                                   /\ Classified(t, readable) = "committed"
  IN
  /\ phase[s] = "settle"
  /\ IF KnownReady(t)
     THEN /\ outcome' = [outcome EXCEPT ![t] = Classified(t, readable)]
          /\ told' = [told EXCEPT ![s] = @ \cup {t}]
     ELSE /\ outcome' = [outcome EXCEPT
                           ![t] = IF child[t] = "dead" THEN "nothing" ELSE "lost"]
          /\ UNCHANGED told
  /\ phase' = [phase EXCEPT ![s] = IF clean THEN "run" ELSE "over"]
  /\ call' = [call EXCEPT ![s] = NoTx]
  /\ failed' = [failed EXCEPT ![s] = FALSE]
  /\ UNCHANGED <<mine, todo, holders, childVars, journalVars, fileVars>>

(* The delegation ends: its records reach the host, the lease file closes. *)
EndDelegation(s) ==
  /\ phase[s] \in {"run", "over"}
  /\ phase' = [phase EXCEPT ![s] = "idle"]
  /\ holders' = Released(s)
  /\ shown' = shown \cup told[s]
  /\ told' = [told EXCEPT ![s] = {}] /\ mine' = [mine EXCEPT ![s] = {}]
  /\ UNCHANGED <<call, failed, todo, childVars, journal, announced, acked,
                 fileVars, outcome>>

(* The server process dies and is started again.                           *)
Crash(s) ==
  /\ phase[s] # "idle"
  /\ phase' = [phase EXCEPT ![s] = "idle"]
  /\ call' = [call EXCEPT ![s] = NoTx] /\ failed' = [failed EXCEPT ![s] = FALSE]
  /\ mine' = [mine EXCEPT ![s] = {}] /\ told' = [told EXCEPT ![s] = {}]
  /\ todo' = [todo EXCEPT ![s] = {}]
  /\ holders' = Released(s)
  /\ UNCHANGED <<childVars, journalVars, fileVars, outcome>>

-------------------------------------------------------------------------------
(* The host reviews what was journaled.                                    *)

(* query_with_lease, which holds the lease for its whole duration.         *)
QueryRecovery(s) ==
  /\ phase[s] = "idle" /\ holders = {}
  /\ shown' = shown \cup journal
  /\ UNCHANGED <<serverVars, holders, childVars, journal, announced, acked,
                 fileVars, outcome>>

(* acknowledge_with_lease, of ids the host was shown.                      *)
BeginAcknowledge(s) ==
  /\ Acquire(s, "ack")
  /\ \E ids \in SUBSET shown : todo' = [todo EXCEPT ![s] = ids]
  /\ UNCHANGED <<call, mine, failed, told, childVars, journalVars, fileVars,
                 outcome>>

AcknowledgeOne(s, t) ==
  /\ phase[s] = "ack" /\ t \in todo[s]
  /\ journal' = journal \ {t}
  /\ acked' = IF t \in journal THEN acked \cup {t} ELSE acked
  /\ todo' = [todo EXCEPT ![s] = @ \ {t}]
  /\ UNCHANGED <<phase, call, mine, failed, told, holders, childVars, announced,
                 shown, fileVars, outcome>>

(* It returns what is still pending, when it is done or when it fails      *)
(* half way.                                                               *)
EndAcknowledge(s) ==
  /\ phase[s] = "ack"
  /\ phase' = [phase EXCEPT ![s] = "idle"]
  /\ todo' = [todo EXCEPT ![s] = {}]
  /\ holders' = Released(s)
  /\ shown' = IF todo[s] = {} THEN shown \cup journal ELSE shown
  /\ UNCHANGED <<call, mine, failed, told, childVars, journal, announced, acked,
                 fileVars, outcome>>

-------------------------------------------------------------------------------
(* The child.  A killed one takes no step but the system call it is in.    *)

Runs(t) == signal[t] # "kill"

(* Faults: a full journal refuses nothing; an intent is reported that was  *)
(* not recorded.                                                           *)
RecordIntent_NoLimit(t) ==
  /\ child[t] = "born" /\ Runs(t)
  /\ journal' = journal \cup {t} /\ announced' = announced \cup {t}
  /\ child' = [child EXCEPT ![t] = "intended"]
  /\ UNCHANGED <<serverVars, holders, signal, reply, ready, warned, shown, acked,
                 fileVars, outcome>>
RecordIntent_Skipped(t) ==
  /\ child[t] = "born" /\ Runs(t)
  /\ child' = [child EXCEPT ![t] = "intended"]
  /\ UNCHANGED <<serverVars, holders, signal, reply, ready, warned, journalVars,
                 fileVars, outcome>>

(* record_intent, which refuses when the journal is full.                  *)
RecordIntent(t) ==
  /\ child[t] = "born" /\ Runs(t)
  /\ Cardinality(journal) < MaxRecords
  /\ journal' = journal \cup {t} /\ announced' = announced \cup {t}
  /\ child' = [child EXCEPT ![t] = "intended"]
  /\ UNCHANGED <<serverVars, holders, signal, reply, ready, warned, shown, acked,
                 fileVars, outcome>>

(* _write_mutation_ready                                                   *)
ReportReady(t) ==
  /\ child[t] = "intended" /\ Runs(t)
  /\ ready' = [ready EXCEPT ![t] = TRUE]
  /\ child' = [child EXCEPT ![t] = "ready"]
  /\ UNCHANGED <<serverVars, holders, signal, reply, warned, journalVars,
                 fileVars, outcome>>

(* _finish_posix_commit blocks SIGTERM and enters the commit.              *)
EnterCommit(t) ==
  /\ child[t] = "ready" /\ Runs(t)
  /\ child' = [child EXCEPT ![t] = "committing"]
  /\ UNCHANGED <<serverVars, holders, signal, reply, ready, warned, journalVars,
                 fileVars, outcome>>

(* The file is exchanged, also when the child is killed in that call; a    *)
(* doubt about the aftermath is journaled and printed.                     *)
CommitLands(t) ==
  /\ child[t] = "committing"
  /\ child' = [child EXCEPT ![t] = "committed"]
  /\ file' = t /\ mutated' = mutated \cup {t}
  /\ \E doubt \in BOOLEAN : warned' = [warned EXCEPT ![t] = doubt /\ Runs(t)]
  /\ UNCHANGED <<serverVars, holders, signal, reply, ready, journalVars, outcome>>

Reply(t, line) ==
  /\ child' = [child EXCEPT ![t] = "replied"]
  /\ reply' = [reply EXCEPT ![t] = line]
  /\ UNCHANGED <<serverVars, holders, signal, ready, warned, journalVars,
                 fileVars, outcome>>

(* The tool returns: OK after a commit; an error before it (a bad path, a  *)
(* full journal, a conflict) or after it (a warning that is not journaled).*)
ToolReturns(t) ==
  /\ child[t] \in Working /\ Runs(t)
  /\ \/ child[t] = "committed" /\ Reply(t, "ok")
     \/ Reply(t, "error_result")

(* The handler of SIGTERM unwinds the tool, except while it is blocked;    *)
(* the mutation budget unwinds it before it begins.                        *)
ToolUnwinds(t) ==
  /\ \/ child[t] \in Working \ {"committing"} /\ signal[t] = "term"
     \/ child[t] = "born" /\ Runs(t)
  /\ Reply(t, "error")

(* Fault: the lease file stays open in a process the child left behind.    *)
Exit_LeavesLease(t) ==
  /\ child[t] = "replied" /\ Runs(t)
  /\ child' = [child EXCEPT ![t] = "dead"]
  /\ UNCHANGED <<serverVars, holders, signal, reply, ready, warned, journalVars,
                 fileVars, outcome>>

Exit(t) ==
  /\ child[t] = "replied" /\ Runs(t)
  /\ child' = [child EXCEPT ![t] = "dead"]
  /\ holders' = Released(t)
  /\ UNCHANGED <<serverVars, signal, reply, ready, warned, journalVars, fileVars,
                 outcome>>

(* The child's own watchdog: the server is gone, or the deadline is past.  *)
Watchdog(t) ==
  /\ Alive(t) /\ signal[t] = "none"
  /\ signal' = [signal EXCEPT ![t] = "term"]
  /\ UNCHANGED <<serverVars, holders, child, reply, ready, warned, journalVars,
                 fileVars, outcome>>

(* Fault: a child that is committing is waited for without end.            *)
Expire_NotInCommit(t) ==
  /\ Alive(t) /\ signal[t] = "term" /\ child[t] # "committing"
  /\ signal' = [signal EXCEPT ![t] = "kill"]
  /\ UNCHANGED <<serverVars, holders, child, reply, ready, warned, journalVars,
                 fileVars, outcome>>

(* Two seconds after SIGTERM the server sends SIGKILL, the watchdog exits. *)
Expire(t) ==
  /\ Alive(t) /\ signal[t] = "term"
  /\ signal' = [signal EXCEPT ![t] = "kill"]
  /\ UNCHANGED <<serverVars, holders, child, reply, ready, warned, journalVars,
                 fileVars, outcome>>

Die(t) ==
  /\ Alive(t) /\ signal[t] = "kill"
  /\ child' = [child EXCEPT ![t] = "dead"]
  /\ reply' = [reply EXCEPT ![t] = "killed"]
  /\ holders' = Released(t)
  /\ UNCHANGED <<serverVars, signal, ready, warned, journalVars, fileVars,
                 outcome>>

(* An editor, the host or the user writes the file.                        *)
ForeignWrite ==
  /\ file # Foreign
  /\ file' = Foreign
  /\ UNCHANGED <<serverVars, holders, childVars, journalVars, mutated, outcome>>

-------------------------------------------------------------------------------
Calling(s) ==
  \/ ReceiveResult(s) \/ StopWaiting(s) \/ StopTerm(s) \/ CleanUp(s)
  \/ GiveUp(s) \/ \E readable \in BOOLEAN : Settle(s, readable)

Server(s) ==
  \/ BeginDelegation(s) \/ CheckJournal(s) \/ EndDelegation(s) \/ Crash(s)
  \/ Calling(s) \/ QueryRecovery(s) \/ BeginAcknowledge(s) \/ EndAcknowledge(s)
  \/ \E t \in Tx : LaunchTool(s, t) \/ AcknowledgeOne(s, t)

Child(t) ==
  \/ RecordIntent(t) \/ ReportReady(t) \/ EnterCommit(t) \/ CommitLands(t)
  \/ ToolReturns(t) \/ ToolUnwinds(t) \/ Exit(t)
  \/ Watchdog(t) \/ Expire(t) \/ Die(t)

Next == \/ \E s \in Servers : Server(s)
        \/ \E t \in Tx : Child(t)
        \/ ForeignWrite

Spec == Init /\ [][Next]_vars

-------------------------------------------------------------------------------
(* Properties.                                                             *)

TypeOK ==
  /\ phase \in [Servers -> Phases]
  /\ call \in [Servers -> Tx \cup {NoTx}]
  /\ mine \in [Servers -> SUBSET Tx]
  /\ failed \in [Servers -> BOOLEAN]
  /\ told \in [Servers -> SUBSET Tx] /\ todo \in [Servers -> SUBSET Tx]
  /\ holders \in SUBSET (Servers \cup Tx)
  /\ child \in [Tx -> ChildSteps]
  /\ signal \in [Tx -> {"none", "term", "kill"}]
  /\ reply \in [Tx -> {"none", "ok", "error_result", "error", "killed"}]
  /\ ready \in [Tx -> BOOLEAN] /\ warned \in [Tx -> BOOLEAN]
  /\ journal \in SUBSET Tx /\ announced \in SUBSET Tx
  /\ shown \in SUBSET Tx /\ acked \in SUBSET Tx
  /\ file \in Tx \cup {Foreign} /\ mutated \in SUBSET Tx
  /\ outcome \in [Tx -> {"none", "committed", "uncertain", "nothing", "lost"}]

(* Two delegations never overlap on the workspace, not even when a server  *)
(* dies or gives up on a child that is still running: every delegation,    *)
(* acknowledgement and running child shares the one lease, and a child     *)
(* under a delegation belongs to it (execution_lock.py:1, README.md:105).  *)
OneDelegation ==
  /\ \A s, r \in Servers : phase[s] # "idle" /\ phase[r] # "idle" => s = r
  /\ \A t \in Tx, s \in Servers :
       Alive(t) /\ phase[s] # "idle" => t \in mine[s]

(* A change is in the journal before it is in the file, and stays there    *)
(* until the host acknowledges it; so does every change the server's       *)
(* records mention (README.md:212-213).                                    *)
WriteAhead ==
  mutated \cup UNION {told[s] : s \in Servers} \subseteq journal \cup acked

(* A delegation runs over its own unreviewed changes only: it began when   *)
(* nothing was pending, and nothing of an earlier one arrives later        *)
(* (README.md:226).                                                        *)
FreshStart ==
  \A s \in Servers : phase[s] \in Delegating => journal \subseteq mine[s]

(* The journal has what is to be reviewed, before a change and before the  *)
(* next delegation.                                                        *)
JournalFirst == WriteAhead /\ FreshStart

(* A call that ended without a mutation record, its child gone, changed    *)
(* nothing and never will; and one reported as committed did change the    *)
(* file (_complete_tool_call).                                             *)
Disclosed ==
  \A t \in Tx : /\ outcome[t] = "nothing" => t \notin mutated
                /\ outcome[t] = "committed" => t \in mutated

(* The journal holds as many records as it can list, and the records of a  *)
(* delegation fit the accumulator, whose add would otherwise raise in the  *)
(* middle of a report (mutation_outcome.py:36-40).                         *)
RecordsFit ==
  /\ Cardinality(journal) <= MaxRecords
  /\ \A s \in Servers : Cardinality(told[s]) <= MaxRecords

(* What was acknowledged is final: the file is not changed by a            *)
(* transaction whose record the host has reviewed and removed.             *)
AckIsFinal ==
  [][\A t \in acked : t \in mutated' => t \in mutated]_vars

(* Every child ends and gives the lease back, whatever it hangs in and     *)
(* whether or not its server is alive, and every call returns to the       *)
(* agent or ends the delegation.                                           *)
LeaseReturns == \A t \in Tx : t \in holders ~> t \notin holders
CallsEnd ==
  \A s \in Servers : phase[s] \in {"wait", "clean", "settle"}
                       ~> phase[s] \notin {"wait", "clean", "settle"}

-------------------------------------------------------------------------------
(* The workspace the host sees.                                            *)

AtWork == \/ \E s \in Servers : phase[s] \in Delegating
          \/ \E t \in Tx : Alive(t)

Promise == INSTANCE ReviewedWorkspace
             WITH open <- AtWork, pending <- journal, changed <- mutated

KeepsPromise == Promise!Spec
================================================================================
