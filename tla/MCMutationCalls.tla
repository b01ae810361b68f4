---------------------------- MODULE MCMutationCalls ----------------------------
(***************************************************************************)
(* Model checking of MutationCalls, which takes the workspace lease as the *)
(* set of its holders, of LeaseFile, which has the lease as the files and  *)
(* descriptors it is made of, and of BashCall, the one tool whose work may *)
(* outlive the tool.  In a behaviour, part says which of them moves: the   *)
(* states add up and do not multiply.                                      *)
(***************************************************************************)
EXTENDS MutationCalls, LeaseDomain, TLC

CONSTANT Parts

\* What a command leaves behind is not its shell.
ASSUME CommandAssumption == "shell" \notin Opens

VARIABLES part, system, at, leasePhase, config, fd, lock, locked, copies,
          step, kind, request, root,
          bashTool, known, running, away, job, timedOut, bashFailed, bashReply,
          signals, blind

Lease == INSTANCE LeaseFile WITH phase <- leasePhase

Bash == INSTANCE BashCall WITH Background <- Opens, tool <- bashTool,
                               failed <- bashFailed, reply <- bashReply

leaseVars == <<system, at, leasePhase, config, fd, lock, locked, copies, step,
               kind, request, root>>
bashVars == <<bashTool, known, running, away, job, timedOut, bashFailed, bashReply,
              signals, blind>>
partVars == <<part, vars, leaseVars, bashVars>>

PartsInit ==
  /\ part \in Parts
  /\ Init /\ Lease!Init /\ Bash!Init
  /\ part = "calls" => system = "posix"
  /\ part # "lease" => \A p, q \in Paths : at[p] = at[q]

PartsNext ==
  \/ part = "calls" /\ Next /\ UNCHANGED <<part, leaseVars, bashVars>>
  \/ part = "lease" /\ Lease!Next /\ UNCHANGED <<part, vars, bashVars>>
  \/ /\ part = "bash" /\ Bash!Next
     /\ UNCHANGED <<part, vars, at, leasePhase, config, fd, lock, locked, copies,
                    step, kind, request, root>>

PartsSpec == PartsInit /\ [][PartsNext]_partVars

(* The owners are the servers and the tools the transactions: the parts    *)
(* share their model values, and their permutations.                       *)
Symmetry == Permutations(Servers) \cup Permutations(Tx)
              \cup Permutations(Opens) \cup Permutations(Dirs)

(* One execution at a time in a directory, whatever its paths and whoever  *)
(* outlives whom, and no tool on files outside the directory that its      *)
(* lease is for; nothing of a Bash command outlives its tool, and with it  *)
(* the lease, but the named exceptions (execution_lock.py:302,             *)
(* workspace_guard.py:72, bash_tool.py:298).                               *)
LeaseExact == Lease!LeaseExact /\ Bash!TypeOK /\ Bash!CommandGone
================================================================================
