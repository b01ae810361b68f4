----------------------------- MODULE SteerableJobs -----------------------------
(***************************************************************************)
(* What the job manager of gpt-as-subagent promises to the parent agent    *)
(* that delegates to it, free of locks, threads and mailboxes.             *)
(*                                                                         *)
(* At most one job is unfinished.  A job whose cancellation was accepted   *)
(* ends cancelled and in no other way.  A job completes only when every    *)
(* steering message it accepted has been put before the agent.  A finished *)
(* job never changes again, and it is forgotten only when a new job begins.*)
(* JobManager implements this module (JobManager!Promise).                 *)
(***************************************************************************)
EXTENDS Naturals

CONSTANT Jobs

VARIABLES phase,  \* phase[j]: where job j stands
          owed    \* owed[j]: accepted steering the agent has not been shown

avars == <<phase, owed>>

Unfinished == {"active", "cancelling"}
Finished   == {"completed", "failed", "cancelled"}
Phases     == Unfinished \cup Finished \cup {"none", "forgotten"}

Init == /\ phase = [j \in Jobs |-> "none"]
        /\ owed = [j \in Jobs |-> 0]

(* A job begins when no other is unfinished; finished jobs may be          *)
(* forgotten in the same step, and in no other.                            *)
Begin(j) ==
  /\ phase[j] = "none"
  /\ \A k \in Jobs : phase[k] \notin Unfinished
  /\ \E dropped \in SUBSET {k \in Jobs : phase[k] \in Finished} :
       phase' = [k \in Jobs |-> CASE k = j -> "active"
                                  [] k \in dropped -> "forgotten"
                                  [] OTHER -> phase[k]]
  /\ UNCHANGED owed

Accept(j) ==
  /\ phase[j] = "active"
  /\ owed' = [owed EXCEPT ![j] = @ + 1]
  /\ UNCHANGED phase

(* The agent is shown everything it is owed at once; a job that is being   *)
(* cancelled may drop it instead.                                          *)
Deliver(j) ==
  /\ phase[j] \in Unfinished
  /\ owed' = [owed EXCEPT ![j] = 0]
  /\ UNCHANGED phase

AcceptCancel(j) ==
  /\ phase[j] = "active"
  /\ phase' = [phase EXCEPT ![j] = "cancelling"]
  /\ UNCHANGED owed

(* Only an uncancelled job that owes nothing completes; a failed or        *)
(* cancelled one drops what it owed.                                       *)
Finish(j) ==
  /\ \/ /\ phase[j] = "active" /\ owed[j] = 0
        /\ phase' = [phase EXCEPT ![j] = "completed"]
     \/ /\ phase[j] = "active"
        /\ phase' = [phase EXCEPT ![j] = "failed"]
     \/ /\ phase[j] = "cancelling"
        /\ phase' = [phase EXCEPT ![j] = "cancelled"]
  /\ owed' = [owed EXCEPT ![j] = 0]

Next == \E j \in Jobs : \/ Begin(j)   \/ Accept(j) \/ Deliver(j)
                        \/ AcceptCancel(j) \/ Finish(j)

Spec == Init /\ [][Next]_avars
================================================================================
