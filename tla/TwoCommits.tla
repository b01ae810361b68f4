------------------------------- MODULE TwoCommits -------------------------------
(***************************************************************************)
(* GPT and GLM are delegated work in one workspace: their leases are files *)
(* of different directories (~/.gpt-mcp, ~/.glm-mcp) and do not exclude    *)
(* each other, so that their tools may change the same file at once.  Both *)
(* replace it with the same protocol (file_io.py and                       *)
(* posix_atomic_commit.py of either tree): exchange the new file with the  *)
(* target, park what was displaced, compare it with the version the edit   *)
(* was made from, and unlink it or exchange it back.                       *)
(*                                                                         *)
(* A tool displaces what the other has only just published, and may give   *)
(* it its name back over what the other put there since.  A version is     *)
(* here a file with its data; PosixCommit has writes in place and foreign  *)
(* processes that touch hidden names.  Nobody does here, so that checking  *)
(* a hidden name and removing it are one step.                             *)
(***************************************************************************)
EXTENDS Naturals

CONSTANTS Agents,     \* who edits; an agent also names the version it writes
          Versions,   \* what other processes write
          None,       \* no file
          MaxFailures \* bound: system calls that fail

VARIABLES target,     \* the version that has the file's name
          temp,       \* under the agent's temporary name
          recovery,   \* under its recovery name
          at,         \* where the agent's call stands
          base,       \* the version its edit is made from, or None
          displaced,  \* what had the target's name at its exchange
          report,     \* what its call reports
          overwritten,\* versions that another process replaced or removed
          faults

vars == <<target, temp, recovery, at, base, displaced, report, overwritten, faults>>
hidden == <<temp, recovery>>

Init ==
  /\ target \in Versions \cup {None}
  /\ temp = [a \in Agents |-> None] /\ recovery = [a \in Agents |-> None]
  /\ at = [a \in Agents |-> "begin"] /\ base = [a \in Agents |-> None]
  /\ displaced = [a \in Agents |-> None] /\ report = [a \in Agents |-> "none"]
  /\ overwritten = {} /\ faults = 0

-------------------------------------------------------------------------------
Works == UNCHANGED faults
Fails == faults < MaxFailures /\ faults' = faults + 1
Refused(bad) == (bad /\ Works) \/ Fails

Goto(a, label) == at' = [at EXCEPT ![a] = label] /\ UNCHANGED report
End(a, r) == at' = [at EXCEPT ![a] = "done"] /\ report' = [report EXCEPT ![a] = r]

\* Two names change what they name.
SwapTemp(a) ==
  target' = temp[a] /\ temp' = [temp EXCEPT ![a] = target] /\ UNCHANGED recovery
SwapRecovery(a) ==
  target' = recovery[a] /\ recovery' = [recovery EXCEPT ![a] = target] /\ UNCHANGED temp

Begin(a) ==
  /\ at[a] = "begin" /\ base' = [base EXCEPT ![a] = target] /\ Goto(a, "prepare")
  /\ UNCHANGED <<target, hidden, displaced, overwritten, faults>>

Prepare(a) ==
  /\ at[a] = "prepare"
  /\ \/ /\ target = base[a] /\ Works /\ Goto(a, "ready")
        /\ temp' = [temp EXCEPT ![a] = a]
     \/ Refused(target # base[a]) /\ End(a, "error") /\ UNCHANGED temp
  /\ UNCHANGED <<target, recovery, base, displaced, overwritten>>

Revalidate(a) ==
  /\ at[a] = "ready"
  /\ \/ target = base[a] /\ Works /\ Goto(a, "swap")
     \/ Refused(target # base[a]) /\ Goto(a, "discard")
  /\ UNCHANGED <<target, hidden, base, displaced, overwritten>>

-------------------------------------------------------------------------------
\* commit

PublishMissing(a) ==
  /\ at[a] = "swap" /\ base[a] = None
  /\ \/ target = None /\ Works /\ SwapTemp(a) /\ End(a, "ok")
     \/ Refused(target # None) /\ Goto(a, "discard") /\ UNCHANGED <<target, hidden>>
  /\ UNCHANGED <<base, displaced, overwritten>>

Exchange(a) ==
  /\ at[a] = "swap" /\ base[a] # None
  /\ \/ /\ target # None /\ Works /\ SwapTemp(a) /\ Goto(a, "park")
        /\ displaced' = [displaced EXCEPT ![a] = target]
     \/ /\ Refused(target = None) /\ Goto(a, "discard")
        /\ UNCHANGED <<target, hidden, displaced>>
  /\ UNCHANGED <<base, overwritten>>

Park(a) ==
  /\ at[a] = "park"
  /\ \/ /\ Works /\ Goto(a, "audit")
        /\ recovery' = [recovery EXCEPT ![a] = temp[a]]
        /\ temp' = [temp EXCEPT ![a] = None]
     \/ Fails /\ Goto(a, "unpark") /\ UNCHANGED hidden
  /\ UNCHANGED <<target, base, displaced, overwritten>>

Unpark(a) ==
  /\ at[a] = "unpark"
  /\ \/ target # None /\ Works /\ SwapTemp(a) /\ Goto(a, "discard")
     \/ Refused(target = None) /\ End(a, "warning") /\ UNCHANGED <<target, hidden>>
  /\ UNCHANGED <<base, displaced, overwritten>>

\* Fault: what was displaced is not compared.
Audit_Skipped(a) ==
  /\ at[a] = "audit" /\ Works /\ Goto(a, "unlink")
  /\ UNCHANGED <<target, hidden, base, displaced, overwritten>>

Audit(a) ==
  /\ at[a] = "audit"
  /\ \/ recovery[a] = base[a] /\ Works /\ Goto(a, "unlink")
     \/ Refused(recovery[a] # base[a]) /\ Goto(a, "restore")
  /\ UNCHANGED <<target, hidden, base, displaced, overwritten>>

Unlink(a) ==
  /\ at[a] = "unlink"
  /\ \/ Works /\ End(a, "ok") /\ recovery' = [recovery EXCEPT ![a] = None]
     \/ Fails /\ End(a, "warning") /\ UNCHANGED recovery
  /\ UNCHANGED <<target, temp, base, displaced, overwritten>>

\* _restore_conflict, _restore_after_audit_failure
Restore(a) ==
  /\ at[a] = "restore"
  /\ \/ target # None /\ Works /\ SwapRecovery(a) /\ Goto(a, "reclaim")
     \/ Refused(target = None) /\ End(a, "warning") /\ UNCHANGED <<target, hidden>>
  /\ UNCHANGED <<base, displaced, overwritten>>

\* Fault: what came back is removed whatever it is.
Reclaim_Any(a) ==
  /\ at[a] = "reclaim" /\ Works /\ End(a, "error")
  /\ recovery' = [recovery EXCEPT ![a] = None]
  /\ UNCHANGED <<target, temp, base, displaced, overwritten>>

\* _remove_owned_recovery: only the replacement itself; else it is named in the report.
Reclaim(a) ==
  /\ at[a] = "reclaim"
  /\ \/ /\ recovery[a] = a /\ Works /\ End(a, "error")
        /\ recovery' = [recovery EXCEPT ![a] = None]
     \/ Refused(recovery[a] # a) /\ End(a, "retained") /\ UNCHANGED recovery
  /\ UNCHANGED <<target, temp, base, displaced, overwritten>>

\* discard: the same for the temporary name, without a word.
Discard(a) ==
  /\ at[a] = "discard" /\ End(a, "error")
  /\ \/ temp[a] = a /\ Works /\ temp' = [temp EXCEPT ![a] = None]
     \/ Refused(temp[a] # a) /\ UNCHANGED temp
  /\ UNCHANGED <<target, recovery, base, displaced, overwritten>>

-------------------------------------------------------------------------------
\* A tool is ended, outside the commit; it is killed anywhere; the file is edited.

Terminate(a) ==
  /\ \/ at[a] \in {"begin", "prepare", "discard"} /\ End(a, "stopped")
     \/ at[a] = "ready" /\ Goto(a, "discard")
  /\ UNCHANGED <<target, hidden, base, displaced, overwritten, faults>>

Kill(a) ==
  /\ at[a] \notin {"done", "dead"} /\ Goto(a, "dead")
  /\ UNCHANGED <<target, hidden, base, displaced, overwritten, faults>>

Seen == {target} \cup {temp[a] : a \in Agents} \cup {recovery[a] : a \in Agents}

Foreign(v) ==
  /\ v \in (Versions \ (Seen \cup overwritten)) \ {displaced[a] : a \in Agents}
         \/ (v = None /\ target # None)
  /\ target' = v /\ overwritten' = overwritten \cup ({target} \ {None})
  /\ UNCHANGED <<hidden, at, base, displaced, report, faults>>

Step(a) ==
  \/ Begin(a) \/ Prepare(a) \/ Revalidate(a)
  \/ PublishMissing(a) \/ Exchange(a) \/ Park(a) \/ Unpark(a) \/ Audit(a)
  \/ Unlink(a) \/ Restore(a) \/ Reclaim(a) \/ Discard(a)
  \/ Terminate(a) \/ Kill(a)

Next == (\E a \in Agents : Step(a)) \/ (\E v \in Versions \cup {None} : Foreign(v))

Spec == Init /\ [][Next]_vars

-------------------------------------------------------------------------------
\* The state is of the types that the code gives it; no version has two names.
TypeOK ==
  /\ target \in Versions \cup Agents \cup {None}
  /\ temp \in [Agents -> Versions \cup Agents \cup {None}]
  /\ recovery \in [Agents -> Versions \cup Agents \cup {None}]
  /\ at \in [Agents -> {"begin", "prepare", "ready", "swap", "park", "unpark", "audit",
                        "unlink", "restore", "reclaim", "discard", "done", "dead"}]
  /\ base \in [Agents -> Versions \cup Agents \cup {None}]
  /\ displaced \in [Agents -> Versions \cup Agents \cup {None}]
  /\ report \in [Agents -> {"none", "ok", "error", "retained", "warning", "stopped"}]
  /\ overwritten \subseteq Versions \cup Agents /\ faults \in 0 .. MaxFailures

Superseded(v) == \E a \in Agents : base[a] = v /\ displaced[a] = v

(* Whatever the order of two commits, which calls of them fail and who is  *)
(* killed: a version that another process wrote, or that an agent reported *)
(* as written, is under some name, unless it was overwritten from outside  *)
(* or an edit made from it took its place (posix_atomic_commit.py:221).    *)
NothingLost ==
  \A v \in (Versions \ {w \in Versions : w \notin Seen /\ \A a \in Agents : displaced[a] # w})
             \cup {a \in Agents : report[a] \in {"ok", "warning"}} :
    v \in Seen \cup overwritten \/ Superseded(v)

(* Of two edits made from one version at most one is reported as done; and *)
(* of two made from no file, unless the file was made and what an agent    *)
(* put there was removed from outside.                                     *)
OneEditWins ==
  \A a, b \in Agents :
    a # b /\ report[a] = "ok" /\ report[b] = "ok" /\ base[a] = base[b] =>
      base[a] = None /\ Agents \cap overwritten # {}

(* An edit reported as done has the file's name, or was overwritten, or an *)
(* edit made from it took its place; or the other agent displaced it, and  *)
(* then that call is not over, was killed, met a failing call, or reports  *)
(* the name under which it is (posix_atomic_commit.py:157).                *)
DoneIsThere ==
  \A a \in Agents : report[a] = "ok" =>
    \/ target = a \/ a \in overwritten \/ Superseded(a)
    \/ faults > 0 /\ a \in Seen
    \/ \E b \in Agents \ {a} :
         (temp[b] = a \/ recovery[b] = a) /\ (at[b] # "done" \/ report[b] \in {"retained", "warning"})
================================================================================
