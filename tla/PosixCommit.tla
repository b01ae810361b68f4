------------------------------ MODULE PosixCommit ------------------------------
(***************************************************************************)
(* How one Write, Edit or NotebookEdit call replaces a file on POSIX:      *)
(* _write_posix of file_io.py, commit and discard of                       *)
(* posix_atomic_commit.py, and the cleanup of tool_cleanup.py.             *)
(*                                                                         *)
(* The new content goes to a temporary name, which is exchanged with the   *)
(* target; what was displaced is parked under a recovery name, compared    *)
(* with the version the edit was made from, and either unlinked or put     *)
(* back.  Between any two system calls other processes write the target,   *)
(* in place or by renaming a file over it, any call may fail, and the tool *)
(* may be stopped or killed.                                               *)
(*                                                                         *)
(* A directory entry names a file (an inode number, which is used again    *)
(* once the file is gone); a file's data and the metadata the code         *)
(* compares are one version.                                               *)
(***************************************************************************)
EXTENDS Integers

CONSTANTS Files,       \* files other processes write
          Mine,        \* the file the tool writes
          Versions,    \* what other processes write
          New,         \* what the tool writes
          None,        \* no file
          MaxFailures  \* bound: system calls that fail

ASSUME DistinctAssumption ==
  /\ Mine \notin Files /\ New \notin Versions
  /\ None \notin Files \cup {Mine}
  /\ \A i \in (Files \cup {Mine}) \X (Versions \cup {New}) : i # None
ASSUME FailuresAssumption == MaxFailures \in Nat

VARIABLES
  pc,        \* where the call stands
  baseline,  \* the version it replaces: MISSING_FILE is None
  dir,       \* the directory
  data,      \* what the files hold
  published, \* the replacement has been given the target's name
  displaced, \* what had it then
  result,    \* what the call reports
  writer,    \* a file another process has open for writing
  used,      \* versions other processes have written
  owed,      \* those written to the target that none of them replaced
  failures

toolVars    == <<pc, baseline, published, displaced, result>>
foreignVars == <<writer, used, owed>>
vars == <<toolVars, dir, data, foreignVars, failures>>

Names  == {"target", "temp", "recovery"}
Linked == {dir[n] : n \in Names} \ {None}

(* FileIdentity, or MISSING_FILE                                           *)
Ident(n) == IF dir[n] = None THEN None ELSE <<dir[n], data[dir[n]]>>

Init ==
  /\ pc = "begin" /\ baseline = None
  /\ dir = [n \in Names |-> None]
  /\ data = [f \in Files \cup {Mine} |-> New]
  /\ published = FALSE /\ displaced = None /\ result = "none"
  /\ writer = None /\ used = {} /\ owed = {} /\ failures = 0

-------------------------------------------------------------------------------
(* System calls and ends.                                                  *)

(* A call that works, one that fails, and one that does either.            *)
Works == UNCHANGED failures
Fails == failures < MaxFailures /\ failures' = failures + 1
Refused(bad) == (bad /\ Works) \/ Fails

(* Fault: a link is made over the target, where two names are exchanged.   *)
Exchanged_Linked(a, b) == [dir EXCEPT ![b] = dir[a]]

(* _exchange, _move_no_replace, os.unlink                                  *)
Exchanged(a, b) == [dir EXCEPT ![a] = dir[b], ![b] = dir[a]]
Moved(a, b)     == [dir EXCEPT ![b] = dir[a], ![a] = None]
Unlinked(n)     == [dir EXCEPT ![n] = None]
Goto(label) == pc' = label /\ UNCHANGED result
End(r)      == pc' = "done" /\ result' = r

-------------------------------------------------------------------------------
(* The call, up to the commit.                                             *)

(* Edit reads the file; Write wants none to be there.                      *)
Begin ==
  /\ pc = "begin"
  /\ \/ dir["target"] # None /\ baseline' = Ident("target") /\ Goto("prepare")
     \/ baseline' = None /\ Goto("prepare")
     \/ dir["target"] = None /\ End("error") /\ UNCHANGED baseline
  /\ UNCHANGED <<dir, data, published, displaced, foreignVars, failures>>

(* write_baseline, then the new content under a temporary name.            *)
Prepare ==
  /\ pc = "prepare"
  /\ \/ /\ Ident("target") = baseline /\ Works
        /\ dir' = [dir EXCEPT !["temp"] = Mine]
        /\ data' = [data EXCEPT ![Mine] = New]
        /\ Goto("ready")
     \/ Refused(Ident("target") # baseline)
        /\ End("error") /\ UNCHANGED <<dir, data>>
  /\ UNCHANGED <<baseline, published, displaced, foreignVars>>

(* mutation_ready, and the target is compared once more.                   *)
Revalidate ==
  /\ pc = "ready"
  /\ \/ Ident("target") = baseline /\ Works /\ Goto("swap")
     \/ Refused(Ident("target") # baseline) /\ Goto("discard")
  /\ UNCHANGED <<baseline, published, displaced, dir, data, foreignVars>>

-------------------------------------------------------------------------------
(* commit, with SIGTERM blocked.                                           *)

Published ==
  published' = TRUE /\ displaced' = Ident("target")

(* Fault: a plain rename, which replaces a file that appeared meanwhile.   *)
PublishMissing_Replaces ==
  /\ pc = "swap" /\ baseline = None
  /\ Works /\ dir["temp"] # None
  /\ dir' = Moved("temp", "target") /\ Published /\ End("ok")
  /\ UNCHANGED <<baseline, data, foreignVars>>

(* _publish_missing                                                        *)
PublishMissing ==
  /\ pc = "swap" /\ baseline = None
  /\ \/ /\ dir["target"] = None /\ dir["temp"] # None /\ Works
        /\ dir' = Moved("temp", "target") /\ Published /\ End("ok")
     \/ /\ Refused(dir["target"] # None \/ dir["temp"] = None)
        /\ Goto("discard") /\ UNCHANGED <<dir, published, displaced>>
  /\ UNCHANGED <<baseline, data, foreignVars>>

(* Fault: the target is moved away before the replacement is moved in.     *)
Exchange_InTwoSteps ==
  /\ pc = "swap" /\ baseline # None /\ dir["target"] # None
  /\ dir' = Moved("target", "recovery") /\ Goto("discard")
  /\ UNCHANGED <<baseline, data, published, displaced, foreignVars, failures>>

(* The first exchange.  Whatever had the target's name gives way.          *)
Exchange ==
  /\ pc = "swap" /\ baseline # None
  /\ \/ /\ dir["target"] # None /\ dir["temp"] # None /\ Works
        /\ dir' = Exchanged("temp", "target") /\ Published /\ Goto("park")
     \/ /\ Refused(dir["target"] = None \/ dir["temp"] = None)
        /\ Goto("discard") /\ UNCHANGED <<dir, published, displaced>>
  /\ UNCHANGED <<baseline, data, foreignVars>>

(* _park_displaced                                                         *)
Park ==
  /\ pc = "park"
  /\ \/ /\ dir["temp"] # None /\ Works
        /\ dir' = Moved("temp", "recovery") /\ Goto("audit")
     \/ Refused(dir["temp"] = None)
        /\ Goto("unpark") /\ UNCHANGED dir
  /\ UNCHANGED <<baseline, data, published, displaced, foreignVars>>

(* An exchange back, or a warning: the replacement stays.                  *)
PutBack(from, next) ==
  /\ \/ /\ dir["target"] # None /\ dir[from] # None /\ Works
        /\ dir' = Exchanged(from, "target") /\ Goto(next)
     \/ /\ Refused(dir["target"] = None \/ dir[from] = None)
        /\ End("warning") /\ UNCHANGED dir
  /\ UNCHANGED <<baseline, data, published, displaced, foreignVars>>

Unpark == pc = "unpark" /\ PutBack("temp", "discard")

(* Fault: what was displaced is not compared.                              *)
Audit_Skipped ==
  /\ pc = "audit" /\ Works /\ Goto("unlink")
  /\ UNCHANGED <<baseline, published, displaced, dir, data, foreignVars>>

(* baseline_matches; an audit that fails restores like one that disagrees. *)
Audit ==
  /\ pc = "audit"
  /\ \/ Ident("recovery") = baseline /\ Works /\ Goto("unlink")
     \/ Refused(Ident("recovery") # baseline) /\ Goto("restore")
  /\ UNCHANGED <<baseline, published, displaced, dir, data, foreignVars>>

UnlinkDisplaced ==
  /\ pc = "unlink"
  /\ \/ Works /\ dir' = Unlinked("recovery") /\ End("ok")
     \/ Fails /\ UNCHANGED dir /\ End("warning")
  /\ UNCHANGED <<baseline, data, published, displaced, foreignVars>>

(* _restore_conflict, _restore_after_audit_failure                         *)
Restore == pc = "restore" /\ PutBack("recovery", "reclaim")

-------------------------------------------------------------------------------
(* What is left under the tool's own names.                                *)

(* Fault: the name is unlinked whatever it names.                          *)
CheckOwned_Never(n, here, next) ==
  /\ pc = here /\ Works /\ Goto(next)
  /\ UNCHANGED <<baseline, published, displaced, dir, data, foreignVars>>

(* discard and _remove_owned_recovery: first the version is compared ...   *)
CheckOwned(n, here, next) ==
  /\ pc = here
  /\ \/ Ident(n) = <<Mine, New>> /\ Works /\ Goto(next)
     \/ Refused(Ident(n) # <<Mine, New>>) /\ End("error")
  /\ UNCHANGED <<baseline, published, displaced, dir, data, foreignVars>>

(* ... then the name is unlinked.                                          *)
RemoveOwned(n, here) ==
  /\ pc = here /\ End("error")
  /\ \/ Works /\ dir' = Unlinked(n)
     \/ Fails /\ UNCHANGED dir
  /\ UNCHANGED <<baseline, data, published, displaced, foreignVars>>

(* Fault: the replacement that was taken back is forgotten.                *)
Reclaim_Skipped == /\ pc = "reclaim" /\ End("error")
                   /\ UNCHANGED <<baseline, published, displaced, dir, data,
                                  foreignVars, failures>>

Discard == \/ CheckOwned("temp", "discard", "purge")
           \/ RemoveOwned("temp", "purge")
Reclaim == \/ CheckOwned("recovery", "reclaim", "remove")
           \/ RemoveOwned("recovery", "remove")

(* SIGTERM, outside the commit.  Before it, the temporary is discarded;    *)
(* a signal that arrives in the discard leaves it.                         *)
Terminate ==
  /\ \/ pc \in {"begin", "prepare", "discard", "purge"} /\ End("stopped")
     \/ pc = "ready" /\ Goto("discard")
  /\ UNCHANGED <<baseline, published, displaced, dir, data, foreignVars, failures>>

Kill ==
  /\ pc \notin {"done", "dead", "cleaned"} /\ Goto("dead")
  /\ UNCHANGED <<baseline, published, displaced, dir, data, foreignVars, failures>>

(* Fault: the temporary name of a call that is over is cleaned up.         *)
CleanUp_Unlinks ==
  /\ pc \in {"done", "dead"} /\ Goto("cleaned")
  /\ dir' = Unlinked("temp")
  /\ UNCHANGED <<baseline, data, published, displaced, foreignVars, failures>>

(* cleanup_tool_artifacts, in the server: what is there is left alone.     *)
CleanUp ==
  /\ pc \in {"done", "dead"} /\ Goto("cleaned")
  /\ UNCHANGED <<baseline, data, dir, published, displaced, foreignVars, failures>>

-------------------------------------------------------------------------------
(* Other processes.                                                        *)

Fresh(v) == v \notin used /\ used' = used \cup {v}

(* The version under a name, for a set of none or one.                     *)
Held(n) == IF dir[n] = None THEN {} ELSE {data[dir[n]]}

(* A file is renamed over the target, or created there.                    *)
ForeignReplace(f, v) ==
  /\ f \notin Linked /\ f # writer /\ Fresh(v)
  /\ dir' = [dir EXCEPT !["target"] = f]
  /\ data' = [data EXCEPT ![f] = v]
  /\ owed' = (owed \ Held("target")) \cup {v}
  /\ UNCHANGED <<toolVars, writer, failures>>

ForeignOpen ==
  /\ writer = None /\ dir["target"] # None
  /\ writer' = dir["target"]
  /\ UNCHANGED <<toolVars, dir, data, used, owed, failures>>

(* A write in place, to the target, or to what has meanwhile lost its name.*)
ForeignStore(v) ==
  /\ writer # None /\ Fresh(v)
  /\ data' = [data EXCEPT ![writer] = v]
  /\ owed' = (owed \ {data[writer]})
               \cup (IF dir["target"] = writer THEN {v} ELSE {})
  /\ UNCHANGED <<toolVars, dir, writer, failures>>

ForeignClose ==
  /\ writer # None /\ writer' = None
  /\ UNCHANGED <<toolVars, dir, data, used, owed, failures>>

ForeignRemove(n) ==
  /\ dir[n] # None
  /\ dir' = Unlinked(n)
  /\ owed' = owed \ Held(n)
  /\ UNCHANGED <<toolVars, data, writer, used, failures>>

-------------------------------------------------------------------------------
Commit == \/ PublishMissing \/ Exchange \/ Park \/ Unpark \/ Audit
          \/ UnlinkDisplaced \/ Restore \/ Reclaim

Tool == \/ Begin \/ Prepare \/ Revalidate \/ Commit \/ Discard
        \/ Terminate \/ Kill \/ CleanUp

Foreign == \/ \E v \in Versions : ForeignStore(v)
           \/ \E v \in Versions, f \in Files : ForeignReplace(f, v)
           \/ ForeignOpen \/ ForeignClose
           \/ \E n \in Names : ForeignRemove(n)

Next == Tool \/ Foreign

Spec == Init /\ [][Next]_vars

-------------------------------------------------------------------------------
(* Properties.                                                             *)

Identities == (Files \cup {Mine}) \X (Versions \cup {New})

TypeOK ==
  /\ pc \in {"begin", "prepare", "ready", "swap", "park", "unpark", "audit",
             "unlink", "restore", "reclaim", "remove", "discard", "purge",
             "done", "dead", "cleaned"}
  /\ baseline \in Identities \cup {None}
  /\ dir \in [Names -> Files \cup {Mine, None}]
  /\ \A m, n \in Names : m # n /\ dir[m] = dir[n] => dir[m] = None
  /\ data \in [Files \cup {Mine} -> Versions \cup {New}]
  /\ published \in BOOLEAN /\ displaced \in Identities \cup {None}
  /\ result \in {"none", "ok", "error", "warning", "stopped"}
  /\ writer \in Files \cup {Mine, None}
  /\ used \in SUBSET Versions /\ owed \in SUBSET used
  /\ failures \in 0 .. MaxFailures

(* What another process wrote to the target is under some name until one   *)
(* of them replaces it, whatever fails and whenever the tool is killed;    *)
(* only the version the edit was made from may go, once it was exchanged   *)
(* for the replacement (posix_atomic_commit.py:221-259).  What is written  *)
(* to a file that has lost the target's name is not covered.               *)
ForeignDataKept ==
  \A v \in owed :
    \/ \E n \in Names : v \in Held(n)
    \/ published /\ displaced = baseline /\ baseline # None /\ v = baseline[2]

(* The report is true: OK means that exactly the version the edit was made *)
(* from was replaced; after an error the target is not the tool's file.    *)
ReportIsTrue ==
  /\ result = "ok" => published /\ displaced = baseline
  /\ result = "warning" => published
  /\ result \in {"error", "stopped"} => dir["target"] # Mine

(* A call that ends by itself and meets no failing system call leaves      *)
(* nothing of its own behind; a hidden file that stays has somebody's data.*)
NothingLeft ==
  result \in {"ok", "error"} /\ failures = 0 =>
    \A n \in {"temp", "recovery"} : Ident(n) # <<Mine, New>>

(* No step of the tool takes the target's name away: a reader finds a      *)
(* complete file at every moment.                                          *)
TargetStays ==
  [][Tool => (dir["target"] # None => dir'["target"] # None)]_vars
================================================================================
