----------------------------- MODULE WindowsCommit -----------------------------
(***************************************************************************)
(* How one Write, Edit or NotebookEdit call replaces a file on Windows:    *)
(* write_windows of windows_workspace_write.py, commit and _restore of     *)
(* windows_atomic_commit.py, and the cleanup of tool_cleanup.py.           *)
(*                                                                         *)
(* ReplaceFileW gives the target's name to the replacement and a backup    *)
(* name to what had it; it is not atomic: it may fail, or the process may  *)
(* be killed, with the target moved away and nothing in its place.  What   *)
(* was displaced is read, compared with the version the edit was made      *)
(* from, and deleted or put back.  Between any two calls other processes   *)
(* write the target, in place or by renaming a file over it.               *)
(*                                                                         *)
(* A directory entry names a file (a file index, which is used again once  *)
(* the file is gone); a file's data and the metadata the code compares are *)
(* one version.                                                            *)
(***************************************************************************)
EXTENDS Integers

CONSTANTS Files,       \* files other processes write
          Mine,        \* the file the tool writes
          Versions,    \* what other processes write
          Large,       \* those of them that _checked_read refuses
          New,         \* what the tool writes
          None,        \* no file
          MaxFailures  \* bound: system calls that fail

VARIABLES
  pc,        \* where the call stands
  baseline,  \* the version it replaces: MISSING_FILE is None
  dir,       \* the directory
  data,      \* what the files hold
  published, \* the replacement has been given the target's name
  displaced, \* what had it then
  result,    \* what the call reports
  writer,    \* a file another process has open for writing
  used,      \* versions other processes have written
  owed,      \* those written to the target that none of them replaced
  failures

toolVars    == <<pc, baseline, published, displaced, result>>
foreignVars == <<writer, used, owed>>
vars == <<toolVars, dir, data, foreignVars, failures>>

Names  == {"target", "temp", "backup", "recovery"}
Linked == {dir[n] : n \in Names} \ {None}

(* FileIdentity, or MISSING_FILE                                           *)
Ident(n) == IF dir[n] = None THEN None ELSE <<dir[n], data[dir[n]]>>

Init ==
  /\ pc = "begin" /\ baseline = None
  /\ dir = [n \in Names |-> None]
  /\ data = [f \in Files \cup {Mine} |-> New]
  /\ published = FALSE /\ displaced = None /\ result = "none"
  /\ writer = None /\ used = {} /\ owed = {} /\ failures = 0

-------------------------------------------------------------------------------
(* System calls and ends.                                                  *)

Works == UNCHANGED failures
Fails == failures < MaxFailures /\ failures' = failures + 1
Refused(bad) == (bad /\ Works) \/ Fails
Goto(label)  == pc' = label /\ UNCHANGED result
End(r)       == pc' = "done" /\ result' = r
Looks        == UNCHANGED <<baseline, published, displaced, dir, data, foreignVars>>

Deleted(n)  == [dir EXCEPT ![n] = None]

(* _publish_name: a rename by handle, which replaces nothing.              *)
CanPublish(n) == dir[n] # None /\ dir["target"] = None
PublishedAs(n) == [dir EXCEPT !["target"] = dir[n], ![n] = None]

(* ReplaceFileW(target, n, b), and what error 1177 leaves of it.           *)
CanReplace(n)  == dir["target"] # None /\ dir[n] # None
Replaced(n, b) == [dir EXCEPT !["target"] = dir[n], ![n] = None,
                              ![b] = dir["target"]]
HalfReplaced(b) == [dir EXCEPT !["target"] = None, ![b] = dir["target"]]

-------------------------------------------------------------------------------
(* write_windows, up to the commit.                                        *)

(* Edit has read the file, which _checked_read accepted; Write wants none. *)
Begin ==
  /\ pc = "begin"
  /\ \/ /\ dir["target"] # None /\ data[dir["target"]] \notin Large
        /\ baseline' = Ident("target") /\ Goto("prepare")
     \/ baseline' = None /\ Goto("prepare")
     \/ End("error") /\ UNCHANGED baseline
  /\ UNCHANGED <<dir, data, published, displaced, foreignVars, failures>>

Prepare ==
  /\ pc = "prepare"
  /\ \/ /\ Ident("target") = baseline /\ Works
        /\ dir' = [dir EXCEPT !["temp"] = Mine]
        /\ data' = [data EXCEPT ![Mine] = New]
        /\ Goto("ready")
     \/ Refused(Ident("target") # baseline)
        /\ End("error") /\ UNCHANGED <<dir, data>>
  /\ UNCHANGED <<baseline, published, displaced, foreignVars>>

(* mutation_ready, and the target is compared once more.                   *)
Revalidate ==
  /\ pc = "ready" /\ Looks
  /\ \/ Ident("target") = baseline /\ Works /\ Goto("swap")
     \/ Refused(Ident("target") # baseline) /\ Goto("discard")

-------------------------------------------------------------------------------
(* commit                                                                  *)

Published == published' = TRUE /\ displaced' = Ident("target")

(* When only the handle cannot be closed, the creation has committed.      *)
PublishMissing ==
  /\ pc = "swap" /\ baseline = None
  /\ \/ /\ CanPublish("temp") /\ dir' = PublishedAs("temp") /\ Published
        /\ \/ Works /\ End("ok")
           \/ Fails /\ End("warning")
     \/ /\ Refused(~ CanPublish("temp"))
        /\ Goto("discard") /\ UNCHANGED <<dir, published, displaced>>
  /\ UNCHANGED <<baseline, data, foreignVars>>

(* ReplaceFileW, and the audit of the parent that follows it.              *)
Replace ==
  /\ pc = "swap" /\ baseline # None
  /\ \/ /\ CanReplace("temp") /\ dir' = Replaced("temp", "backup") /\ Published
        /\ \/ Works /\ Goto("audit")
           \/ Fails /\ End("warning")
     \/ /\ CanReplace("temp") /\ Fails /\ dir' = HalfReplaced("backup")
        /\ Goto("putback") /\ UNCHANGED <<published, displaced>>
     \/ /\ Refused(~ CanReplace("temp"))
        /\ Goto("discard") /\ UNCHANGED <<dir, published, displaced>>
  /\ UNCHANGED <<baseline, data, foreignVars>>

(* _recover_partial: the original gets its name back, or stays a backup.   *)
RecoverPartial ==
  /\ pc = "putback"
  /\ \/ CanPublish("backup") /\ Works /\ dir' = PublishedAs("backup")
     \/ Refused(~ CanPublish("backup")) /\ UNCHANGED dir
  /\ Goto("discard")
  /\ UNCHANGED <<baseline, data, published, displaced, foreignVars>>

(* discard(displaced, baseline): an OSError restores like a version that   *)
(* disagrees or is gone; the ToolInputError of _checked_read does not.     *)
Audit ==
  /\ pc = "audit" /\ Looks
  /\ IF dir["backup"] # None /\ data[dir["backup"]] \in Large
     THEN \/ Works /\ End("refused")
          \/ Fails /\ Goto("restore")
     ELSE \/ Ident("backup") = baseline /\ Works /\ Goto("drop")
          \/ Refused(Ident("backup") # baseline) /\ Goto("restore")

(* The open handle deletes it: nobody could rename it meanwhile.           *)
DropDisplaced ==
  /\ pc = "drop"
  /\ \/ Works /\ dir' = Deleted("backup") /\ End("ok")
     \/ Fails /\ UNCHANGED dir /\ Goto("restore")
  /\ UNCHANGED <<baseline, data, published, displaced, foreignVars>>

(* _restore: ReplaceFileW the other way round.  A ReplaceFileW that fails  *)
(* leaves a warning; an audit that fails, before it or after, leaves an    *)
(* error that names the file that was kept.                                *)
Restore ==
  /\ pc = "restore"
  /\ \/ /\ CanReplace("backup") /\ dir' = Replaced("backup", "recovery")
        /\ \/ Works /\ Goto("reclaim")
           \/ Fails /\ End("retained")
     \/ CanReplace("backup") /\ Fails
        /\ dir' = HalfReplaced("recovery") /\ Goto("unreplace")
     \/ Refused(~ CanReplace("backup")) /\ UNCHANGED dir /\ End("warning")
     \/ Fails /\ UNCHANGED dir /\ End("retained")
  /\ UNCHANGED <<baseline, data, published, displaced, foreignVars>>

(* _recover_partial of the rollback                                        *)
Unreplace ==
  /\ pc = "unreplace"
  /\ \/ /\ CanPublish("backup") /\ Works
        /\ dir' = PublishedAs("backup") /\ Goto("reclaim")
     \/ /\ Refused(~ CanPublish("backup"))
        /\ UNCHANGED dir /\ End("retained")
  /\ UNCHANGED <<baseline, data, published, displaced, foreignVars>>

-------------------------------------------------------------------------------
(* _discard_if_version of what has the tool's own names: a version that    *)
(* differs, or cannot be read, stays.                                      *)

CheckOwned(n, here, next) ==
  /\ pc = here /\ Looks
  /\ \/ Ident(n) = <<Mine, New>> /\ Works /\ Goto(next)
     \/ Refused(Ident(n) # <<Mine, New>>) /\ End("error")

RemoveOwned(n, here) ==
  /\ pc = here /\ End("error")
  /\ \/ Works /\ dir' = Deleted(n)
     \/ Fails /\ UNCHANGED dir
  /\ UNCHANGED <<baseline, data, published, displaced, foreignVars>>

Discard == \/ CheckOwned("temp", "discard", "purge")
           \/ RemoveOwned("temp", "purge")
Reclaim == \/ CheckOwned("recovery", "reclaim", "remove")
           \/ RemoveOwned("recovery", "remove")

(* The process is terminated, possibly within ReplaceFileW.                *)
Kill ==
  /\ pc \notin {"done", "dead", "cleaned"} /\ Goto("dead")
  /\ \/ UNCHANGED dir
     \/ pc = "swap" /\ baseline # None /\ CanReplace("temp")
        /\ dir' = HalfReplaced("backup")
     \/ pc = "restore" /\ CanReplace("backup")
        /\ dir' = HalfReplaced("recovery")
  /\ UNCHANGED <<baseline, data, published, displaced, foreignVars, failures>>

(* Fault: the backup of a call that was killed is cleaned up as well.      *)
CleanUp_Backup ==
  /\ pc \in {"done", "dead"} /\ Goto("cleaned")
  /\ dir' = Deleted("backup")
  /\ UNCHANGED <<baseline, data, published, displaced, foreignVars, failures>>

(* cleanup_tool_artifacts, in the server: a temporary name is removed.     *)
CleanUp ==
  /\ pc \in {"done", "dead"} /\ Goto("cleaned")
  /\ \/ Works /\ dir' = Deleted("temp")
     \/ Fails /\ UNCHANGED dir
  /\ UNCHANGED <<baseline, data, published, displaced, foreignVars>>

-------------------------------------------------------------------------------
(* Other processes.  What the tool has open for deletion keeps its name.   *)

Fresh(v) == v \notin used /\ used' = used \cup {v}
Held(n)  == IF dir[n] = None THEN {} ELSE {data[dir[n]]}
Anchored == CASE pc = "drop"   -> "backup"
              [] pc = "purge"  -> "temp"
              [] pc = "remove" -> "recovery"
              [] OTHER -> "none"

ForeignReplace(f, v) ==
  /\ f \notin Linked /\ f # writer /\ Fresh(v)
  /\ dir' = [dir EXCEPT !["target"] = f]
  /\ data' = [data EXCEPT ![f] = v]
  /\ owed' = (owed \ Held("target")) \cup {v}
  /\ UNCHANGED <<toolVars, writer, failures>>

ForeignOpen ==
  /\ writer = None /\ dir["target"] # None
  /\ writer' = dir["target"]
  /\ UNCHANGED <<toolVars, dir, data, used, owed, failures>>

ForeignStore(v) ==
  /\ writer # None /\ Fresh(v)
  /\ data' = [data EXCEPT ![writer] = v]
  /\ owed' = (owed \ {data[writer]})
               \cup (IF dir["target"] = writer THEN {v} ELSE {})
  /\ UNCHANGED <<toolVars, dir, writer, failures>>

ForeignClose ==
  /\ writer # None /\ writer' = None
  /\ UNCHANGED <<toolVars, dir, data, used, owed, failures>>

ForeignRemove(n) ==
  /\ dir[n] # None /\ n # Anchored
  /\ dir' = Deleted(n)
  /\ owed' = owed \ Held(n)
  /\ UNCHANGED <<toolVars, data, writer, used, failures>>

-------------------------------------------------------------------------------
Commit == \/ PublishMissing \/ Replace \/ RecoverPartial \/ Audit
          \/ DropDisplaced \/ Restore \/ Unreplace \/ Reclaim

Tool == Begin \/ Prepare \/ Revalidate \/ Commit \/ Discard \/ Kill \/ CleanUp

Foreign == \/ \E v \in Versions : ForeignStore(v)
           \/ \E v \in Versions, f \in Files : ForeignReplace(f, v)
           \/ ForeignOpen \/ ForeignClose
           \/ \E n \in Names : ForeignRemove(n)

Next == Tool \/ Foreign

Spec == Init /\ [][Next]_vars

-------------------------------------------------------------------------------
(* Properties.                                                             *)

Identities == (Files \cup {Mine}) \X (Versions \cup {New})

TypeOK ==
  /\ pc \in {"begin", "prepare", "ready", "swap", "putback", "audit", "drop",
             "restore", "unreplace", "reclaim", "remove", "discard", "purge",
             "done", "dead", "cleaned"}
  /\ baseline \in Identities \cup {None}
  /\ dir \in [Names -> Files \cup {Mine, None}]
  /\ \A m, n \in Names : m # n /\ dir[m] = dir[n] => dir[m] = None
  /\ data \in [Files \cup {Mine} -> Versions \cup {New}]
  /\ published \in BOOLEAN /\ displaced \in Identities \cup {None}
  /\ result \in {"none", "ok", "error", "warning", "retained", "refused"}
  /\ writer \in Files \cup {Mine, None}
  /\ used \in SUBSET Versions /\ owed \in SUBSET used
  /\ failures \in 0 .. MaxFailures

(* What another process wrote to the target is under some name until one   *)
(* of them replaces it, though ReplaceFileW stops half way, whatever fails *)
(* and whenever the tool is killed (windows_workspace_write.py:45-110).    *)
ForeignDataKept ==
  \A v \in owed :
    \/ \E n \in Names : v \in Held(n)
    \/ published /\ displaced = baseline /\ baseline # None /\ v = baseline[2]

(* The report is true: OK means that exactly the version the edit was made *)
(* from was replaced; after an error the target is not the tool's file,    *)
(* unless the error says that the original was kept, or refuses to compare *)
(* it (windows_atomic_commit.py:52-126).                                   *)
ReportIsTrue ==
  /\ result = "ok" => published /\ displaced = baseline
  /\ result \in {"warning", "retained", "refused"} => published
  /\ result = "error" => dir["target"] # Mine

(* A call that ends by itself and meets no failing system call leaves no   *)
(* replacement behind under a hidden name.                                 *)
NothingLeft ==
  result \in {"ok", "error"} /\ failures = 0 =>
    \A n \in Names \ {"target"} : Ident(n) # <<Mine, New>>

(* "Publish a temporary file and restore any non-baseline displacement":   *)
(* when no system call fails, and what was displaced is neither gone nor   *)
(* the version the edit was made from, the replacement does not keep the   *)
(* target's name (windows_atomic_commit.py:98).                            *)
DisplacementRestored ==
  pc = "done" /\ failures = 0 /\ published /\ displaced # baseline
    /\ Ident("backup") = displaced
  => dir["target"] # Mine
================================================================================
