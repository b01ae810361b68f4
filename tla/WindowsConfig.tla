----------------------------- MODULE WindowsConfig -----------------------------
(***************************************************************************)
(* The transaction of CodexConfig on Windows (windows_file_io.py and the   *)
(* functions windows_* of atomic_commit.py in adapters/codex): the steps   *)
(* before and after a write are the same, the write and the deletion are   *)
(* not.  There is no exchange: ReplaceFileW moves the file to a hidden     *)
(* name and the replacement to its place, and may do only the first.       *)
(*                                                                         *)
(* temp is the file that the code has to look after: its replacement       *)
(* before ReplaceFileW, and what that displaced after it.                  *)
(***************************************************************************)
EXTENDS CodexConfig

Hide(f) == kept' = kept \cup {f}

(* atomic_write: a look at the name, then a new file beside it, which is   *)
(* removed again when writing it fails.                                    *)
WriteBeside ==
  /\ pc = "write"
  /\ \/ config = base /\ Works /\ temp' = Mine
        /\ Goto(IF base = None THEN "link" ELSE "replace")
     \/ Refused(config # base) /\ Raise /\ UNCHANGED temp
  /\ UNCHANGED <<base, new, forced, config, kept, saved, editor, overruled>>

(* A new configuration: a rename by handle, which replaces nothing.        *)
RenameNew ==
  /\ pc = "link" /\ temp' = None
  /\ \/ config = None /\ Works /\ config' = temp /\ Succeed
     \/ Refused(config # None) /\ Raise /\ UNCHANGED config
  /\ UNCHANGED <<base, new, forced, kept, saved, editor, overruled>>

(* ReplaceFileW: both moves, neither, or only that of the file, which then *)
(* has no name but the hidden one.                                         *)
ReplaceFile(next) ==
  \/ /\ config # None /\ Works
     /\ config' = temp /\ temp' = config /\ Goto(next) /\ UNCHANGED kept
  \/ /\ Refused(config = None) /\ Raise
     /\ Hide(temp) /\ temp' = None /\ UNCHANGED config
  \/ /\ config # None /\ Fails
     /\ Hide(temp) /\ temp' = config /\ config' = None /\ Goto("unreplaced")

Replace ==
  /\ pc = "replace" /\ ReplaceFile("audit")
  /\ UNCHANGED <<base, new, forced, saved, editor, overruled>>

(* Fault: nothing is moved back.                                           *)
MoveBack_Never ==
  /\ pc = "unreplaced" /\ Raise /\ Works
  /\ Hide(temp) /\ temp' = None /\ UNCHANGED config
  /\ UNCHANGED <<base, new, forced, saved, editor, overruled>>

(* _recover_failed_replace: the file goes back to its name, unless another *)
(* has taken it.                                                           *)
MoveBack ==
  /\ pc = "unreplaced" /\ Raise /\ temp' = None
  /\ \/ config = None /\ Works /\ config' = temp /\ UNCHANGED kept
     \/ Refused(config # None) /\ Hide(temp) /\ UNCHANGED config
  /\ UNCHANGED <<base, new, forced, saved, editor, overruled>>

(* windows_replace_cas: what was displaced is discarded if it is what was  *)
(* read.  Discarding it may fail, which is not reported.                   *)
AuditDisplaced ==
  /\ pc = "audit"
  /\ \/ temp = base /\ Succeed /\ temp' = None
        /\ \/ Works /\ UNCHANGED kept
           \/ Fails /\ Hide(temp)
     \/ temp # base /\ Works /\ Goto("recover") /\ UNCHANGED <<temp, kept>>
     \/ Fails /\ Raise /\ Hide(temp) /\ temp' = None
  /\ UNCHANGED <<base, new, forced, config, saved, editor, overruled>>

(* The newer file is put back in the place of ours.                        *)
ReplaceBack ==
  /\ pc = "back" /\ ReplaceFile("reaudit")
  /\ UNCHANGED <<base, new, forced, saved, editor, overruled>>

(* delete_regular: the open file is the one that is expected ...           *)
OpenToDelete ==
  /\ pc = "delete"
  /\ \/ config = base /\ Works /\ Goto("quarantine")
     \/ Refused(config # base) /\ Raise
  /\ UNCHANGED <<base, new, forced, files, saved, editor, overruled>>

(* ... and gets a hidden name, with what was written to it meanwhile; it   *)
(* may have been replaced or removed, too.                                 *)
Quarantine ==
  /\ pc = "quarantine"
  /\ \/ config # None /\ Works /\ temp' = config /\ config' = None /\ Goto("inspect")
     \/ Refused(config # base) /\ Raise /\ UNCHANGED <<config, temp>>
  /\ UNCHANGED <<base, new, forced, kept, saved, editor, overruled>>

(* Fault: the file is dropped without reading it again.                    *)
Dispose_Unread ==
  /\ pc = "inspect" /\ Works /\ Succeed /\ temp' = None /\ UNCHANGED <<config, kept>>
  /\ UNCHANGED <<base, new, forced, saved, editor, overruled>>

(* It is dropped when it is unchanged and its name is still free; it goes  *)
(* back (_restore_delete), or stays hidden, otherwise.                     *)
Dispose ==
  /\ pc = "inspect" /\ temp' = None
  /\ \/ temp = base /\ config = None /\ Works /\ Succeed /\ UNCHANGED <<config, kept>>
     \/ /\ Refused(temp # base \/ config # None) /\ Raise
        /\ \/ config = None /\ config' = temp /\ UNCHANGED kept
           \/ config # None /\ Hide(temp) /\ UNCHANGED config
     \/ /\ temp = base /\ config = None /\ Fails /\ Raise
        /\ Hide(temp) /\ UNCHANGED config
  /\ UNCHANGED <<base, new, forced, saved, editor, overruled>>

WindowsNext ==
  \/ Install \/ Prepare \/ Save \/ Recheck \/ WriteBeside \/ RenameNew \/ Replace
  \/ MoveBack \/ AuditDisplaced \/ Recover \/ ReplaceBack \/ Reaudit
  \/ OpenToDelete \/ Quarantine \/ Dispose
  \/ Handler \/ \E force \in BOOLEAN : Rollback(force)
  \/ Restore \/ Killed \/ Edit \/ Remove

WindowsSpec == Init /\ [][WindowsNext]_vars

-------------------------------------------------------------------------------
(* Properties.                                                             *)

(* However the editor interferes, and although one call of a transaction   *)
(* fails, be it a ReplaceFileW that stops half way, the text that the      *)
(* editor wrote last is at its name when the code ends, unless a forced    *)
(* restore deleted it knowingly (windows_file_io.py:372-378, 481-491).     *)
NameKept ==
  /\ pc = "idle" /\ config = None /\ edits \in owed
  /\ failures <= (IF result = "failed" THEN 1 ELSE 0)
  => \E j \in {"undo", "rollback"} : <<j, edits>> \in overruled
================================================================================
