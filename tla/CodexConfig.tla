------------------------------ MODULE CodexConfig ------------------------------
(***************************************************************************)
(* The transaction that edits the configuration of Codex (configure.py and *)
(* atomic_commit.py of adapters/codex, on POSIX): begin_transaction, what  *)
(* it undoes itself, and a later rollback, against an editor (Codex, the   *)
(* user, the adapter of another provider) that does not know the lease.    *)
(*                                                                         *)
(* A file is a text with who wrote it, which stands for the metadata that  *)
(* a snapshot compares.  The editor's texts are numbered, 0 is no text at  *)
(* all, and Ours(n) is text n with the registration added or removed.      *)
(***************************************************************************)
EXTENDS Integers

CONSTANTS MaxEdits,     \* texts of the editor
          MaxFailures,  \* system calls that fail
          None          \* no file

VARIABLES
  job,       \* what runs: begin_transaction, its own restore, a rollback
  pc,        \* where it stands
  base,      \* the snapshot that the file must match
  new,       \* the text it writes
  forced,    \* the restore does not look at the text it replaces
  config,    \* the file under the name, or None
  temp,      \* the file under the private name of this write, or None
  kept,      \* files left under other private names
  backup,    \* the text of backup_path, or None
  manifest,  \* what the manifest says, or None
  result,    \* how begin_transaction or the rollback ended
  edits,     \* texts the editor has written
  owed,      \* those of them that it did not replace itself
  overruled, \* those that a forced restore replaced knowingly
  failures

files  == <<config, temp, kept>>
saved  == <<backup, manifest>>
editor == <<edits, owed>>
code   == <<job, pc, base, new, forced, result>>
vars   == <<code, files, saved, editor, overruled, failures>>

Text(n) == [number |-> n, ours |-> FALSE]
Ours(n) == [number |-> n, ours |-> TRUE]
File(text, by) == [text |-> text, by |-> by]
TextOf(f) == IF f = None THEN Text(0) ELSE f.text
Mine == File(new, "helper")

Init ==
  /\ job = "none" /\ pc = "idle" /\ base = None /\ new = None /\ forced = FALSE
  /\ config \in {None, File(Text(1), "editor")}
  /\ temp = None /\ kept = {} /\ backup = None /\ manifest = None /\ result = "none"
  /\ edits = (IF config = None THEN 0 ELSE 1)
  /\ owed = (IF config = None THEN {} ELSE {1})
  /\ overruled = {} /\ failures = 0

Works == UNCHANGED failures
Fails == failures < MaxFailures /\ failures' = failures + 1
Refused(bad) == (bad /\ Works) \/ Fails

Goto(label) == pc' = label /\ UNCHANGED <<job, result>>
End(how)    == pc' = "idle" /\ job' = "none" /\ result' = how

(* An exception: begin_transaction looks whether it has to undo what it    *)
(* wrote, once it has begun to write the configuration.                    *)
Raise == CASE job = "install"  -> Goto("handler")
           [] job = "undo"     -> End("failed")
           [] job = "rollback" -> End("unrestored")

Succeed == End(CASE job = "install" -> "ok" [] job = "undo" -> "failed"
                 [] job = "rollback" -> "restored")

-------------------------------------------------------------------------------
(* begin_transaction, under its lease.                                     *)

Install ==
  /\ pc = "idle" /\ result = "none"
  /\ job' = "install" /\ pc' = "prepared" /\ base' = config
  /\ UNCHANGED <<new, forced, result, files, saved, editor, overruled, failures>>

(* mutate may refuse the text; the file is compared with what was read.    *)
Prepare ==
  /\ pc = "prepared"
  /\ IF config = base
     THEN new' = Ours(TextOf(base).number) /\ (Goto("save") \/ End("failed"))
     ELSE End("failed") /\ UNCHANGED new
  /\ UNCHANGED <<base, forced, files, saved, editor, overruled, failures>>

(* Fault: the manifest is written first.                                   *)
Save_ManifestFirst ==
  /\ pc = "save"
  /\ \/ /\ manifest = None /\ Works
        /\ Goto(IF base = None THEN "recheck" ELSE "save") /\ UNCHANGED backup
        /\ manifest' = [existed |-> base # None, original |-> TextOf(base), installed |-> new]
     \/ /\ manifest # None
        /\ Works /\ Goto("recheck") /\ backup' = TextOf(base) /\ UNCHANGED manifest
     \/ Fails /\ End("failed") /\ UNCHANGED saved
  /\ UNCHANGED <<base, new, forced, files, editor, overruled>>

(* The backup, then the manifest: new names, which nobody else writes.     *)
Save ==
  /\ pc = "save"
  /\ \/ /\ base # None /\ backup = None /\ Works
        /\ backup' = TextOf(base) /\ Goto("save") /\ UNCHANGED manifest
     \/ /\ base = None \/ backup # None
        /\ Works /\ Goto("recheck") /\ UNCHANGED backup
        /\ manifest' = [existed |-> base # None, original |-> TextOf(base), installed |-> new]
     \/ Fails /\ End("failed") /\ UNCHANGED saved
  /\ UNCHANGED <<base, new, forced, files, editor, overruled>>

(* The last look before the replacement; or the text was as wanted.        *)
Recheck ==
  /\ pc = "recheck"
  /\ \/ config = base /\ Goto("write")
     \/ config # base /\ End("failed")
     \/ End("ok")
  /\ UNCHANGED <<base, new, forced, files, saved, editor, overruled, failures>>

-------------------------------------------------------------------------------
(* _atomic_write_posix.                                                    *)

(* The private file is written when the name still holds what is expected. *)
Write ==
  /\ pc = "write"
  /\ \/ config = base /\ Works /\ temp' = Mine
        /\ Goto(IF base = None THEN "link" ELSE "exchange")
     \/ Refused(config # base) /\ Raise /\ UNCHANGED temp
  /\ UNCHANGED <<base, new, forced, config, kept, saved, editor, overruled>>

(* Fault: a rename, which replaces a file that appeared meanwhile.         *)
CommitNew_Replaces ==
  /\ pc = "link" /\ Works /\ config' = temp /\ temp' = None /\ Goto("sync")
  /\ UNCHANGED <<base, new, forced, kept, saved, editor, overruled>>

(* _commit_new: a link, which does not replace.                            *)
CommitNew ==
  /\ pc = "link" /\ temp' = None
  /\ \/ config = None /\ Works /\ config' = temp /\ Goto("sync") /\ UNCHANGED kept
     \/ /\ config = None /\ Fails
        /\ config' = temp /\ kept' = kept \cup {temp} /\ Raise
     \/ Refused(config # None) /\ Raise /\ UNCHANGED <<config, kept>>
  /\ UNCHANGED <<base, new, forced, saved, editor, overruled>>

(* Fault: a rename, after which nothing is left to compare.                *)
Exchange_Renames ==
  /\ pc = "exchange" /\ Works /\ config' = temp /\ temp' = None /\ Goto("audit")
  /\ UNCHANGED <<kept, base, new, forced, saved, editor, overruled>>

(* The exchange of _commit_existing.  It fails when the file is gone, and  *)
(* leaves the private file.                                                *)
Exchange ==
  /\ pc = "exchange"
  /\ \/ /\ config # None /\ Works
        /\ config' = temp /\ temp' = config /\ Goto("audit") /\ UNCHANGED kept
     \/ /\ Refused(config = None) /\ Raise
        /\ kept' = kept \cup {temp} /\ temp' = None /\ UNCHANGED config
  /\ UNCHANGED <<base, new, forced, saved, editor, overruled>>

(* Fault: what was displaced is not looked at.                             *)
Audit_Trusts ==
  /\ pc = "audit" /\ Works /\ temp' = None /\ Goto("sync") /\ UNCHANGED kept
  /\ UNCHANGED <<base, new, forced, config, saved, editor, overruled>>

(* What was displaced is dropped when it is the version that was read.     *)
Audit ==
  /\ pc = "audit"
  /\ \/ temp = base /\ Works /\ temp' = None /\ Goto("sync") /\ UNCHANGED kept
     \/ temp # base /\ Works /\ Goto("recover") /\ UNCHANGED <<temp, kept>>
     \/ Fails /\ Raise /\ kept' = kept \cup {temp} /\ temp' = None
  /\ UNCHANGED <<base, new, forced, config, saved, editor, overruled>>

(* It stays under a private name, and the caller is told.                  *)
Preserved == kept' = kept \cup {temp} /\ temp' = None

(* _recover_exchange: what replaced ours meanwhile is left alone.          *)
Recover ==
  /\ pc = "recover" /\ Works
  /\ \/ config = Mine /\ Goto("back") /\ UNCHANGED <<temp, kept>>
     \/ config # Mine /\ Preserved /\ Raise
  /\ UNCHANGED <<base, new, forced, config, saved, editor, overruled>>

ExchangeBack ==
  /\ pc = "back"
  /\ \/ /\ config # None /\ Works
        /\ config' = temp /\ temp' = config /\ Goto("reaudit") /\ UNCHANGED kept
     \/ Refused(config = None) /\ Preserved /\ Raise /\ UNCHANGED config
  /\ UNCHANGED <<base, new, forced, saved, editor, overruled>>

(* Fault: what the second exchange displaced is dropped unseen.            *)
Reaudit_Trusts ==
  /\ pc = "reaudit" /\ Raise /\ Works /\ temp' = None
  /\ UNCHANGED <<kept, base, new, forced, config, saved, editor, overruled>>

Reaudit ==
  /\ pc = "reaudit" /\ Raise
  /\ \/ temp = Mine /\ Works /\ temp' = None /\ UNCHANGED kept
     \/ Refused(temp # Mine) /\ Preserved
  /\ UNCHANGED <<base, new, forced, config, saved, editor, overruled>>

Sync ==
  /\ pc = "sync"
  /\ \/ Works /\ Succeed
     \/ Fails /\ Raise
  /\ UNCHANGED <<base, new, forced, files, saved, editor, overruled>>

-------------------------------------------------------------------------------
(* Undoing: the handler of begin_transaction, and rollback_transaction.    *)

(* Fault: the handler does not look.                                       *)
Handler_Leaves ==
  /\ pc = "handler" /\ End("failed") /\ UNCHANGED forced
  /\ UNCHANGED <<base, new, files, saved, editor, overruled, failures>>

(* The handler restores what it finds to be its own text, by force.        *)
Handler ==
  /\ pc = "handler"
  /\ IF config # None /\ config.text = manifest.installed
     THEN job' = "undo" /\ pc' = "restore" /\ forced' = TRUE /\ UNCHANGED result
     ELSE End("failed") /\ UNCHANGED forced
  /\ UNCHANGED <<base, new, files, saved, editor, overruled, failures>>

Rollback(force) ==
  /\ pc = "idle" /\ result \in {"ok", "failed", "killed"} /\ manifest # None
  /\ job' = "rollback" /\ pc' = "restore" /\ forced' = force
  /\ UNCHANGED <<base, new, result, files, saved, editor, overruled, failures>>

(* Fault: the text that is replaced is not compared.                       *)
Replaceable_Any(f) == TRUE

Replaceable(f) == forced \/ TextOf(f) = manifest.installed

(* _restore_original, up to the write or the deletion.                     *)
Restore ==
  /\ pc = "restore"
  /\ \/ /\ Replaceable(config)
        /\ base' = config /\ new' = manifest.original
        /\ overruled' = IF forced THEN overruled \cup {<<job, TextOf(config).number>>}
                        ELSE overruled
        /\ IF manifest.existed THEN Goto("write")
           ELSE IF config # None THEN Goto("delete")
                ELSE End(IF job = "undo" THEN "failed" ELSE "restored")
     \/ ~Replaceable(config) /\ End("refused") /\ UNCHANGED <<base, new, overruled>>
  /\ UNCHANGED <<forced, files, saved, editor, failures>>

(* _delete_posix: the file is moved away, looked at, and dropped.          *)
Delete ==
  /\ pc = "delete"
  /\ \/ config # None /\ Works /\ temp' = config /\ config' = None /\ Goto("inspect")
     \/ Refused(config = None) /\ Raise /\ UNCHANGED <<config, temp>>
  /\ UNCHANGED <<base, new, forced, kept, saved, editor, overruled>>

Inspect ==
  /\ pc = "inspect"
  /\ \/ temp = base /\ Works /\ temp' = None /\ Goto("sync") /\ UNCHANGED <<config, kept>>
     \/ /\ Refused(temp # base) /\ Raise
        /\ temp' = None
        /\ IF config = None THEN config' = temp /\ UNCHANGED kept
           ELSE kept' = kept \cup {temp} /\ UNCHANGED config
  /\ UNCHANGED <<base, new, forced, saved, editor, overruled>>

-------------------------------------------------------------------------------
(* The rest of the world.                                                  *)

(* The process is killed; the lease goes with it.                          *)
Killed ==
  /\ pc # "idle" /\ End("killed") /\ Fails
  /\ kept' = (IF temp = None THEN kept ELSE kept \cup {temp}) /\ temp' = None
  /\ UNCHANGED <<base, new, forced, config, saved, editor, overruled>>

Forget == owed \ {TextOf(config).number}

(* The editor has seen the text that it replaces, in place or by a rename. *)
Edit ==
  /\ edits < MaxEdits /\ edits' = edits + 1
  /\ config' = File(Text(edits + 1), "editor") /\ owed' = Forget \cup {edits + 1}
  /\ UNCHANGED <<code, temp, kept, saved, overruled, failures>>

Remove ==
  /\ config # None /\ edits < MaxEdits /\ edits' = edits + 1
  /\ config' = None /\ owed' = Forget
  /\ UNCHANGED <<code, temp, kept, saved, overruled, failures>>

-------------------------------------------------------------------------------
Next == \/ Install \/ Prepare \/ Save \/ Recheck \/ Write \/ CommitNew
        \/ Exchange \/ Audit \/ Recover \/ ExchangeBack \/ Reaudit \/ Sync
        \/ Handler \/ \E force \in BOOLEAN : Rollback(force)
        \/ Restore \/ Delete \/ Inspect \/ Killed \/ Edit \/ Remove

Spec == Init /\ [][Next]_vars

-------------------------------------------------------------------------------
(* Properties.                                                             *)

Texts == [number : 0 .. MaxEdits, ours : BOOLEAN]
AnyFile == [text : Texts, by : {"editor", "helper"}]

TypeOK ==
  /\ job \in {"none", "install", "undo", "rollback"}
  /\ pc \in {"idle", "prepared", "save", "recheck", "write", "link", "exchange",
             "audit", "recover", "back", "reaudit", "sync", "handler", "restore",
             "delete", "inspect",
             "replace", "unreplaced", "quarantine"}  \* on Windows (WindowsConfig)
  /\ config \in AnyFile \cup {None} /\ temp \in AnyFile \cup {None}
  /\ base \in AnyFile \cup {None} /\ kept \subseteq AnyFile
  /\ new \in Texts \cup {None} /\ backup \in Texts \cup {None}
  /\ result \in {"none", "ok", "failed", "killed", "refused", "restored",
                "unrestored"}
  /\ owed \subseteq 1 .. MaxEdits /\ edits \in 0 .. MaxEdits
  /\ forced \in BOOLEAN /\ failures \in 0 .. MaxFailures
  /\ pc \in {"audit", "recover", "back", "reaudit", "inspect"} => temp # None

(* Somewhere on the disk is text n, alone or with the registration.        *)
OnDisk(n) == \E f \in {config, temp} \cup kept : f # None /\ f.text.number = n

(* A text of the editor is not lost to the transaction or the rollback,    *)
(* wherever they are interrupted, unless a forced restore was told to      *)
(* replace it (configure.py:281-350).                                      *)
EditsKept == \A n \in owed :
  OnDisk(n) \/ backup = Text(n) \/ \E j \in {"undo", "rollback"} : <<j, n>> \in overruled

(* "refusing to overwrite newer edits": only an operator who forces a      *)
(* rollback replaces a newer text (configure.py:414).                      *)
NewerEditsKept == \A n \in owed :
  OnDisk(n) \/ backup = Text(n) \/ <<"rollback", n>> \in overruled

(* A transaction that says it failed has not left its text in place, but   *)
(* for one that could not be undone either, or was killed: every further   *)
(* step that failed is one more of failures (configure.py:400-407).        *)
FailureUndone ==
  result = "failed" /\ pc = "idle" /\ failures <= 1 /\ config # None
    => ~config.text.ours

(* Whatever holds the text that a transaction replaced is there until that *)
(* transaction or its rollback is over: a text that can be restored        *)
(* (configure.py:389-393 before :401).                                     *)
RollbackPossible ==
  /\ manifest # None /\ manifest.existed => backup = manifest.original
  /\ config # None /\ config.by = "helper" => manifest # None
================================================================================
