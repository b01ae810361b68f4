----------------------------- MODULE WindowsJournal ----------------------------
(***************************************************************************)
(* The store of the mutation journal on Windows (_WindowsStore in          *)
(* gpt_mcp/transaction_journal.py), over the same state and for the same   *)
(* operations as JournalStore.  A file that is written is open for nobody  *)
(* else, is renamed and removed by its handle, and goes when that handle   *)
(* is closed; an operation that finds the store in use fails, as does one  *)
(* that meets a file which another program has open.  The code does not    *)
(* flush the directory: what lasts is up to NTFS, and no power is lost     *)
(* here.                                                                   *)
(***************************************************************************)
EXTENDS JournalStore

(* What is in the directory is taken to last.                              *)
Logged == disk' = Directory(names', temps')

EnterWindows(p) ==
  /\ holder = None
  /\ Operations(p) /\ UNCHANGED <<store, ghosts>>

(* __enter__: the lock is open in another process; the operation fails,    *)
(* and the identity of a tool call is used up.                             *)
Busy(p) ==
  /\ holder # None /\ work[p] = Idle
  /\ \E i \in Ids \ used : used' = used \cup {i}
  /\ UNCHANGED <<store, holder, work, ghosts>>

(* names: the temporaries are removed by their handles.                    *)
SweepWindows(p) ==
  /\ work[p].at \in {"record", "pending"}
  /\ \/ \E i \in Ids :
          /\ temps[i] # None
          /\ temps' = [temps EXCEPT ![i] = None]
          /\ UNCHANGED <<work, holder>>
     \/ ~Swept /\ Returns(p) /\ UNCHANGED temps
  /\ UNCHANGED <<names, used, ghosts>> /\ Logged

(* The handle that was to be published is removed with its file, unless    *)
(* that fails too.                                                         *)
Dropped(p) ==
  /\ Returns(p)
  /\ \/ temps' = [temps EXCEPT ![It(p)] = None]
     \/ UNCHANGED temps

OpenMutable(p) ==
  /\ work[p].at = "create"
  /\ \/ temps' = [temps EXCEPT ![It(p)] = Partial] /\ Goto(p, "fill")
     \/ Returns(p) /\ UNCHANGED temps
  /\ UNCHANGED <<names, used, ghosts>> /\ Logged

FillWindows(p) ==
  /\ work[p].at = "fill"
  /\ \/ temps' = [temps EXCEPT ![It(p)] = Record(work[p].text)] /\ Goto(p, "publish")
     \/ Dropped(p)
  /\ UNCHANGED <<names, used, ghosts>> /\ Logged

(* _publish: what is under the name is read again, and the handle renamed. *)
PublishWindows(p) ==
  /\ work[p].at = "publish"
  /\ \/ /\ (names[It(p)] = None) = (work[p].op = "record")
        /\ names' = [names EXCEPT ![It(p)] = temps[It(p)]]
        /\ temps' = [temps EXCEPT ![It(p)] = None]
        /\ Goto(p, "sync")
     \/ Dropped(p) /\ UNCHANGED names
  /\ UNCHANGED <<used, ghosts>> /\ Logged

(* Fault: a failure to close the directory is treated like one before the  *)
(* handle was renamed: what was published is removed.                      *)
CloseParent_Deletes(p) ==
  /\ work[p].at = "sync"
  /\ \/ Confirm(p) /\ UNCHANGED names
     \/ /\ Returns(p) /\ UNCHANGED <<confirmed, warned>>
        /\ names' = [names EXCEPT ![It(p)] = None]
  /\ UNCHANGED <<temps, used, gone>> /\ Logged

(* The directory is closed; when that fails the record is published, and   *)
(* the caller is told so.                                                  *)
CloseParent(p) ==
  /\ work[p].at = "sync"
  /\ \/ Confirm(p)
     \/ Returns(p) /\ UNCHANGED <<confirmed, warned>>
  /\ UNCHANGED <<store, used, gone>>

(* acknowledge: each record is opened again, compared and removed.         *)
RemoveWindows(p) ==
  /\ work[p].at = "acknowledge"
  /\ \E i \in work[p].ids :
       /\ work' = [work EXCEPT ![p].ids = @ \ {i}, ![p].removed =
                                 IF names[i] = None THEN @ ELSE @ \cup {i}]
       /\ names' = [names EXCEPT ![i] = None]
       /\ gone' = [gone EXCEPT !.tried =
                     IF names[i] = None THEN @ ELSE @ \cup {i}]
  /\ UNCHANGED <<temps, holder, used, confirmed, warned>> /\ Logged

RemoveFails(p) ==
  /\ work[p].at = "acknowledge" /\ work[p].ids # {}
  /\ Returns(p)
  /\ UNCHANGED <<store, used, ghosts>>

-------------------------------------------------------------------------------
StepWindows(p) ==
  \/ EnterWindows(p) \/ Busy(p) \/ SweepWindows(p) \/ Pending(p) \/ RecordIntent(p)
  \/ AppendWarning(p) \/ OpenMutable(p) \/ FillWindows(p) \/ PublishWindows(p)
  \/ CloseParent(p) \/ RemoveWindows(p) \/ RemoveFails(p) \/ Removed(p) \/ Killed(p)

NextWindows == \E p \in Procs : StepWindows(p)

SpecWindows == Init /\ [][NextWindows]_vars
================================================================================
