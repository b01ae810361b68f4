------------------------------ MODULE JournalStore -----------------------------
(***************************************************************************)
(* The store of the mutation journal on POSIX (_PosixStore and the         *)
(* operations on it in gpt_mcp/transaction_journal.py): one file for each  *)
(* record, published by renaming a temporary, under a lock that the system *)
(* frees when its holder ends.                                             *)
(*                                                                         *)
(* Several processes use the store, each of them may be killed between any *)
(* two steps, and the machine may lose its power: the last changes of the  *)
(* directory that were not synchronized may then be gone.                  *)
(***************************************************************************)
EXTENDS Integers, FiniteSets

CONSTANTS Procs, Ids, Warnings,
          MaxRecords,   \* MAX_RECORDS
          None

ASSUME StoreAssumption ==
  /\ MaxRecords \in Nat \ {0} /\ None \notin Procs
  /\ None \notin [whole : BOOLEAN, warnings : SUBSET Warnings]

VARIABLES
  names,     \* the record under a name, or None
  temps,     \* what is under its temporary, or None
  disk,      \* both, as they would be after a loss of power
  holder,    \* the process that holds the lock file, or None
  work,      \* what each process is doing
  used,      \* ids that were given to a tool call
  confirmed, \* records whose intent was confirmed (not in the code)
  warned,    \* warnings that were confirmed, by record (not in the code)
  gone       \* records whose removal was attempted, and reported (not in the code)

store  == <<names, temps, disk>>
ghosts == <<confirmed, warned, gone>>
vars   == <<store, holder, work, used, ghosts>>

-------------------------------------------------------------------------------
(* A record is what it warns of; a file may not be written to its end.     *)
Files   == [whole : BOOLEAN, warnings : SUBSET Warnings]
Partial == [whole |-> FALSE, warnings |-> {}]
Record(ws) == [whole |-> TRUE, warnings |-> ws]

Whole(f) == f # None /\ f.whole

(* What a synchronization of the directory makes last.                     *)
Directory(n, t) == [i \in Ids |-> [name |-> n[i], temp |-> t[i]]]

Published == {i \in Ids : names[i] # None}

(* Where an operation stands, the records it is about, the warnings it     *)
(* adds or writes, and the records it has removed.                         *)
Idle == [at |-> "idle", op |-> "none", ids |-> {}, text |-> {}, removed |-> {}]

Init ==
  /\ names = [i \in Ids |-> None] /\ temps = [i \in Ids |-> None]
  /\ disk = Directory(names, temps)
  /\ holder = None /\ work = [p \in Procs |-> Idle] /\ used = {}
  /\ confirmed = {} /\ warned = [i \in Ids |-> {}]
  /\ gone = [tried |-> {}, told |-> {}]

Goto(p, label) == work' = [work EXCEPT ![p].at = label] /\ UNCHANGED holder

(* The operation is over: its descriptors, and with them the lock, go.     *)
Returns(p) == work' = [work EXCEPT ![p] = Idle] /\ holder' = None

It(p) == CHOOSE i \in work[p].ids : TRUE

-------------------------------------------------------------------------------
Opens(p, op, ids, text) ==
  /\ work[p] = Idle
  /\ work' = [work EXCEPT ![p] = [at |-> op, op |-> op, ids |-> ids,
                                  text |-> text, removed |-> {}]]
  /\ holder' = p

(* The operations of the journal: the intent of a tool call, whose id is   *)
(* new; a warning of one; what is pending; an acknowledgement.             *)
Operations(p) ==
  \/ \E i \in Ids \ used : Opens(p, "record", {i}, {}) /\ used' = used \cup {i}
  \/ \E i \in confirmed, w \in Warnings : Opens(p, "warn", {i}, {w}) /\ UNCHANGED used
  \/ \E is \in SUBSET Published :
       is # {} /\ Opens(p, "acknowledge", is, {}) /\ UNCHANGED used
  \/ Opens(p, "pending", {}, {}) /\ UNCHANGED used

(* Fault: the lock is not asked for.                                       *)
Enter_Unlocked(p) ==
  Operations(p) /\ UNCHANGED <<store, ghosts>>

(* _PosixStore.__enter__, which waits for the lock.                        *)
Enter(p) ==
  /\ holder = None
  /\ Operations(p) /\ UNCHANGED <<store, ghosts>>

(* names: a temporary that is there belongs to nobody any more; it is      *)
(* removed, and the directory synchronized, or that fails.                 *)
Sweep(p) ==
  /\ work[p].at \in {"record", "pending"}
  /\ \E i \in Ids :
       /\ temps[i] # None
       /\ temps' = [temps EXCEPT ![i] = None]
       /\ \/ /\ disk' = Directory(names, temps')
             /\ UNCHANGED <<work, holder>>
          \/ Returns(p) /\ UNCHANGED disk
  /\ UNCHANGED <<names, used, ghosts>>

Swept == \A i \in Ids : temps[i] = None

(* pending_records, after names.                                           *)
Pending(p) ==
  /\ work[p].at = "pending" /\ Swept
  /\ Returns(p)
  /\ UNCHANGED <<store, used, ghosts>>

(* Fault: the records are counted up to the limit, not below it.           *)
Full_OneMore == Cardinality(Published) > MaxRecords
Full == Cardinality(Published) >= MaxRecords

(* record_intent, after names.                                             *)
RecordIntent(p) ==
  /\ work[p].at = "record" /\ Swept
  /\ IF Full THEN Returns(p) ELSE Goto(p, "create")
  /\ UNCHANGED <<store, used, ghosts>>

(* append_warning, which does not look at the temporaries.                 *)
AppendWarning(p) ==
  /\ work[p].at = "warn"
  /\ LET now == names[It(p)] IN
     \/ ~Whole(now) /\ Returns(p)
     \/ /\ Whole(now)
        /\ work' = [work EXCEPT ![p].text = @ \cup now.warnings,
                                ![p].at = "create"]
        /\ UNCHANGED holder
  /\ UNCHANGED <<store, used, ghosts>>

(* Fault: the file is written under its own name.                          *)
Create_InPlace(p) ==
  /\ work[p].at = "create"
  /\ names' = [names EXCEPT ![It(p)] = Partial]
  /\ temps' = [temps EXCEPT ![It(p)] = Partial]
  /\ Goto(p, "fill")
  /\ UNCHANGED <<disk, used, ghosts>>

(* write: the temporary is opened or taken over, and truncated.            *)
Create(p) ==
  /\ work[p].at = "create"
  /\ temps' = [temps EXCEPT ![It(p)] = Partial]
  /\ Goto(p, "fill")
  /\ UNCHANGED <<names, disk, used, ghosts>>

(* It is written and synchronized, or that fails: the temporary is then    *)
(* left, as nothing is known of it that it could be compared with.         *)
Fill(p) ==
  /\ work[p].at = "fill"
  /\ \/ temps' = [temps EXCEPT ![It(p)] = Record(work[p].text)] /\ Goto(p, "publish")
     \/ Returns(p) /\ UNCHANGED temps
  /\ UNCHANGED <<names, disk, used, ghosts>>

(* _publish: the rename, which does not replace the first time; or it      *)
(* fails, and the temporary is removed.                                    *)
Publish(p) ==
  /\ work[p].at = "publish"
  /\ temps' = [temps EXCEPT ![It(p)] = None]
  /\ \/ /\ work[p].op = "record" => names[It(p)] = None
        /\ names' = [names EXCEPT ![It(p)] = temps[It(p)]]
        /\ Goto(p, "sync")
     \/ Returns(p) /\ UNCHANGED names
  /\ UNCHANGED <<disk, used, ghosts>>

(* The operation succeeds: the caller may rely on it.                      *)
Confirm(p) ==
  /\ Returns(p)
  /\ confirmed' = confirmed \cup work[p].ids
  /\ warned' = [warned EXCEPT ![It(p)] = @ \cup work[p].text]

(* Fault: the directory is not synchronized.                               *)
SyncDirectory_Later(p) ==
  /\ work[p].at = "sync"
  /\ Confirm(p)
  /\ UNCHANGED <<store, used, gone>>

(* The directory is synchronized; when that fails the record is published, *)
(* and the caller is told that it may not last.                            *)
SyncDirectory(p) ==
  /\ work[p].at = "sync"
  /\ \/ disk' = Directory(names, temps) /\ Confirm(p)
     \/ Returns(p) /\ UNCHANGED <<disk, confirmed, warned>>
  /\ UNCHANGED <<names, temps, used, gone>>

(* acknowledge: the records are removed one by one, each of them with a    *)
(* synchronization that may fail; then nothing is reported as removed.     *)
Remove(p) ==
  /\ work[p].at = "acknowledge"
  /\ \E i \in work[p].ids :
       \/ /\ names[i] = None
          /\ work' = [work EXCEPT ![p].ids = @ \ {i}]
          /\ UNCHANGED <<names, gone, holder>>
       \/ /\ Whole(names[i])
          /\ names' = [names EXCEPT ![i] = None]
          /\ gone' = [gone EXCEPT !.tried = @ \cup {i}]
          /\ work' = [work EXCEPT ![p].ids = @ \ {i}, ![p].at = "syncRemoval",
                                  ![p].removed = @ \cup {i}]
          /\ UNCHANGED holder
       \/ Returns(p) /\ UNCHANGED <<names, gone>>
  /\ UNCHANGED <<temps, disk, used, confirmed, warned>>

(* Fault: the list is reported though the directory was not synchronized.  *)
SyncRemoval_Later(p) ==
  /\ work[p].at = "syncRemoval"
  /\ Goto(p, "acknowledge")
  /\ UNCHANGED <<store, used, ghosts>>

SyncRemoval(p) ==
  /\ work[p].at = "syncRemoval"
  /\ \/ disk' = Directory(names, temps) /\ Goto(p, "acknowledge")
     \/ Returns(p) /\ UNCHANGED disk
  /\ UNCHANGED <<names, temps, used, ghosts>>

Removed(p) ==
  /\ work[p].at = "acknowledge" /\ work[p].ids = {}
  /\ Returns(p)
  /\ gone' = [gone EXCEPT !.told = @ \cup work[p].removed]
  /\ UNCHANGED <<store, used, confirmed, warned>>

-------------------------------------------------------------------------------
(* What befalls the processes and the machine.                             *)

Killed(p) ==
  /\ work[p] # Idle
  /\ Returns(p)
  /\ UNCHANGED <<store, used, ghosts>>

WriteBack ==
  /\ disk # Directory(names, temps)
  /\ disk' = Directory(names, temps)
  /\ UNCHANGED <<names, temps, holder, work, used, ghosts>>

PowerLoss ==
  /\ names' = [i \in Ids |-> disk[i].name] /\ temps' = [i \in Ids |-> disk[i].temp]
  /\ holder' = None /\ work' = [p \in Procs |-> Idle]
  /\ UNCHANGED <<disk, used, ghosts>>

-------------------------------------------------------------------------------
Step(p) == \/ Enter(p) \/ Sweep(p) \/ Pending(p) \/ RecordIntent(p)
           \/ AppendWarning(p) \/ Create(p) \/ Fill(p) \/ Publish(p)
           \/ SyncDirectory(p) \/ Remove(p) \/ SyncRemoval(p) \/ Removed(p)
           \/ Killed(p)

Next == (\E p \in Procs : Step(p)) \/ WriteBack \/ PowerLoss

Spec == Init /\ [][Next]_vars

-------------------------------------------------------------------------------
(* Properties.                                                             *)

Labels == {"idle", "record", "warn", "acknowledge", "pending", "create", "fill",
           "publish", "sync", "syncRemoval"}

TypeOK ==
  /\ names \in [Ids -> Files \cup {None}] /\ temps \in [Ids -> Files \cup {None}]
  /\ disk \in [Ids -> [name : Files \cup {None}, temp : Files \cup {None}]]
  /\ holder \in Procs \cup {None}
  /\ work \in [Procs -> [at : Labels,
                         op : {"none", "record", "warn", "acknowledge", "pending"},
                         ids : SUBSET Ids, text : SUBSET Warnings,
                         removed : SUBSET Ids]]
  /\ \A p \in Procs : work[p] # Idle => holder = p
  /\ used \subseteq Ids /\ confirmed \subseteq used
  /\ warned \in [Ids -> SUBSET Warnings]
  /\ gone \in [tried : SUBSET Ids, told : SUBSET Ids]

(* Whatever was killed, and whenever the power was lost, what is under the *)
(* name of a record is a whole record: a listing never fails for a record  *)
(* that was cut off (transaction_journal.py:1, 243-275).                   *)
RecordsWhole == \A i \in Ids : names[i] # Partial /\ disk[i].name # Partial

(* An intent that was confirmed, with every warning that was confirmed, is *)
(* there until it is acknowledged, also after a loss of power: a tool      *)
(* changes its file only after the confirmation (tool_child.py:162-170).   *)
ConfirmedStays ==
  \A i \in confirmed \ gone.tried :
    /\ names[i] # None /\ disk[i].name # None
    /\ warned[i] \subseteq names[i].warnings
    /\ warned[i] \subseteq disk[i].name.warnings

(* A record that was reported as removed does not come back, and so cannot *)
(* block a later delegation (transaction_journal.py:481-495).              *)
RemovedStaysAway ==
  \A i \in gone.told : names[i] = None /\ disk[i].name = None

(* The journal never has more records than a listing accepts, which would  *)
(* make every later operation fail (transaction_journal.py:217-225, 431).  *)
NeverOverfull == Cardinality(Published) <= MaxRecords
================================================================================
