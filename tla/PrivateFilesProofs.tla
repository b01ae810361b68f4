---------------------------- MODULE PrivateFilesProofs ---------------------------
(***************************************************************************)
(* Proofs about protocols that MCPrivateFiles puts side by side, for all   *)
(* values of the constants: any number of processes, records and kinds of  *)
(* warnings, any limit, wherever processes are killed and calls fail.      *)
(*                                                                         *)
(* The journal: the invariant says the same of the names as they are and   *)
(* as they would be after a loss of power (View), so that such a loss      *)
(* cannot break it; of an operation it says what it has found under the    *)
(* lock (Doing), which nobody else can have changed since.                 *)
(*                                                                         *)
(* The logs: what a server has appended of its record is the end of its    *)
(* file (Appending) as long as it holds the lock, and nothing is there of  *)
(* a record that nobody has begun (Untouched).                             *)
(*                                                                         *)
(* The entry of Codex: what an installation accepts is settled by it.      *)
(*                                                                         *)
(* The configuration of Codex: a job's manifest says what it found and     *)
(* what it wrote (ManifestRight), of which the entry is a part nowhere     *)
(* else (OursRight); whatever it replaces is saved or was compared with    *)
(* what it had written (WhatIsSaved).  On Windows, where a replacement can *)
(* stop half way, the last text of the editor is at the name (NameStays).  *)
(*                                                                         *)
(* The installers: each run is alone on its host (FoundRight), and knows   *)
(* what it has to put back (AloneRight) and whether the host may start its *)
(* generation (OwnRight), so that it never deletes one that is started.    *)
(***************************************************************************)
EXTENDS MCPrivateFiles, Sequences, FiniteSetTheorems, WellFoundedInduction, TLAPS

-------------------------------------------------------------------------------
(* The journal of mutations.                                               *)

(* The names as they would be after a loss of power.                       *)
Lasting == [i \in Ids |-> disk[i].name]

Under(n) == {i \in Ids : n[i] # None}

(* What is true of the names, as they are and as they would be then.       *)
View(n) ==
  /\ \A i \in Under(n) : i \in used /\ n[i].whole /\ warned[i] \subseteq n[i].warnings
  /\ \A i \in confirmed \ gone.tried : n[i] # None
  /\ \A i \in gone.told : n[i] = None
  /\ IsFiniteSet(Under(n)) /\ Cardinality(Under(n)) <= MaxRecords

History ==
  /\ gone.told \subseteq gone.tried /\ gone.tried \subseteq used
  /\ \A i \in Ids \ confirmed : warned[i] = {}

Writes == {"create", "fill", "publish"}

(* A new intent has neither a record nor a history, and room.              *)
Recording(p) == LET i == It(p) IN
  /\ i \in used /\ i \notin gone.tried
  /\ work[p].at # "sync" => names[i] = None /\ disk[i].name = None /\ i \notin confirmed
  /\ work[p].at \in Writes => Cardinality(Published) < MaxRecords

(* The new text of a record warns of all that the old one does.            *)
Warning(p) == LET i == It(p) IN
  work[p].at \in Writes => names[i] # None /\ names[i].warnings \subseteq work[p].text

Acknowledging(p) == \A i \in work[p].removed :
  /\ names[i] = None /\ i \in gone.tried
  /\ work[p].at = "acknowledge" => disk[i].name = None

(* Where an operation stands in its code, and what it has found or done.   *)
Doing(p) == LET w == work[p] IN
  /\ w.at = "idle" => w = Idle
  /\ w.op \in {"record", "warn"} => w.ids = {It(p)}
  /\ w.at \in {"record", "warn", "pending"} => w.op = w.at
  /\ w.at \in Writes \cup {"sync"} => w.op \in {"record", "warn"}
  /\ w.at \in {"acknowledge", "syncRemoval"} => w.op = "acknowledge"
  /\ w.op = "record" => Recording(p)
  /\ w.op = "warn" => Warning(p)
  /\ w.op = "acknowledge" => Acknowledging(p)
  /\ w.at = "publish" => temps[It(p)] = Record(w.text)
  /\ w.at = "sync" => names[It(p)] = Record(w.text)

IInv == TypeOK /\ View(names) /\ View(Lasting) /\ History /\ \A p \in Procs : Doing(p)

WindowsInv == IInv /\ disk = Directory(names, temps)

-------------------------------------------------------------------------------
(* Nothing is pending in the beginning.                                    *)
LEMMA JournalInit == Init => WindowsInv
<1> SUFFICES ASSUME Init PROVE WindowsInv
  OBVIOUS
<1> USE DEF Init, Directory
<1>1. TypeOK
  BY DEF TypeOK, Idle, Labels
<1>2. Under(names) = {} /\ Under(Lasting) = {}
  BY DEF Under, Lasting
<1>3. IsFiniteSet({}) /\ Cardinality({}) = 0
  BY FS_EmptySet
<1>4. View(names) /\ View(Lasting)
  BY <1>2, <1>3, StoreAssumption DEF View
<1>5. History /\ \A p \in Procs : Doing(p)
  BY DEF History, Doing, Idle, Writes
<1> QED
  BY <1>1, <1>4, <1>5 DEF IInv, WindowsInv

(* The record of an operation is the one it was given.                     *)
LEMMA ItIs == ASSUME NEW p, NEW i, work[p].ids = {i} PROVE It(p) = i
BY DEF It

LEMMA ItStays == ASSUME NEW p, work'[p].ids = work[p].ids PROVE It(p)' = It(p)
BY DEF It

LEMMA ItIsNow == ASSUME NEW p, NEW i, work'[p].ids = {i} PROVE It(p)' = i
BY DEF It

(* Who has an operation has the lock, and all others have none.            *)
LEMMA Alone ==
  ASSUME TypeOK, NEW p \in Procs, work[p] # Idle
  PROVE  holder = p /\ \A q \in Procs \ {p} : work[q] = Idle
BY DEF TypeOK

LEMMA IdleIsRight == ASSUME NEW p, work[p] = Idle PROVE Doing(p)
BY DEF Doing, Idle, Writes

LEMMA IdleStaysRight == ASSUME NEW p, work'[p] = Idle PROVE Doing(p)'
BY DEF Doing, Idle, Writes

(* When an operation is over, nothing is under way.                        *)
LEMMA Over ==
  ASSUME TypeOK, NEW p \in Procs, work[p] # Idle, Returns(p)
  PROVE  /\ work' = [q \in Procs |-> Idle] /\ holder' = None
         /\ \A q \in Procs : Doing(q)'
<1>1. work' = [q \in Procs |-> Idle] /\ holder' = None
  BY Alone DEF Returns, TypeOK
<1> QED
  BY <1>1, IdleStaysRight

(* While one is under way, the others do nothing.                          *)
LEMMA OnlyMine ==
  ASSUME TypeOK, NEW p \in Procs, work[p] # Idle,
         NEW w, work' = [work EXCEPT ![p] = w], Doing(p)'
  PROVE  work'[p] = w /\ \A q \in Procs : Doing(q)'
<1>1. work'[p] = w /\ \A q \in Procs \ {p} : work'[q] = Idle
  BY Alone DEF TypeOK
<1> QED
  BY <1>1, IdleStaysRight

-------------------------------------------------------------------------------
(* The names and what would last, when nothing is added or removed.        *)
LEMMA ViewStays ==
  ASSUME View(names), View(Lasting), names' = names \/ names' = Lasting,
         Lasting' = Lasting \/ Lasting' = names, 
         used \subseteq used', UNCHANGED ghosts
  PROVE  View(names)' /\ View(Lasting)'
BY DEF View, Under, ghosts

LEMMA HistoryStays == ASSUME History, used \subseteq used',
  UNCHANGED ghosts PROVE History'
BY DEF History, ghosts

LEMMA Synchronized == ASSUME TypeOK, disk' = Directory(names,
  temps') PROVE Lasting' = names
BY DEF Lasting, Directory, TypeOK

-------------------------------------------------------------------------------
(* An operation begins.                                                    *)
LEMMA EnterStep ==
  ASSUME IInv, NEW p \in Procs, holder = None, Operations(p),
           UNCHANGED <<store, ghosts>>
  PROVE  IInv'
<1> USE DEF Operations, Opens, store, ghosts
<1>1. \A q \in Procs : work[q] = Idle
  BY StoreAssumption DEF IInv, TypeOK
<1>2. TypeOK'
  <2>1. /\ work' \in [Procs -> [at : Labels,
                              op : {"none", "record", "warn", "acknowledge", "pending"},
                              ids : SUBSET Ids, text : SUBSET Warnings,
                              removed : SUBSET Ids]]
        /\ used' \subseteq Ids /\ used \subseteq used' /\ holder' = p
    BY DEF IInv, TypeOK, Labels, Published
  <2>2. \A q \in Procs \ {p} : work'[q] = Idle
    BY <1>1 DEF IInv, TypeOK
  <2> QED
    BY <2>1, <2>2 DEF IInv, TypeOK
<1>3. View(names)' /\ View(Lasting)' /\ History'
  BY ViewStays, HistoryStays DEF IInv, Lasting
<1>4. \A q \in Procs \ {p} : work'[q] = Idle
  BY <1>1 DEF IInv, TypeOK
<1>5. Doing(p)'
  <2>1. ASSUME NEW i \in Ids \ used, Opens(p, "record", {i}, {}), used' = used \cup {i}
        PROVE  Doing(p)'
    <3>1. work'[p] = [at |-> "record", op |-> "record", ids |-> {i}, text |-> {},
                      removed |-> {}]
      BY <2>1 DEF IInv, TypeOK
    <3>2. It(p)' = i
      <4>1. work'[p].ids = {i}
        BY <3>1
      <4> QED
        BY <4>1, ItIsNow
    <3>3. names[i] = None /\ disk[i].name = None /\ i \notin gone.tried
            /\ i \notin confirmed
      BY <2>1 DEF IInv, View, Under, Lasting, History, TypeOK
    <3> QED
      BY <2>1, <3>1, <3>2, <3>3 DEF Doing, Recording, Writes
  <2>2. ASSUME NEW i \in confirmed, NEW w \in Warnings, Opens(p, "warn", {i}, {w})
        PROVE  Doing(p)'
    <3>1. work'[p] = [at |-> "warn", op |-> "warn", ids |-> {i}, text |-> {w},
            removed |-> {}]
      BY <2>2 DEF IInv, TypeOK
    <3>2. It(p)' = i
      <4>1. work'[p].ids = {i}
        BY <3>1
      <4> QED
        BY <4>1, ItIsNow
    <3> QED
      BY <3>1, <3>2 DEF Doing, Warning, Writes
  <2>3. ASSUME NEW is, Opens(p, "acknowledge", is, {}) \/ Opens(p, "pending", is, {})
        PROVE  Doing(p)'
    BY <2>3 DEF Doing, Acknowledging, Writes, IInv, TypeOK
  <2> QED
    BY <2>1, <2>2, <2>3
<1> QED
  BY <1>2, <1>3, <1>4, <1>5, IdleStaysRight DEF IInv

(* An operation ends, or only its temporaries change.                      *)
LEMMA OverStep ==
  ASSUME IInv, NEW p \in Procs, work[p] # Idle, Returns(p),
         UNCHANGED <<names, used, ghosts>>,
         temps' \in [Ids -> Files \cup {None}],
         disk' = disk \/ disk' = Directory(names, temps')
  PROVE  IInv'
<1> USE DEF ghosts
<1>1. work' = [q \in Procs |-> Idle] /\ holder' = None /\ \A q \in Procs : Doing(q)'
  BY Over DEF IInv
<1>2. TypeOK'
  <2>1. work' \in [Procs -> [at : Labels,
                             op : {"none", "record", "warn", "acknowledge", "pending"},
                             ids : SUBSET Ids, text : SUBSET Warnings,
                             removed : SUBSET Ids]]
        /\ \A q \in Procs : work'[q] = Idle
    BY <1>1 DEF Idle, Labels
  <2>2. disk' \in [Ids -> [name : Files \cup {None}, temp : Files \cup {None}]]
    BY DEF Directory, IInv, TypeOK
  <2> QED
    BY <1>1, <2>1, <2>2 DEF IInv, TypeOK
<1>3. View(names)' /\ View(Lasting)' /\ History'
  BY Synchronized, ViewStays, HistoryStays DEF IInv, Lasting
<1> QED
  BY <1>1, <1>2, <1>3 DEF IInv

(* An operation moves on, or only its temporaries change.                  *)
LEMMA OnStep ==
  ASSUME IInv, NEW p \in Procs, work[p] # Idle,
           UNCHANGED <<names, used, ghosts, holder>>,
         temps' \in [Ids -> Files \cup {None}],
         disk' = disk \/ disk' = Directory(names, temps'),
         NEW w \in [at : Labels,
                    op : {"none", "record", "warn", "acknowledge", "pending"},
                    ids : SUBSET Ids, text : SUBSET Warnings, removed : SUBSET Ids],
         work' = [work EXCEPT ![p] = w], Doing(p)'
  PROVE  IInv'
<1> USE DEF ghosts
<1>1. TypeOK'
  <2>1. disk' \in [Ids -> [name : Files \cup {None}, temp : Files \cup {None}]]
    BY DEF Directory, IInv, TypeOK
  <2>2. \A q \in Procs : work'[q] # Idle => holder' = q
    BY Alone DEF IInv, TypeOK
  <2> QED
    BY <2>1, <2>2 DEF IInv, TypeOK
<1>2. View(names)' /\ View(Lasting)' /\ History'
  BY Synchronized, ViewStays, HistoryStays DEF IInv, Lasting
<1> QED
  BY <1>1, <1>2, OnlyMine DEF IInv

(* What the directory makes last leaves an operation where it is.          *)
LEMMA DoingStays ==
  ASSUME IInv, NEW p \in Procs, UNCHANGED <<names, ghosts>>, used \subseteq used',
         work'[p] = work[p], disk' = disk \/ disk' = Directory(names, temps'),
         work[p].at = "publish" => temps' = temps
  PROVE  Doing(p)'
<1> USE DEF ghosts
<1>1. Lasting' = Lasting \/ Lasting' = names
  BY Synchronized DEF IInv, Lasting
<1>2. \A i \in Ids : disk'[i].name = disk[i].name \/ disk'[i].name = names[i]
  BY DEF Directory
<1>3. It(p)' = It(p)
  BY ItStays
<1>4. Doing(p)
  BY DEF IInv
<1>5. work[p].ids \subseteq Ids /\ work[p].removed \subseteq Ids
  BY DEF IInv, TypeOK
<1>6. ASSUME work[p].op = "record" PROVE Recording(p)'
  <2>1. Recording(p) /\ It(p) \in Ids
    BY <1>4, <1>5, <1>6 DEF Doing
  <2> QED
    BY <1>2, <1>3, <2>1 DEF Recording, Writes, Published
<1>7. ASSUME work[p].op = "warn" PROVE Warning(p)'
  BY <1>3, <1>4, <1>7 DEF Doing, Warning, Writes
<1>8. ASSUME work[p].op = "acknowledge" PROVE Acknowledging(p)'
  BY <1>2, <1>4, <1>5, <1>8 DEF Doing, Acknowledging
<1>9. Idle' = Idle
  BY DEF Idle
<1> QED
  BY <1>3, <1>4, <1>6, <1>7, <1>8, <1>9 DEF Doing, Writes, Record

(* A step in the code of an operation, which reads or writes temporaries.  *)
Working == [at : Labels, op : {"none", "record", "warn", "acknowledge", "pending"},
            ids : SUBSET Ids, text : SUBSET Warnings, removed : SUBSET Ids]

LEMMA WorkIsTyped == ASSUME IInv, NEW p \in Procs PROVE work[p] \in Working
BY DEF IInv, TypeOK, Working

(* The record of an intent or a warning is one of the journal's.           *)
LEMMA ItsRecord ==
  ASSUME IInv, NEW p \in Procs, work[p].op \in {"record", "warn"}
  PROVE  work[p].ids = {It(p)} /\ It(p) \in Ids
BY DEF IInv, Doing, TypeOK

LEMMA SweepStep ==
  ASSUME IInv, NEW p \in Procs, work[p].at \in {"record", "pending"},
         UNCHANGED <<work, holder, names, used, ghosts>>,
         NEW i \in Ids, temps' = [temps EXCEPT ![i] = None],
         disk' = disk \/ disk' = Directory(names, temps')
  PROVE  IInv'
<1>1. work[p] # Idle /\ work[p] \in Working /\ work' = [work EXCEPT ![p] = work[p]]
  BY DEF IInv, TypeOK, Idle, Working
<1>2. temps' \in [Ids -> Files \cup {None}]
  BY DEF IInv, TypeOK
<1>3. Doing(p)'
  BY DoingStays
<1> QED
  BY <1>1, <1>2, <1>3, OnStep DEF Working

LEMMA IntentStep == ASSUME IInv, NEW p \in Procs, RecordIntent(p) PROVE IInv'
<1>1. work[p] # Idle /\ work[p].at = "record" /\ work[p].op = "record"
  BY DEF RecordIntent, Idle, IInv, Doing
<1>2. CASE Returns(p)
  BY <1>1, <1>2, OverStep DEF RecordIntent, store, IInv, TypeOK
<1>3. CASE ~Full /\ Goto(p, "create")
  <2> DEFINE w == [work[p] EXCEPT !.at = "create"]
  <2>1. w \in Working /\ w.ids = work[p].ids
    BY WorkIsTyped DEF Working, Labels
  <2>2. work' = [work EXCEPT ![p] = w] /\ work'[p] = w
    BY <1>3 DEF Goto, IInv, TypeOK
  <2>3. It(p)' = It(p)
    BY <2>1, <2>2, ItStays
  <2>4. Cardinality(Published) < MaxRecords
    <3>1. Under(names) = Published
      BY DEF Under, Published
    <3>2. Cardinality(Published) \in Nat
      BY <3>1, FS_CardinalityType DEF IInv, View
    <3> QED
      BY <1>3, <3>2, StoreAssumption DEF Full
  <2>5. Doing(p)'
    BY <1>1, <2>1, <2>2, <2>3, <2>4
    DEF RecordIntent, store, ghosts, IInv, Doing, Recording, Writes, Published, Idle
  <2> QED
    BY <1>1, <1>3, <2>1, <2>2, <2>5, OnStep
    DEF RecordIntent, store, Goto, Working, IInv, TypeOK
<1> QED
  BY <1>2, <1>3 DEF RecordIntent

LEMMA WarningStep == ASSUME IInv, NEW p \in Procs, AppendWarning(p) PROVE IInv'
<1>1. work[p] # Idle /\ work[p].at = "warn" /\ work[p].op = "warn"
  BY DEF AppendWarning, Idle, IInv, Doing
<1>2. CASE Returns(p)
  BY <1>1, <1>2, OverStep DEF AppendWarning, store, IInv, TypeOK
<1>3. CASE ~Returns(p)
  <2> DEFINE now == names[It(p)]
             w == [work[p] EXCEPT !.text = @ \cup now.warnings, !.at = "create"]
  <2>1. Whole(now) /\ work' = [work EXCEPT ![p] = w]
          /\ UNCHANGED <<store, used, ghosts, holder>>
    BY <1>3 DEF AppendWarning, IInv, TypeOK
  <2>2. It(p) \in Ids /\ now \in Files
    BY <1>1, <2>1, ItsRecord DEF IInv, TypeOK, Whole
  <2>3. /\ w \in Working /\ work'[p] = w /\ w.ids = work[p].ids
        /\ w.text = work[p].text \cup now.warnings /\ w.at = "create" /\ w.op = "warn"
    <3>1. work[p] \in Working /\ now.warnings \subseteq Warnings
      BY <2>2 DEF IInv, TypeOK, Working, Files
    <3> QED
      BY <1>1, <2>1, <3>1 DEF Working, Labels, IInv, TypeOK
  <2>4. It(p)' = It(p)
    BY <2>3, ItStays
  <2>5. Doing(p)'
    BY <1>1, <2>1, <2>3, <2>4 DEF store, IInv, Doing, Warning, Writes, Whole, Idle
  <2> QED
    BY <1>1, <2>1, <2>3, <2>5, OnStep DEF store, Working, IInv, TypeOK
<1> QED
  BY <1>2, <1>3

(* What is written is a record, or a part of one, and never nothing.       *)
LEMMA WhatIsWritten ==
  /\ Partial \in Files /\ Partial # None
  /\ \A ws \in SUBSET Warnings : Record(ws) \in Files /\ Record(ws) # None
<1>1. Partial \in Files /\ \A ws \in SUBSET Warnings : Record(ws) \in Files
  BY DEF Partial, Record, Files
<1>2. None \notin Files
  BY StoreAssumption DEF Files
<1> QED
  BY <1>1, <1>2

(* A temporary is opened, or written: its operation goes on.               *)
LEMMA WriteStep ==
  ASSUME IInv, NEW p \in Procs, NEW f \in Files, NEW at \in Writes,
         work[p].at \in Writes, Goto(p, at), temps' = [temps EXCEPT ![It(p)] = f],
         at = "publish" => f = Record(work[p].text),
         UNCHANGED <<names, used, ghosts>>,
         disk' = disk \/ disk' = Directory(names, temps')
  PROVE  IInv'
<1> DEFINE w == [work[p] EXCEPT !.at = at]
<1>1. work[p] # Idle /\ work[p].op \in {"record", "warn"}
  BY DEF Idle, Writes, IInv, Doing
<1>2. /\ w \in Working /\ w.ids = work[p].ids /\ w.at = at /\ w.op = work[p].op
      /\ w.text = work[p].text
  BY WorkIsTyped DEF Working, Labels, Writes
<1>3. work' = [work EXCEPT ![p] = w] /\ work'[p] = w /\ holder' = holder
  BY DEF Goto, IInv, TypeOK
<1>4. It(p)' = It(p)
  BY <1>2, <1>3, ItStays
<1>5. It(p) \in Ids
  BY <1>1, ItsRecord
<1>6. temps' \in [Ids -> Files \cup {None}] /\ temps'[It(p)] = f
  BY <1>5 DEF IInv, TypeOK
<1>7. Doing(p)'
  <2>1. Doing(p) /\ at \notin {"idle", "record", "warn", "pending", "acknowledge",
                               "syncRemoval", "sync"}
    BY DEF IInv, Writes
  <2>2. ASSUME work[p].op = "record" PROVE Recording(p)'
    <3>1. Recording(p) /\ disk'[It(p)].name \in {disk[It(p)].name, names[It(p)]}
      BY <1>5, <2>1, <2>2 DEF Doing, Directory
    <3> QED
      BY <1>2, <1>3, <1>4, <2>1, <3>1 DEF Recording, Writes, Published, ghosts
  <2>3. ASSUME work[p].op = "warn" PROVE Warning(p)'
    BY <1>2, <1>3, <1>4, <2>1, <2>3 DEF Doing, Warning
  <2> QED
    BY <1>1, <1>2, <1>3, <1>4, <1>6, <2>1, <2>2, <2>3 DEF Doing, Writes, Record
<1> QED
  BY <1>1, <1>2, <1>3, <1>6, <1>7, OnStep DEF Working

(* A record is published: it is new and there is room for it, or it        *)
(* replaces one whose warnings it keeps.                                   *)
LEMMA PublishStep ==
  ASSUME IInv, NEW p \in Procs, work[p].at = "publish", Goto(p, "sync"),
         names' = [names EXCEPT ![It(p)] = temps[It(p)]],
         temps' = [temps EXCEPT ![It(p)] = None], UNCHANGED <<used, ghosts>>,
         disk' = disk \/ disk' = Directory(names', temps')
  PROVE  IInv'
<1> DEFINE i == It(p)
           w == [work[p] EXCEPT !.at = "sync"]
<1>1. work[p] # Idle /\ work[p].op \in {"record", "warn"} /\ i \in Ids /\ Doing(p)
  BY ItsRecord DEF Idle, Writes, IInv, Doing
<1>2. /\ w \in Working /\ w.ids = work[p].ids /\ w.at = "sync" /\ w.op = work[p].op
      /\ w.text = work[p].text
  BY WorkIsTyped DEF Working, Labels
<1>3. work' = [work EXCEPT ![p] = w] /\ work'[p] = w /\ holder' = holder
  BY DEF Goto, IInv, TypeOK
<1>4. It(p)' = i
  BY <1>2, <1>3, ItStays
<1>5. temps[i] = Record(work[p].text) /\ temps[i] \in Files /\ temps[i] # None
  <2>1. temps[i] = Record(work[p].text)
    BY <1>1 DEF Doing
  <2>2. work[p].text \in SUBSET Warnings
    BY DEF IInv, TypeOK
  <2> QED
    BY <2>1, <2>2, WhatIsWritten
<1>6. /\ names' \in [Ids -> Files \cup {None}] /\ names'[i] = Record(work[p].text)
      /\ \A j \in Ids \ {i} : names'[j] = names[j]
  BY <1>1, <1>5 DEF IInv, TypeOK
<1>7. TypeOK'
  <2>1. temps' \in [Ids -> Files \cup {None}]
    BY DEF IInv, TypeOK
  <2>2. disk' \in [Ids -> [name : Files \cup {None}, temp : Files \cup {None}]]
    BY <1>6, <2>1 DEF Directory, IInv, TypeOK
  <2>3. \A q \in Procs : work'[q] # Idle => holder' = q
    BY <1>1, <1>3, Alone DEF IInv, TypeOK
  <2> QED
    BY <1>2, <1>3, <1>6, <2>1, <2>2, <2>3 DEF IInv, TypeOK, Working, ghosts
<1>8. /\ i \in used /\ i \notin gone.told /\ warned[i] \subseteq work[p].text
      /\ IsFiniteSet(Under(names) \cup {i})
      /\ Cardinality(Under(names) \cup {i}) <= MaxRecords
  <2>1. IsFiniteSet(Under(names)) /\ Cardinality(Under(names)) \in Nat
    BY FS_CardinalityType DEF IInv, View
  <2>2. CASE work[p].op = "record"
    <3>1. Recording(p)
      BY <1>1, <2>2 DEF Doing
    <3>2. Cardinality(Under(names)) < MaxRecords /\ i \notin Under(names)
      BY <3>1 DEF Recording, Writes, Under, Published
    <3>3. i \in used /\ i \notin gone.told /\ warned[i] = {}
      BY <1>1, <3>1 DEF Recording, History, IInv
    <3>4. /\ IsFiniteSet(Under(names) \cup {i})
          /\ Cardinality(Under(names) \cup {i}) = Cardinality(Under(names)) + 1
      BY <2>1, <3>2, FS_AddElement
    <3>5. Cardinality(Under(names) \cup {i}) <= MaxRecords
      BY <2>1, <3>2, <3>4, StoreAssumption
    <3> QED
      BY <3>3, <3>4, <3>5
  <2>3. CASE work[p].op = "warn"
    <3>1. names[i] # None /\ names[i].warnings \subseteq work[p].text
      BY <1>1, <2>3 DEF Doing, Warning, Writes
    <3>2. i \in Under(names) /\ Under(names) \cup {i} = Under(names)
      BY <1>1, <3>1 DEF Under
    <3> QED
      BY <3>1, <3>2 DEF IInv, View
  <2> QED
    BY <1>1, <2>2, <2>3
<1>9. View(names)'
  <2>1. Under(names)' = Under(names) \cup {i}
    BY <1>1, <1>5, <1>6 DEF Under
  <2>2. \A j \in Under(names)' :
          j \in used /\ names'[j].whole /\ warned[j] \subseteq names'[j].warnings
    BY <1>6, <1>8, <2>1 DEF IInv, View, Record, Under
  <2>3. \A j \in confirmed \ gone.tried : names'[j] # None
    BY <1>5, <1>6 DEF IInv, TypeOK, View
  <2>4. \A j \in gone.told : names'[j] = None
    BY <1>6, <1>8 DEF IInv, TypeOK, View
  <2> QED
    BY <1>8, <2>1, <2>2, <2>3, <2>4 DEF View, ghosts
<1>10. View(Lasting)'
  <2>1. Lasting' = Lasting \/ Lasting' = names'
    <3>1. CASE disk' = disk
      BY <3>1 DEF Lasting
    <3>2. CASE disk' = Directory(names', temps')
      BY <1>6, <3>2 DEF Lasting, Directory
    <3> QED
      BY <3>1, <3>2
  <2>2. View(Lasting) /\ UNCHANGED <<used, ghosts>>
    BY DEF IInv
  <2> QED
    BY <1>9, <2>1, <2>2 DEF View, Under, ghosts
<1>11. Doing(p)'
  <2>1. ASSUME work[p].op = "record" PROVE Recording(p)'
    BY <1>1, <1>2, <1>3, <1>4, <1>8, <2>1 DEF Doing, Recording, Writes, ghosts
  <2>2. Warning(p)'
    BY <1>2, <1>3 DEF Warning, Writes
  <2> QED
    BY <1>1, <1>2, <1>3, <1>4, <1>6, <2>1, <2>2 DEF Doing, Writes, Record
<1> QED
  BY <1>1, <1>3, <1>7, <1>9, <1>10, <1>11, HistoryStays, OnlyMine DEF IInv

(* The record is known to last, and the caller relies on it.               *)
LEMMA ConfirmStep ==
  ASSUME IInv, NEW p \in Procs, work[p].at = "sync", Confirm(p),
         UNCHANGED <<names, temps, used, gone>>, disk' = Directory(names, temps)
  PROVE  IInv'
<1> DEFINE i == It(p)
<1>1. work[p] # Idle /\ work[p].ids = {i} /\ i \in Ids
        /\ names[i] = Record(work[p].text)
  BY ItsRecord DEF Idle, Writes, IInv, Doing
<1>2. work' = [q \in Procs |-> Idle] /\ holder' = None /\ \A q \in Procs : Doing(q)'
  BY <1>1, Over DEF Confirm, IInv
<1>3. names[i] # None /\ i \in Under(names) /\ work[p].text \in SUBSET Warnings
  <2>1. work[p].text \in SUBSET Warnings
    BY DEF IInv, TypeOK
  <2>2. names[i] # None
    BY <1>1, <2>1, WhatIsWritten
  <2> QED
    BY <1>1, <2>1, <2>2 DEF Under
<1>4. i \in used /\ warned[i] \subseteq work[p].text
  BY <1>1, <1>3 DEF IInv, View, Record
<1>5. /\ confirmed' = confirmed \cup {i} /\ warned' \in [Ids -> SUBSET Warnings]
      /\ warned'[i] \subseteq work[p].text
      /\ \A j \in Ids \ {i} : warned'[j] = warned[j]
  <2>1. warned' = [warned EXCEPT ![i] = @ \cup work[p].text]
          /\ warned \in [Ids -> SUBSET Warnings]
    BY DEF Confirm, IInv, TypeOK
  <2> QED
    BY <1>1, <1>3, <1>4, <2>1 DEF Confirm
<1>6. TypeOK'
  <2>1. work' \in [Procs -> Working] /\ \A q \in Procs : work'[q] = Idle
    BY <1>2 DEF Idle, Labels, Working
  <2>2. disk' \in [Ids -> [name : Files \cup {None}, temp : Files \cup {None}]]
    BY DEF Directory, IInv, TypeOK
  <2> QED
    BY <1>2, <1>4, <1>5, <2>1, <2>2 DEF IInv, TypeOK, Working
<1>7. View(names)'
  <2>1. \A j \in Under(names) :
          j \in used /\ names[j].whole /\ warned'[j] \subseteq names[j].warnings
    BY <1>1, <1>5 DEF IInv, View, Record, Under
  <2>2. \A j \in confirmed' \ gone.tried : names[j] # None
    BY <1>3, <1>5 DEF IInv, View
  <2>3. Under(names)' = Under(names)
    BY DEF Under
  <2> QED
    BY <2>1, <2>2, <2>3 DEF IInv, View
<1>8. View(Lasting)'
  <2>1. Lasting' = names'
    BY Synchronized DEF IInv
  <2> QED
    BY <1>7, <2>1 DEF View, Under
<1>9. History'
  BY <1>5 DEF IInv, History
<1> QED
  BY <1>2, <1>6, <1>7, <1>8, <1>9 DEF IInv

(* A record is acknowledged: it is removed, and never comes back.          *)
LEMMA RemoveStep ==
  ASSUME IInv, NEW p \in Procs, work[p].at = "acknowledge", NEW i \in work[p].ids,
         names[i] # None, NEW at \in {"syncRemoval", "acknowledge"},
         names' = [names EXCEPT ![i] = None],
         gone' = [gone EXCEPT !.tried = @ \cup {i}],
         work' = [work EXCEPT ![p].ids = @ \ {i}, ![p].at = at,
                              ![p].removed = @ \cup {i}],
         disk' = disk \/ disk' = Directory(names', temps'),
         at = "acknowledge" => disk' = Directory(names', temps'),
         UNCHANGED <<temps, holder, used, confirmed, warned>>
  PROVE  IInv'
<1> DEFINE w == [work[p] EXCEPT !.ids = @ \ {i}, !.at = at, !.removed = @ \cup {i}]
<1>1. work[p] # Idle /\ work[p].op = "acknowledge" /\ Doing(p) /\ i \in Ids
  BY DEF Idle, Writes, IInv, Doing, TypeOK
<1>2. w \in Working /\ w.at = at /\ w.op = "acknowledge"
        /\ w.removed = work[p].removed \cup {i}
  BY <1>1, WorkIsTyped DEF Working, Labels
<1>3. work' = [work EXCEPT ![p] = w] /\ work'[p] = w
  BY DEF IInv, TypeOK
<1>4. /\ names' \in [Ids -> Files \cup {None}] /\ names'[i] = None
      /\ \A j \in Ids \ {i} : names'[j] = names[j]
  BY <1>1 DEF IInv, TypeOK
<1>5. /\ gone' \in [tried : SUBSET Ids, told : SUBSET Ids]
      /\ gone'.tried = gone.tried \cup {i} /\ gone'.told = gone.told
  BY <1>1 DEF IInv, TypeOK
<1>6. TypeOK'
  <2>1. disk' \in [Ids -> [name : Files \cup {None}, temp : Files \cup {None}]]
    BY <1>4 DEF Directory, IInv, TypeOK
  <2>2. \A q \in Procs : work'[q] # Idle => holder' = q
    BY <1>1, <1>3, Alone DEF IInv, TypeOK
  <2>3. work' \in [Procs -> Working]
    BY <1>2, <1>3 DEF IInv, TypeOK, Working
  <2> QED
    BY <1>4, <1>5, <2>1, <2>2, <2>3 DEF IInv, TypeOK, Working
<1>7. View(names)'
  <2>1. Under(names)' \subseteq Under(names)
    BY <1>4 DEF Under
  <2>2. IsFiniteSet(Under(names)') /\ Cardinality(Under(names)') <= MaxRecords
    <3>1. IsFiniteSet(Under(names)) /\ Cardinality(Under(names)) <= MaxRecords
      BY DEF IInv, View
    <3>2. /\ IsFiniteSet(Under(names)')
               /\ Cardinality(Under(names)') <= Cardinality(Under(names))
      BY <2>1, <3>1, FS_Subset
    <3> QED
      BY <3>1, <3>2, FS_CardinalityType, StoreAssumption
  <2>3. \A j \in Under(names)' :
          j \in used' /\ names'[j].whole /\ warned'[j] \subseteq names'[j].warnings
    BY <1>4, <2>1 DEF IInv, View, Under
  <2>4. \A j \in confirmed' \ gone'.tried : names'[j] # None
    BY <1>4, <1>5 DEF IInv, View, TypeOK
  <2>5. \A j \in gone'.told : names'[j] = None
    BY <1>4, <1>5 DEF IInv, View, TypeOK
  <2> QED
    BY <2>2, <2>3, <2>4, <2>5 DEF View
<1>8. View(Lasting)'
  <2>1. CASE disk' = disk
    BY <1>5, <2>1 DEF IInv, View, Under, Lasting
  <2>2. CASE disk' = Directory(names', temps')
    <3>1. Lasting' = names'
      BY <1>4, <2>2 DEF Lasting, Directory
    <3> QED
      BY <1>7, <3>1 DEF View, Under
  <2> QED
    BY <2>1, <2>2
<1>9. History'
  <2>1. i \in used
    BY <1>1 DEF IInv, View, Under
  <2> QED
    BY <1>5, <2>1 DEF IInv, History
<1>10. Doing(p)'
  <2>1. Acknowledging(p)'
    <3>1. work'[p].removed \subseteq Ids /\ work'[p].at = at
      BY <1>2, <1>3 DEF Working
    <3>2. \A j \in work'[p].removed : names'[j] = None /\ j \in gone'.tried
      BY <1>1, <1>2, <1>3, <1>4, <1>5, <3>1 DEF Doing, Acknowledging
    <3>3. ASSUME at = "acknowledge" PROVE \A j \in work'[p].removed : disk'[j].name = None
      <4>1. \A j \in Ids : disk'[j].name = names'[j]
        BY <3>3 DEF Directory
      <4> QED
        BY <3>1, <3>2, <4>1
    <3> QED
      BY <3>1, <3>2, <3>3 DEF Acknowledging
  <2> QED
    BY <1>2, <1>3, <2>1 DEF Doing, Writes
<1> QED
  BY <1>1, <1>3, <1>6, <1>7, <1>8, <1>9, <1>10, OnlyMine DEF IInv

(* A record that is not there any more is passed over.                     *)
LEMMA MissingStep ==
  ASSUME IInv, NEW p \in Procs, work[p].at = "acknowledge", NEW i \in work[p].ids,
         work' = [work EXCEPT ![p].ids = @ \ {i}],
         UNCHANGED <<store, holder, used, ghosts>>
  PROVE  IInv'
<1> DEFINE w == [work[p] EXCEPT !.ids = @ \ {i}]
<1>1. work[p] # Idle /\ work[p].op = "acknowledge" /\ Doing(p)
  BY DEF Idle, Writes, IInv, Doing
<1>2. /\ w \in Working /\ w.at = "acknowledge" /\ w.op = "acknowledge"
      /\ w.removed = work[p].removed
  BY <1>1, WorkIsTyped DEF Working
<1>3. work' = [work EXCEPT ![p] = w] /\ work'[p] = w
  BY DEF IInv, TypeOK
<1>4. Doing(p)'
  BY <1>1, <1>2, <1>3 DEF Doing, Acknowledging, Writes, store, ghosts
<1> QED
  BY <1>1, <1>2, <1>3, <1>4, OnStep DEF store, Working, IInv, TypeOK

LEMMA SyncRemovalStep == ASSUME IInv, NEW p \in Procs, SyncRemoval(p) PROVE IInv'
<1>1. /\ work[p].at = "syncRemoval" /\ work[p] # Idle /\ work[p].op = "acknowledge"
      /\ Doing(p)
  BY DEF SyncRemoval, Idle, Writes, IInv, Doing
<1>2. CASE Returns(p)
  BY <1>1, <1>2, OverStep DEF SyncRemoval, IInv, TypeOK
<1>3. CASE disk' = Directory(names, temps) /\ Goto(p, "acknowledge")
  <2> DEFINE w == [work[p] EXCEPT !.at = "acknowledge"]
  <2>1. /\ w \in Working /\ w.at = "acknowledge" /\ w.op = "acknowledge"
        /\ w.removed = work[p].removed /\ w.removed \subseteq Ids
    BY <1>1, WorkIsTyped DEF Working, Labels
  <2>2. work' = [work EXCEPT ![p] = w] /\ work'[p] = w
    BY <1>3 DEF Goto, IInv, TypeOK
  <2>3. Acknowledging(p)'
    BY <1>1, <1>3, <2>1, <2>2
    DEF Doing, Acknowledging, Directory, SyncRemoval, ghosts
  <2>4. Doing(p)'
    BY <2>1, <2>2, <2>3 DEF Doing, Writes
  <2> QED
    BY <1>1, <1>3, <2>1, <2>2, <2>4, OnStep
    DEF SyncRemoval, Goto, Working, IInv, TypeOK
<1> QED
  BY <1>2, <1>3 DEF SyncRemoval

(* The records that were removed are reported: none of them lasts.         *)
LEMMA RemovedStep == ASSUME IInv, NEW p \in Procs, Removed(p) PROVE IInv'
<1>1. /\ work[p].at = "acknowledge" /\ work[p] # Idle /\ work[p].op = "acknowledge"
      /\ Doing(p) /\ work[p].removed \subseteq Ids
  BY DEF Removed, Idle, Writes, IInv, Doing, TypeOK
<1>2. work' = [q \in Procs |-> Idle] /\ holder' = None /\ \A q \in Procs : Doing(q)'
  BY <1>1, Over DEF Removed, IInv
<1>3. \A i \in work[p].removed : names[i] = None /\ Lasting[i] = None
        /\ i \in gone.tried
  BY <1>1 DEF Doing, Acknowledging, Lasting
<1>4. /\ gone' \in [tried : SUBSET Ids, told : SUBSET Ids]
      /\ gone'.tried = gone.tried /\ gone'.told = gone.told \cup work[p].removed
  BY <1>1 DEF Removed, IInv, TypeOK
<1>5. TypeOK'
  <2>1. work' \in [Procs -> Working] /\ \A q \in Procs : work'[q] = Idle
    BY <1>2 DEF Idle, Labels, Working
  <2> QED
    BY <1>2, <1>4, <2>1 DEF Removed, store, IInv, TypeOK, Working
<1>6. View(names)' /\ View(Lasting)'
  <2>1. names' = names /\ Lasting' = Lasting /\ UNCHANGED <<used, confirmed, warned>>
    BY DEF Removed, store, Lasting
  <2>2. View(names)'
    BY <1>3, <1>4, <2>1 DEF IInv, View, Under
  <2>3. View(Lasting)'
    BY <1>3, <1>4, <2>1 DEF IInv, View, Under
  <2> QED
    BY <2>2, <2>3
<1>7. History'
  BY <1>3, <1>4 DEF Removed, IInv, History
<1> QED
  BY <1>2, <1>5, <1>6, <1>7 DEF IInv

-------------------------------------------------------------------------------
(* The system writes the directory back; the machine loses its power.      *)
LEMMA WriteBackStep == ASSUME IInv, WriteBack PROVE IInv'
<1> USE DEF WriteBack
<1>1. disk' \in [Ids -> [name : Files \cup {None}, temp : Files \cup {None}]]
  BY DEF Directory, IInv, TypeOK
<1>2. TypeOK'
  BY <1>1 DEF IInv, TypeOK, ghosts
<1>3. View(names)' /\ View(Lasting)' /\ History'
  BY Synchronized, ViewStays, HistoryStays DEF IInv, Lasting
<1>4. \A p \in Procs : Doing(p)'
  BY DoingStays DEF IInv
<1> QED
  BY <1>2, <1>3, <1>4 DEF IInv

LEMMA PowerLossStep == ASSUME IInv, PowerLoss PROVE IInv'
<1> USE DEF PowerLoss
<1>1. /\ names' \in [Ids -> Files \cup {None}] /\ temps' \in [Ids -> Files \cup {None}]
      /\ names' = Lasting /\ Lasting' = Lasting
  BY DEF IInv, TypeOK, Lasting
<1>2. TypeOK'
  <2>1. work' \in [Procs -> Working] /\ \A q \in Procs : work'[q] = Idle
    BY DEF Idle, Labels, Working
  <2> QED
    BY <1>1, <2>1 DEF IInv, TypeOK, ghosts, Working
<1>3. View(names)' /\ View(Lasting)' /\ History'
  BY <1>1, ViewStays, HistoryStays DEF IInv
<1>4. \A p \in Procs : Doing(p)'
  BY IdleStaysRight
<1> QED
  BY <1>2, <1>3, <1>4 DEF IInv

-------------------------------------------------------------------------------
(* A step of a process on POSIX.                                           *)
LEMMA ProcessStep == ASSUME IInv, NEW p \in Procs, Step(p) PROVE IInv'
<1>1. CASE Enter(p)
  BY <1>1, EnterStep DEF Enter
<1>2. CASE Sweep(p)
  <2>1. work[p].at \in {"record", "pending"} /\ work[p] # Idle
    BY <1>2 DEF Sweep, Idle
  <2>2. PICK i \in Ids : /\ temps' = [temps EXCEPT ![i] = None]
                         /\ \/ /\ disk' = Directory(names, temps')
                               /\ UNCHANGED <<work, holder>>
                            \/ Returns(p) /\ UNCHANGED disk
    BY <1>2 DEF Sweep
  <2>3. temps' \in [Ids -> Files \cup {None}]
    BY <2>2 DEF IInv, TypeOK
  <2> QED
    BY <1>2, <2>1, <2>2, <2>3, SweepStep, OverStep DEF Sweep
<1>3. CASE Pending(p)
  BY <1>3, OverStep DEF Pending, Idle, store, IInv, TypeOK
<1>4. CASE Create(p)
  <2>1. Partial \in Files /\ "fill" \in Writes /\ "create" \in Writes
    BY DEF Partial, Files, Writes
  <2> QED
    BY <1>4, <2>1, WriteStep DEF Create
<1>5. CASE Fill(p)
  <2>1. Record(work[p].text) \in Files /\ "publish" \in Writes /\ "fill" \in Writes
    BY DEF Record, Files, Writes, IInv, TypeOK
  <2>2. CASE Returns(p) /\ UNCHANGED temps
    BY <1>5, <2>2, OverStep DEF Fill, Idle, IInv, TypeOK
  <2> QED
    BY <1>5, <2>1, <2>2, WriteStep DEF Fill
<1>6. CASE Publish(p)
  <2>1. CASE Returns(p) /\ UNCHANGED names
    <3>1. temps' \in [Ids -> Files \cup {None}]
      BY <1>6 DEF Publish, IInv, TypeOK
    <3> QED
      BY <1>6, <2>1, <3>1, OverStep DEF Publish, Idle
  <2> QED
    BY <1>6, <2>1, PublishStep DEF Publish
<1>7. CASE SyncDirectory(p)
  <2>1. CASE Returns(p) /\ UNCHANGED <<disk, confirmed, warned>>
    BY <1>7, <2>1, OverStep DEF SyncDirectory, Idle, IInv, TypeOK, ghosts
  <2> QED
    BY <1>7, <2>1, ConfirmStep DEF SyncDirectory
<1>8. CASE Remove(p)
  <2>1. PICK i \in work[p].ids :
       \/ /\ names[i] = None
          /\ work' = [work EXCEPT ![p].ids = @ \ {i}]
          /\ UNCHANGED <<names, gone, holder>>
       \/ /\ Whole(names[i])
          /\ names' = [names EXCEPT ![i] = None]
          /\ gone' = [gone EXCEPT !.tried = @ \cup {i}]
          /\ work' = [work EXCEPT ![p].ids = @ \ {i}, ![p].at = "syncRemoval",
                                  ![p].removed = @ \cup {i}]
          /\ UNCHANGED holder
       \/ Returns(p) /\ UNCHANGED <<names, gone>>
    BY <1>8 DEF Remove
  <2>2. work[p].at = "acknowledge" /\ UNCHANGED <<temps, disk, used, confirmed, warned>>
    BY <1>8 DEF Remove
  <2>3. CASE Returns(p) /\ UNCHANGED <<names, gone>>
    BY <2>2, <2>3, OverStep DEF Idle, IInv, TypeOK, ghosts
  <2>4. CASE work' = [work EXCEPT ![p].ids = @ \ {i}]
               /\ UNCHANGED <<names, gone, holder>>
    BY <2>2, <2>4, MissingStep DEF store, ghosts
  <2>5. CASE /\ Whole(names[i])
             /\ names' = [names EXCEPT ![i] = None]
             /\ gone' = [gone EXCEPT !.tried = @ \cup {i}]
             /\ work' = [work EXCEPT ![p].ids = @ \ {i}, ![p].at = "syncRemoval",
                                     ![p].removed = @ \cup {i}]
             /\ UNCHANGED holder
    BY <2>2, <2>5, RemoveStep DEF Whole
  <2> QED
    BY <2>1, <2>3, <2>4, <2>5
<1>9. CASE Killed(p)
  BY <1>9, OverStep DEF Killed, store, IInv, TypeOK
<1> QED
  BY <1>1, <1>2, <1>3, <1>4, <1>5, <1>6, <1>7, <1>8, <1>9, IntentStep, WarningStep,
     SyncRemovalStep, RemovedStep
  DEF Step

(* Nothing moves.                                                          *)
LEMMA StillStep == ASSUME IInv, UNCHANGED vars PROVE IInv'
<1> USE DEF vars, store, ghosts
<1>1. TypeOK' /\ View(names)' /\ View(Lasting)' /\ History'
  BY ViewStays, HistoryStays DEF IInv, TypeOK, Lasting
<1>2. \A p \in Procs : Doing(p)'
  BY DoingStays
<1> QED
  BY <1>1, <1>2 DEF IInv

LEMMA PosixStep == ASSUME IInv, [Next]_vars PROVE IInv'
BY ProcessStep, WriteBackStep, PowerLossStep, StillStep DEF Next

-------------------------------------------------------------------------------
(* On Windows, what is in the directory is taken to last.                  *)

(* An operation that finds the store in use fails, and uses up its id.     *)
LEMMA BusyStep == ASSUME IInv, NEW p \in Procs, Busy(p) PROVE IInv'
<1> USE DEF Busy, store, ghosts
<1>1. used' \in SUBSET Ids /\ used \subseteq used'
  BY DEF IInv, TypeOK
<1>2. TypeOK'
  BY <1>1 DEF IInv, TypeOK
<1>3. View(names)' /\ View(Lasting)' /\ History'
  BY <1>1, ViewStays, HistoryStays DEF IInv, Lasting
<1>4. \A q \in Procs : Doing(q)'
  BY <1>1, DoingStays
<1> QED
  BY <1>2, <1>3, <1>4 DEF IInv

LEMMA DroppedStep ==
  ASSUME IInv, NEW p \in Procs, work[p] # Idle, Dropped(p),
         UNCHANGED <<names, used, ghosts>>, Logged
  PROVE  IInv'
<1>1. Returns(p) /\ temps' \in [Ids -> Files \cup {None}]
  BY DEF Dropped, IInv, TypeOK
<1> QED
  BY <1>1, OverStep DEF Logged

LEMMA PublishWindowsStep == ASSUME IInv, NEW p \in Procs, PublishWindows(p) PROVE IInv'
<1>1. CASE Dropped(p) /\ UNCHANGED names
  BY <1>1, DroppedStep DEF PublishWindows, Idle
<1>2. CASE ~(Dropped(p) /\ UNCHANGED names)
  <2>1. /\ work[p].at = "publish" /\ Goto(p, "sync") /\ UNCHANGED <<used, ghosts>>
        /\ names' = [names EXCEPT ![It(p)] = temps[It(p)]]
        /\ temps' = [temps EXCEPT ![It(p)] = None] /\ disk' = Directory(names', temps')
    BY <1>2 DEF PublishWindows, Logged
  <2> QED
    BY <2>1, PublishStep
<1> QED
  BY <1>1, <1>2

LEMMA RemoveWindowsStep == ASSUME IInv, NEW p \in Procs, RemoveWindows(p) PROVE IInv'
<1>1. PICK i \in work[p].ids :
        /\ work' = [work EXCEPT ![p].ids = @ \ {i}, ![p].removed =
                                  IF names[i] = None THEN @ ELSE @ \cup {i}]
        /\ names' = [names EXCEPT ![i] = None]
        /\ gone' = [gone EXCEPT !.tried =
                      IF names[i] = None THEN @ ELSE @ \cup {i}]
  BY DEF RemoveWindows
<1>2. /\ work[p].at = "acknowledge"
           /\ UNCHANGED <<temps, holder, used, confirmed, warned>>
      /\ disk' = Directory(names', temps') /\ i \in Ids
  BY DEF RemoveWindows, Logged, IInv, TypeOK
<1>3. CASE names[i] = None
  <2>1. names' = names /\ gone' = gone
    BY <1>1, <1>2, <1>3 DEF IInv, TypeOK
  <2>2. DEFINE w == [work[p] EXCEPT !.ids = @ \ {i}]
  <2>3. work' = [work EXCEPT ![p] = w] /\ work'[p] = w
    BY <1>1, <1>3 DEF IInv, TypeOK
  <2>4. /\ work[p] # Idle /\ work[p].op = "acknowledge" /\ Doing(p)
        /\ work[p].removed \subseteq Ids
    BY <1>2 DEF Idle, Writes, IInv, Doing, TypeOK
  <2>5. w \in Working /\ w.at = "acknowledge" /\ w.op = "acknowledge"
          /\ w.removed = work[p].removed
    BY <1>2, <2>4, WorkIsTyped DEF Working
  <2>6. Acknowledging(p)'
    BY <1>2, <2>1, <2>3, <2>4, <2>5 DEF Doing, Acknowledging, Directory
  <2>7. Doing(p)'
    BY <2>3, <2>5, <2>6 DEF Doing, Writes
  <2> QED
    BY <1>2, <2>1, <2>3, <2>4, <2>5, <2>7, OnStep DEF Working, IInv, TypeOK, ghosts
<1>4. CASE names[i] # None
  <2>1. /\ gone' = [gone EXCEPT !.tried = @ \cup {i}]
        /\ work' = [work EXCEPT ![p].ids = @ \ {i}, ![p].at = "acknowledge",
                                ![p].removed = @ \cup {i}]
    BY <1>1, <1>2, <1>4 DEF IInv, TypeOK
  <2> QED
    BY <1>1, <1>2, <1>4, <2>1, RemoveStep
<1> QED
  BY <1>3, <1>4

LEMMA ProcessStepWindows ==
  ASSUME WindowsInv, NEW p \in Procs, StepWindows(p)
  PROVE  WindowsInv'
<1> USE DEF WindowsInv
<1>1. CASE EnterWindows(p)
  BY <1>1, EnterStep DEF EnterWindows, store, Directory
<1>2. CASE Busy(p)
  BY <1>2, BusyStep DEF Busy, store, Directory
<1>3. CASE SweepWindows(p)
  <2>1. /\ work[p].at \in {"record", "pending"} /\ work[p] # Idle
        /\ disk' = Directory(names', temps') /\ UNCHANGED <<names, used, ghosts>>
    BY <1>3 DEF SweepWindows, Logged, Idle
  <2>2. CASE Returns(p) /\ UNCHANGED temps
    BY <2>1, <2>2, OverStep DEF IInv, TypeOK, Directory
  <2>3. CASE ~(Returns(p) /\ UNCHANGED temps)
    <3>1. PICK i \in Ids : /\ temps' = [temps EXCEPT ![i] = None]
                           /\ UNCHANGED <<work, holder>>
      BY <1>3, <2>3 DEF SweepWindows
    <3>2. disk' = Directory(names, temps')
      BY <2>1
    <3>3. IInv'
      BY <2>1, <3>1, <3>2, SweepStep
    <3> QED
      BY <2>1, <3>3 DEF Directory
  <2> QED
    BY <2>2, <2>3
<1>4. CASE Pending(p)
  BY <1>4, OverStep DEF Pending, Idle, store, IInv, TypeOK, Directory
<1>5. CASE RecordIntent(p)
  BY <1>5, IntentStep DEF RecordIntent, store, Directory
<1>6. CASE AppendWarning(p)
  BY <1>6, WarningStep DEF AppendWarning, store, Directory
<1>7. CASE OpenMutable(p)
  <2>1. Partial \in Files /\ "fill" \in Writes /\ "create" \in Writes
    BY DEF Partial, Files, Writes
  <2>2. disk' = Directory(names, temps') /\ disk' = Directory(names', temps')
    BY <1>7 DEF OpenMutable, Logged
  <2>3. CASE Returns(p) /\ UNCHANGED temps
    BY <1>7, <2>2, <2>3, OverStep DEF OpenMutable, Idle, IInv, TypeOK, Directory
  <2>4. CASE temps' = [temps EXCEPT ![It(p)] = Partial] /\ Goto(p, "fill")
    <3>1. IInv'
      BY <1>7, <2>1, <2>2, <2>4, WriteStep DEF OpenMutable
    <3> QED
      BY <2>2, <3>1 DEF Directory
  <2> QED
    BY <1>7, <2>3, <2>4 DEF OpenMutable
<1>8. CASE FillWindows(p)
  <2>1. Record(work[p].text) \in Files /\ "publish" \in Writes /\ "fill" \in Writes
    BY DEF Record, Files, Writes, IInv, TypeOK
  <2>2. disk' = Directory(names, temps') /\ disk' = Directory(names', temps')
    BY <1>8 DEF FillWindows, Logged
  <2>3. CASE Dropped(p)
    BY <1>8, <2>2, <2>3, DroppedStep DEF FillWindows, Idle, Directory
  <2>4. CASE temps' = [temps EXCEPT ![It(p)] = Record(work[p].text)]
               /\ Goto(p, "publish")
    <3>1. IInv'
      BY <1>8, <2>1, <2>2, <2>4, WriteStep DEF FillWindows
    <3> QED
      BY <2>2, <3>1 DEF Directory
  <2> QED
    BY <1>8, <2>3, <2>4 DEF FillWindows
<1>9. CASE PublishWindows(p)
  BY <1>9, PublishWindowsStep DEF PublishWindows, Logged, Directory
<1>10. CASE CloseParent(p)
  <2>1. work[p].at = "sync" /\ UNCHANGED <<store, used, gone>>
    BY <1>10 DEF CloseParent
  <2>2. CASE Confirm(p)
    BY <2>1, <2>2, ConfirmStep DEF store, Directory
  <2>3. CASE Returns(p) /\ UNCHANGED <<confirmed, warned>>
    BY <2>1, <2>3, OverStep DEF Idle, store, ghosts, IInv, TypeOK, Directory
  <2> QED
    BY <1>10, <2>2, <2>3 DEF CloseParent
<1>11. CASE RemoveWindows(p)
  BY <1>11, RemoveWindowsStep DEF RemoveWindows, Logged, Directory
<1>12. CASE RemoveFails(p)
  BY <1>12, OverStep DEF RemoveFails, Idle, store, IInv, TypeOK, Directory
<1>13. CASE Removed(p)
  BY <1>13, RemovedStep DEF Removed, store, Directory
<1>14. CASE Killed(p)
  BY <1>14, OverStep DEF Killed, store, IInv, TypeOK, Directory
<1> QED
  BY <1>1, <1>2, <1>3, <1>4, <1>5, <1>6, <1>7, <1>8, <1>9, <1>10, <1>11, <1>12,
     <1>13, <1>14 DEF StepWindows

LEMMA WindowsStep == ASSUME WindowsInv, [NextWindows]_vars PROVE WindowsInv'
<1>1. CASE NextWindows
  BY <1>1, ProcessStepWindows DEF NextWindows
<1>2. CASE UNCHANGED vars
  BY <1>2, StillStep DEF WindowsInv, vars, store, Directory
<1> QED
  BY <1>1, <1>2

(* What the invariant says of the properties.                              *)
LEMMA JournalFollows ==
  ASSUME IInv
  PROVE  RecordsWhole /\ ConfirmedStays /\ RemovedStaysAway /\ NeverOverfull
<1>1. \A n : View(n) => \A i \in Ids : n[i] # Partial
  <2>1. Partial # None
    BY WhatIsWritten
  <2> QED
    BY <2>1 DEF View, Under, Partial
<1>2. RecordsWhole
  BY <1>1 DEF RecordsWhole, IInv, Lasting
<1>3. ConfirmedStays
  <2>1. \A i \in confirmed \ gone.tried : i \in Ids
    BY DEF IInv, TypeOK
  <2> QED
    BY <2>1 DEF ConfirmedStays, IInv, View, Under, Lasting
<1>4. RemovedStaysAway
  BY DEF RemovedStaysAway, IInv, TypeOK, View, Lasting
<1>5. NeverOverfull
  <2>1. Under(names) = Published
    BY DEF Under, Published
  <2> QED
    BY <2>1 DEF NeverOverfull, IInv, View
<1> QED
  BY <1>2, <1>3, <1>4, <1>5

-------------------------------------------------------------------------------
(* The logs.                                                               *)

(* Whoever is past the lock holds it.                                      *)
Locked == \A s \in Servers : logPc[s] \notin {"idle", "lock"} => flock = s

(* A record is written by one server, and by none again.                   *)
Assigned ==
  /\ \A s \in Servers : record[s] = None <=> logPc[s] = "idle"
  /\ \A s, t \in Servers : record[s] = record[t] /\ record[s] # None => s = t

Before == {"lock", "refresh", "rotate", "create", "fit"}

Fresh(s) ==
  /\ logPc[s] \in Before \cup {"append"} =>
       logged[record[s]] = None /\ record[s] \notin torn
  /\ logPc[s] \in Before => chunks[s] = 0

Bounded == \A f \in Usage!Files :
  Usage!Size(f) <= MaxChunks + 1 /\ (f # 1 => Usage!Size(f) <= MaxChunks)

(* Nothing is there of a record that nobody has begun to append.           *)
Untouched == \A r \in Records :
  (/\ logged[r] = None /\ r \notin torn
   /\ \A s \in Servers : record[s] = r => logPc[s] # "append")
  => Usage!Places(r) = {}

(* What a server has appended so far is the end of its file.               *)
Appending(s) == logPc[s] = "append" =>
  LET f == fd[s] IN
  /\ Usage!Size(f) + 2 - chunks[s] <= MaxChunks /\ chunks[s] <= Usage!Size(f)
  /\ Usage!Places(record[s]) = {f} \X ((Usage!Size(f) - chunks[s] + 1) .. Usage!Size(f))

InOnePiece(r) == logged[r] # None =>
  \E i \in Nat \ {0} : i + 1 <= MaxChunks + 1
    /\ Usage!Places(r) = {logged[r]} \X (i .. i + 1)

(* A server that may append has the file under the name, if there is one.  *)
InPlace(s) == logPc[s] \in {"fit", "append"} =>
  fd[s] = log \/ (log = None /\ fd[s] \in removed)

(* A log that is to be rotated was found full; rot: both limits do.        *)
FoundFull(s, rot) == logPc[s] = "rotate" /\ log # None =>
  Usage!Size(log) + 2 > MaxChunks /\ (rot \/ Usage!Size(log) > MaxChunks)

LogInv(rot) ==
  /\ Usage!TypeOK /\ Locked /\ Assigned /\ Bounded /\ Untouched
  /\ \A s \in Servers : Fresh(s) /\ Appending(s) /\ InPlace(s) /\ FoundFull(s, rot)
  /\ \A r \in Records : InOnePiece(r)

-------------------------------------------------------------------------------
(* The logs as older versions left them.                                   *)
LEMMA LogInit == ASSUME NEW rot PROVE Usage!Init => LogInv(rot)
<1> SUFFICES ASSUME Usage!Init PROVE LogInv(rot)
  OBVIOUS
<1> USE LogAssumption DEF Usage!Init
<1>1. PICK n \in 0 .. MaxChunks + 1 :
        content = [f \in Usage!Files |-> IF f = 1 THEN [i \in 1 .. n |-> None] ELSE <<>>]
  OBVIOUS
<1>2. [i \in 1 .. n |-> None] \in Seq(Records \cup {None})
        /\ Len([i \in 1 .. n |-> None]) = n
  OBVIOUS
<1>3. content \in [Usage!Files -> Seq(Records \cup {None})]
  BY <1>1, <1>2
<1>4. \A f \in Usage!Files : Usage!Size(f) = IF f = 1 THEN n ELSE 0
  BY <1>1, <1>2 DEF Usage!Size
<1>5. Usage!TypeOK
  BY <1>3 DEF Usage!TypeOK, Usage!Files
<1>6. \A r \in Records : Usage!Places(r) = {}
  <2>1. \A f \in Usage!Files, i \in 1 .. MaxChunks + 1 : i <= Usage!Size(f)
          => content[f][i] = None
    BY <1>1, <1>4 DEF Usage!Files
  <2> QED
    BY <2>1 DEF Usage!Places
<1>7. Bounded
  BY <1>4 DEF Bounded, Usage!Files
<1> QED
  BY <1>5, <1>6, <1>7
  DEF LogInv, Locked, Assigned, Untouched, Fresh, Before, Appending, InPlace,
      FoundFull, InOnePiece

(* What the files hold depends on nothing else.                            *)
LEMMA SameContent ==
  ASSUME UNCHANGED content
  PROVE  (\A f : Usage!Size(f)' = Usage!Size(f))
           /\ (\A r : Usage!Places(r)' = Usage!Places(r)) /\ (Bounded' = Bounded)
BY DEF Usage!Size, Usage!Places, Bounded

LEMMA Sizes == ASSUME Usage!TypeOK PROVE \A f \in Usage!Files : Usage!Size(f) \in Nat
BY DEF Usage!TypeOK, Usage!Size

-------------------------------------------------------------------------------
(* A step of a server that leaves the files' contents alone.               *)
LEMMA LogWriteStep ==
  ASSUME NEW rot, LogInv(rot), NEW s \in Servers, NEW r \in Records, Usage!Write(s, r)
  PROVE  LogInv(rot)'
<1> USE LogAssumption DEF Usage!Write, Usage!Goes, Usage!disk
<1>1. Usage!TypeOK'
  BY DEF LogInv, Usage!TypeOK
<1>2. Locked' /\ Assigned'
  BY DEF LogInv, Usage!TypeOK, Locked, Assigned
<1>3. Bounded' /\ Untouched' /\ \A q \in Records : InOnePiece(q)'
  BY SameContent DEF LogInv, Usage!TypeOK, Untouched, InOnePiece
<1>4. ASSUME NEW t \in Servers
      PROVE  Fresh(t)' /\ Appending(t)' /\ InPlace(t)' /\ FoundFull(t, rot)'
  BY SameContent
  DEF LogInv, Usage!TypeOK, Fresh, Before, Appending, InPlace, FoundFull
<1> QED
  BY <1>1, <1>2, <1>3, <1>4 DEF LogInv

LEMMA LogLockStep ==
  ASSUME NEW rot, LogInv(rot), NEW s \in Servers, Usage!Lock(s)
  PROVE  LogInv(rot)'
<1> USE LogAssumption DEF Usage!Lock, Usage!Goes, Usage!disk
<1>1. Usage!TypeOK'
  BY DEF LogInv, Usage!TypeOK
<1>2. Locked' /\ Assigned'
  BY DEF LogInv, Usage!TypeOK, Locked, Assigned
<1>3. Bounded' /\ Untouched' /\ \A q \in Records : InOnePiece(q)'
  BY SameContent DEF LogInv, Usage!TypeOK, Untouched, InOnePiece
<1>4. ASSUME NEW t \in Servers
      PROVE  Fresh(t)' /\ Appending(t)' /\ InPlace(t)' /\ FoundFull(t, rot)'
  BY SameContent
  DEF LogInv, Usage!TypeOK, Fresh, Before, Appending, InPlace, FoundFull
<1> QED
  BY <1>1, <1>2, <1>3, <1>4 DEF LogInv

(* Who holds the lock is alone in what it does with the log.               *)
LEMMA OnlyHolder ==
  ASSUME NEW rot, LogInv(rot), NEW s \in Servers, logPc[s] \notin {"idle", "lock"}
  PROVE  \A t \in Servers \ {s} : logPc[t] \in {"idle", "lock"}
BY DEF LogInv, Locked

LEMMA Opening ==
  ASSUME Usage!TypeOK, NEW s \in Servers, Usage!Opened(s, log)
  PROVE  \E f \in Usage!Files : log' = f /\ fd' = [fd EXCEPT ![s] = f]
BY LogAssumption DEF Usage!Opened, Usage!Unused, Usage!TypeOK

LEMMA LogRefreshStep ==
  ASSUME NEW rot, LogInv(rot), NEW s \in Servers, Usage!Refresh(s)
  PROVE  LogInv(rot)'
<1> USE LogAssumption DEF Usage!Goes
<1>0. \A t \in Servers \ {s} : logPc[t] \in {"idle", "lock"}
  BY OnlyHolder DEF Usage!Refresh
<1>1. /\ logPc[s] = "refresh"
      /\ UNCHANGED <<content, rotated, flock, record, chunks, logged, torn, removed>>
  BY DEF Usage!Refresh
<1>2. PICK l \in {"rotate", "fit"}, f \in Usage!Files \cup {None} :
        /\ logPc' = [logPc EXCEPT ![s] = l] /\ fd' = [fd EXCEPT ![s] = f]
        /\ l = "fit" => f \in Usage!Files /\ log' = f
        /\ l = "rotate" => log # None /\ Usage!Size(log) > MaxChunks /\ log' = log
  BY Opening DEF Usage!Refresh, LogInv
<1>3. Usage!TypeOK'
  <2>1. log' \in Usage!Files \cup {None}
    BY <1>2 DEF LogInv, Usage!TypeOK
  <2> QED
    BY <1>1, <1>2, <2>1 DEF LogInv, Usage!TypeOK, Usage!Files
<1>4. Locked' /\ Assigned'
  BY <1>1, <1>2 DEF LogInv, Usage!TypeOK, Locked, Assigned
<1>5. Bounded' /\ \A q \in Records : InOnePiece(q)'
  BY <1>1, SameContent DEF LogInv, InOnePiece
<1>6. Untouched'
  BY <1>1, <1>2, SameContent DEF LogInv, Usage!TypeOK, Untouched
<1>7. ASSUME NEW t \in Servers
      PROVE  Fresh(t)' /\ Appending(t)' /\ InPlace(t)' /\ FoundFull(t, rot)'
  BY <1>0, <1>1, <1>2, SameContent, Sizes
  DEF LogInv, Usage!TypeOK, Fresh, Before, Appending, InPlace, FoundFull
<1> QED
  BY <1>3, <1>4, <1>5, <1>6, <1>7 DEF LogInv

LEMMA LogRotateStep ==
  ASSUME NEW rot, LogInv(rot), NEW s \in Servers, Usage!Rotate(s)
  PROVE  LogInv(rot)'
<1> USE LogAssumption DEF Usage!Rotate, Usage!Goes
<1>0. \A t \in Servers \ {s} : logPc[t] \in {"idle", "lock"}
  BY OnlyHolder
<1>1. Usage!TypeOK'
  BY DEF LogInv, Usage!TypeOK
<1>2. Locked' /\ Assigned'
  BY DEF LogInv, Usage!TypeOK, Locked, Assigned
<1>3. Bounded' /\ Untouched' /\ \A q \in Records : InOnePiece(q)'
  BY SameContent DEF LogInv, Usage!TypeOK, Untouched, InOnePiece
<1>4. ASSUME NEW t \in Servers
      PROVE  Fresh(t)' /\ Appending(t)' /\ InPlace(t)' /\ FoundFull(t, rot)'
  BY <1>0, SameContent
  DEF LogInv, Usage!TypeOK, Fresh, Before, Appending, InPlace, FoundFull
<1> QED
  BY <1>1, <1>2, <1>3, <1>4 DEF LogInv

LEMMA LogCreateStep ==
  ASSUME NEW rot, LogInv(rot), NEW s \in Servers, Usage!Create(s)
  PROVE  LogInv(rot)'
<1> USE LogAssumption DEF Usage!Create, Usage!Goes
<1>0. \A t \in Servers \ {s} : logPc[t] \in {"idle", "lock"}
  BY OnlyHolder
<1>9. PICK f \in Usage!Files : log' = f /\ fd' = [fd EXCEPT ![s] = f]
  BY Opening DEF LogInv
<1>1. Usage!TypeOK'
  BY <1>9 DEF LogInv, Usage!TypeOK, Usage!Files
<1>2. Locked' /\ Assigned'
  BY DEF LogInv, Usage!TypeOK, Locked, Assigned
<1>3. Bounded' /\ Untouched' /\ \A q \in Records : InOnePiece(q)'
  BY SameContent DEF LogInv, Usage!TypeOK, Untouched, InOnePiece
<1>4. ASSUME NEW t \in Servers
      PROVE  Fresh(t)' /\ Appending(t)' /\ InPlace(t)' /\ FoundFull(t, rot)'
  BY <1>0, <1>9, SameContent
  DEF LogInv, Usage!TypeOK, Fresh, Before, Appending, InPlace, FoundFull
<1> QED
  BY <1>1, <1>2, <1>3, <1>4 DEF LogInv

(* The record fits, or the log is to be rotated, or left as it is.         *)
LEMMA LogFitStep ==
  ASSUME NEW rot, LogInv(rot), NEW s \in Servers, logPc[s] = "fit",
         NEW l \in {"append", "rotate", "unlock"}, Usage!Goes(s, l),
         l = "append" => Usage!Fits(s), l = "rotate" => ~Usage!Fits(s) /\ rot,
         UNCHANGED <<Usage!disk, flock, fd, record, chunks, logged, torn, removed>>
  PROVE  LogInv(rot)'
<1> USE LogAssumption DEF Usage!Goes, Usage!disk
<1>0. \A t \in Servers \ {s} : logPc[t] \in {"idle", "lock"}
  BY OnlyHolder
<1>1. Usage!TypeOK'
  BY DEF LogInv, Usage!TypeOK
<1>2. Locked' /\ Assigned'
  BY DEF LogInv, Usage!TypeOK, Locked, Assigned
<1>3. Bounded' /\ Untouched' /\ \A q \in Records : InOnePiece(q)'
  BY SameContent DEF LogInv, Usage!TypeOK, Untouched, InOnePiece
<1>4. Usage!Size(fd[s]) \in Nat /\ fd[s] \in Usage!Files
  BY Sizes DEF LogInv, Usage!TypeOK
<1>5. record[s] \in Records /\ Usage!Places(record[s]) = {}
  <2>1. record[s] \in Records /\ logged[record[s]] = None /\ record[s] \notin torn
    BY DEF LogInv, Usage!TypeOK, Assigned, Fresh, Before
  <2>2. \A t \in Servers : record[t] = record[s] => logPc[t] # "append"
    BY <2>1 DEF LogInv, Assigned
  <2> QED
    BY <2>1, <2>2 DEF LogInv, Untouched
<1>6. ASSUME NEW t \in Servers
      PROVE  Fresh(t)' /\ InPlace(t)'
  BY <1>0 DEF LogInv, Usage!TypeOK, Fresh, Before, InPlace
<1>7. ASSUME NEW t \in Servers
      PROVE  FoundFull(t, rot)'
  BY <1>0, <1>4, SameContent DEF LogInv, Usage!TypeOK, FoundFull, Usage!Fits, InPlace
<1>8. ASSUME NEW t \in Servers
      PROVE  Appending(t)'
  <2>1. CASE t # s
    BY <1>0, <2>1 DEF LogInv, Usage!TypeOK, Appending
  <2>2. CASE t = s /\ l = "append"
    <3>1. logPc'[s] = "append" /\ fd'[s] = fd[s] /\ chunks'[s] = 0 /\ record' = record
      BY <2>2 DEF LogInv, Usage!TypeOK, Fresh, Before
    <3>2. Usage!Size(fd[s])' = Usage!Size(fd[s]) /\ Usage!Places(record[s])' = {}
      BY <1>5, SameContent
    <3>3. Usage!Size(fd[s]) + 2 - 0 <= MaxChunks
            /\ (Usage!Size(fd[s]) - 0 + 1) .. Usage!Size(fd[s]) = {}
      BY <1>4, <2>2 DEF Usage!Fits
    <3> QED
      BY <1>4, <2>2, <3>1, <3>2, <3>3 DEF Appending, Usage!Size
  <2>3. CASE t = s /\ l # "append"
    BY <2>3 DEF LogInv, Usage!TypeOK, Appending
  <2> QED
    BY <2>1, <2>2, <2>3
<1> QED
  BY <1>1, <1>2, <1>3, <1>6, <1>7, <1>8 DEF LogInv

(* The record is whole in the file: it is confirmed.                       *)
LEMMA LogWrittenStep ==
  ASSUME NEW rot, LogInv(rot), NEW s \in Servers, Usage!Written(s)
  PROVE  LogInv(rot)' /\ (fd[s] = log' \/ fd[s] \in removed')
         /\ logged' = [logged EXCEPT ![record[s]] = fd[s]]
<1> USE LogAssumption DEF Usage!Written, Usage!Goes, Usage!disk
<1>0. \A t \in Servers \ {s} : logPc[t] \in {"idle", "lock"}
  BY OnlyHolder
<1>1. /\ record[s] \in Records /\ fd[s] \in Usage!Files /\ chunks[s] = 2
      /\ \A t \in Servers \ {s} : record[t] # record[s]
  BY DEF LogInv, Usage!TypeOK, Assigned
<1>2. Usage!TypeOK'
  BY <1>1 DEF LogInv, Usage!TypeOK
<1>3. Locked' /\ Assigned'
  BY DEF LogInv, Usage!TypeOK, Locked, Assigned
<1>4. Bounded'
  BY SameContent DEF LogInv
<1>5. Untouched'
  <2> SUFFICES ASSUME NEW r \in Records, logged'[r] = None, r \notin torn',
                      \A t \in Servers : record'[t] = r => logPc'[t] # "append"
               PROVE  Usage!Places(r)' = {}
    BY DEF Untouched
  <2>1. r # record[s] /\ logged[r] = None /\ r \notin torn
    BY <1>1 DEF LogInv, Usage!TypeOK
  <2>2. \A t \in Servers : record[t] = r => logPc[t] # "append"
    BY <2>1 DEF LogInv, Usage!TypeOK
  <2> QED
    BY <2>1, <2>2, SameContent DEF LogInv, Untouched
<1>6. ASSUME NEW r \in Records PROVE InOnePiece(r)'
  <2>1. CASE r # record[s]
    BY <1>1, <2>1, SameContent DEF LogInv, Usage!TypeOK, InOnePiece
  <2>2. CASE r = record[s]
    <3>1. /\ Usage!Size(fd[s]) \in Nat /\ 2 <= Usage!Size(fd[s])
               /\ Usage!Size(fd[s]) <= MaxChunks
          /\ Usage!Places(r) = {fd[s]}
               \X ((Usage!Size(fd[s]) - 2 + 1) .. Usage!Size(fd[s]))
      BY <1>1, <2>2, Sizes DEF LogInv, Appending
    <3> DEFINE i == Usage!Size(fd[s]) - 1
    <3>2. i \in Nat \ {0} /\ i + 1 <= MaxChunks + 1
            /\ Usage!Places(r) = {fd[s]} \X (i .. i + 1)
      BY <3>1
    <3>3. logged'[r] = fd[s] /\ Usage!Places(r)' = Usage!Places(r)
      BY <1>1, <2>2, SameContent DEF LogInv, Usage!TypeOK
    <3> QED
      BY <3>2, <3>3 DEF InOnePiece
  <2> QED
    BY <2>1, <2>2
<1>7. ASSUME NEW t \in Servers
      PROVE  Fresh(t)' /\ InPlace(t)' /\ FoundFull(t, rot)'
  <2>1. CASE t = s
    BY <2>1 DEF LogInv, Usage!TypeOK, Fresh, Before, InPlace, FoundFull
  <2>2. CASE t # s
    <3>1. logPc'[t] = logPc[t] /\ logPc[t] \in {"idle", "lock"}
      BY <1>0, <2>2 DEF LogInv, Usage!TypeOK
    <3>2. logged'[record[t]] = logged[record[t]] \/ logPc[t] = "idle"
      BY <1>1, <2>2, <3>1 DEF LogInv, Usage!TypeOK, Assigned
    <3> QED
      BY <3>1, <3>2 DEF LogInv, Usage!TypeOK, Fresh, Before, InPlace, FoundFull
  <2> QED
    BY <2>1, <2>2
<1>8. ASSUME NEW t \in Servers
      PROVE  Appending(t)'
  BY <1>0 DEF LogInv, Usage!TypeOK, Appending
<1>9. fd[s] = log' \/ fd[s] \in removed'
  BY DEF LogInv, InPlace
<1> QED
  BY <1>2, <1>3, <1>4, <1>5, <1>6, <1>7, <1>8, <1>9 DEF LogInv

(* A call fails; what was appended of the record stays there.              *)
LEMMA LogFailsStep ==
  ASSUME NEW rot, LogInv(rot), NEW s \in Servers, Usage!Fails(s)
  PROVE  LogInv(rot)'
<1> USE LogAssumption DEF Usage!Fails, Usage!Goes, Usage!disk
<1>0. \A t \in Servers \ {s} : logPc[t] \in {"idle", "lock"}
  BY OnlyHolder
<1>1. /\ record[s] \in Records
      /\ \A t \in Servers \ {s} : record[t] # record[s]
      /\ torn \subseteq torn' /\ torn' \subseteq torn \cup {record[s]}
      /\ chunks[s] # 0 => record[s] \in torn'
  BY DEF LogInv, Usage!TypeOK, Assigned, Usage!Torn
<1>2. Usage!TypeOK'
  BY <1>1 DEF LogInv, Usage!TypeOK
<1>3. Locked' /\ Assigned'
  BY DEF LogInv, Usage!TypeOK, Locked, Assigned
<1>4. Bounded' /\ \A q \in Records : InOnePiece(q)'
  BY SameContent DEF LogInv, InOnePiece
<1>5. Untouched'
  <2> SUFFICES ASSUME NEW r \in Records, logged'[r] = None, r \notin torn',
                      \A t \in Servers : record'[t] = r => logPc'[t] # "append"
               PROVE  Usage!Places(r) = {}
    BY SameContent DEF Untouched
  <2>1. r \notin torn /\ logged[r] = None
    BY <1>1
  <2>2. CASE r = record[s] /\ logPc[s] = "append"
    <3>1. chunks[s] = 0 /\ fd[s] \in Usage!Files
      BY <1>1, <2>2 DEF LogInv, Usage!TypeOK
    <3>2. Usage!Size(fd[s]) \in Nat
            /\ Usage!Places(r) = {fd[s]}
                 \X ((Usage!Size(fd[s]) - 0 + 1) .. Usage!Size(fd[s]))
      BY <2>2, <3>1, Sizes DEF LogInv, Appending
    <3>3. (Usage!Size(fd[s]) - 0 + 1) .. Usage!Size(fd[s]) = {}
      BY <3>2
    <3> QED
      BY <3>2, <3>3
  <2>3. CASE ~(r = record[s] /\ logPc[s] = "append")
    <3>1. \A t \in Servers : record[t] = r => logPc[t] # "append"
      BY <1>0, <2>3 DEF LogInv, Usage!TypeOK
    <3> QED
      BY <2>1, <3>1 DEF LogInv, Untouched
  <2> QED
    BY <2>2, <2>3
<1>6. ASSUME NEW t \in Servers
      PROVE  Fresh(t)' /\ Appending(t)' /\ InPlace(t)' /\ FoundFull(t, rot)'
  <2>1. CASE t = s
    BY <2>1 DEF LogInv, Usage!TypeOK, Fresh, Before, Appending, InPlace, FoundFull
  <2>2. CASE t # s
    <3>1. logPc'[t] = logPc[t] /\ logPc[t] \in {"idle", "lock"}
      BY <1>0, <2>2 DEF LogInv, Usage!TypeOK
    <3>2. record[t] # record[s]
      BY <1>1, <2>2
    <3> QED
      BY <1>1, <3>1, <3>2
      DEF LogInv, Usage!TypeOK, Assigned, Fresh, Before, Appending, InPlace,
          FoundFull
  <2> QED
    BY <2>1, <2>2
<1> QED
  BY <1>2, <1>3, <1>4, <1>5, <1>6 DEF LogInv

LEMMA LogUnlockStep ==
  ASSUME NEW rot, LogInv(rot), NEW s \in Servers, Usage!Unlock(s)
  PROVE  LogInv(rot)'
<1> USE LogAssumption DEF Usage!Unlock, Usage!Goes, Usage!disk
<1>0. \A t \in Servers \ {s} : logPc[t] \in {"idle", "lock"}
  BY OnlyHolder
<1>1. Usage!TypeOK'
  BY DEF LogInv, Usage!TypeOK
<1>2. Locked' /\ Assigned'
  BY <1>0 DEF LogInv, Usage!TypeOK, Locked, Assigned
<1>3. Bounded' /\ \A q \in Records : InOnePiece(q)'
  BY SameContent DEF LogInv, InOnePiece
<1>4. Untouched'
  BY <1>0, SameContent DEF LogInv, Usage!TypeOK, Untouched
<1>5. ASSUME NEW t \in Servers
      PROVE  Fresh(t)' /\ Appending(t)' /\ InPlace(t)' /\ FoundFull(t, rot)'
  BY <1>0 DEF LogInv, Usage!TypeOK, Fresh, Before, Appending, InPlace, FoundFull
<1> QED
  BY <1>1, <1>2, <1>3, <1>4, <1>5 DEF LogInv

(* A server is killed; what it appended of its record stays there.         *)
LEMMA LogKilledStep ==
  ASSUME NEW rot, LogInv(rot), NEW s \in Servers, Usage!Killed(s)
  PROVE  LogInv(rot)'
<1> USE LogAssumption DEF Usage!Killed, Usage!Goes, Usage!disk
<1>1. /\ record[s] \in Records
      /\ \A t \in Servers \ {s} : record[t] # record[s]
      /\ torn \subseteq torn' /\ torn' \subseteq torn \cup {record[s]}
      /\ logPc[s] = "append" /\ chunks[s] # 0 => record[s] \in torn'
  <2>1. record[s] \in Records /\ \A t \in Servers \ {s} : record[t] # record[s]
    BY DEF LogInv, Usage!TypeOK, Assigned
  <2>2. chunks[s] \in 0 .. 2
    BY DEF LogInv, Usage!TypeOK
  <2> QED
    BY <2>1, <2>2 DEF Usage!Torn
<1>2. Usage!TypeOK'
  BY <1>1 DEF LogInv, Usage!TypeOK
<1>3. Locked' /\ Assigned'
  BY DEF LogInv, Usage!TypeOK, Locked, Assigned
<1>4. Bounded' /\ \A q \in Records : InOnePiece(q)'
  BY SameContent DEF LogInv, InOnePiece
<1>5. Untouched'
  <2> SUFFICES ASSUME NEW r \in Records, logged'[r] = None, r \notin torn',
                      \A t \in Servers : record'[t] = r => logPc'[t] # "append"
               PROVE  Usage!Places(r) = {}
    BY SameContent DEF Untouched
  <2>1. r \notin torn /\ logged[r] = None
    BY <1>1
  <2>2. CASE r = record[s] /\ logPc[s] = "append"
    <3>1. chunks[s] = 0 /\ fd[s] \in Usage!Files
      BY <1>1, <2>2 DEF LogInv, Usage!TypeOK
    <3>2. Usage!Size(fd[s]) \in Nat
            /\ Usage!Places(r) = {fd[s]}
                 \X ((Usage!Size(fd[s]) - 0 + 1) .. Usage!Size(fd[s]))
      BY <2>2, <3>1, Sizes DEF LogInv, Appending
    <3>3. (Usage!Size(fd[s]) - 0 + 1) .. Usage!Size(fd[s]) = {}
      BY <3>2
    <3> QED
      BY <3>2, <3>3
  <2>3. CASE ~(r = record[s] /\ logPc[s] = "append")
    <3>1. \A t \in Servers \ {s} : record'[t] = record[t] /\ logPc'[t] = logPc[t]
      BY DEF LogInv, Usage!TypeOK
    <3>2. \A t \in Servers : record[t] = r => logPc[t] # "append"
      BY <2>3, <3>1
    <3> QED
      BY <2>1, <3>2 DEF LogInv, Untouched
  <2> QED
    BY <2>2, <2>3
<1>6. ASSUME NEW t \in Servers
      PROVE  Fresh(t)' /\ Appending(t)' /\ InPlace(t)' /\ FoundFull(t, rot)'
  <2>1. CASE t = s
    BY <2>1 DEF LogInv, Usage!TypeOK, Fresh, Before, Appending, InPlace, FoundFull
  <2>2. CASE t # s
    <3>1. /\ logPc'[t] = logPc[t] /\ record'[t] = record[t] /\ fd'[t] = fd[t]
          /\ record[t] # record[s]
      BY <1>1, <2>2 DEF LogInv, Usage!TypeOK
    <3>2. Fresh(t)'
      BY <1>1, <3>1 DEF LogInv, Fresh
    <3>3. Appending(t)' /\ InPlace(t)' /\ FoundFull(t, rot)'
      BY <3>1, SameContent DEF LogInv, Appending, InPlace, FoundFull
    <3> QED
      BY <3>2, <3>3
  <2> QED
    BY <2>1, <2>2
<1> QED
  BY <1>2, <1>3, <1>4, <1>5, <1>6 DEF LogInv

LEMMA LogRemoveStep ==
  ASSUME NEW rot, LogInv(rot), Usage!RemoveLog
  PROVE  LogInv(rot)'
<1> USE LogAssumption DEF Usage!RemoveLog, Usage!server
<1>1. Usage!TypeOK'
  BY DEF LogInv, Usage!TypeOK
<1>2. Locked' /\ Assigned'
  BY DEF LogInv, Locked, Assigned
<1>3. Bounded' /\ Untouched' /\ \A q \in Records : InOnePiece(q)'
  BY SameContent DEF LogInv, Untouched, InOnePiece
<1>4. ASSUME NEW t \in Servers
      PROVE  Fresh(t)' /\ Appending(t)' /\ InPlace(t)' /\ FoundFull(t, rot)'
  BY SameContent DEF LogInv, Fresh, Before, Appending, InPlace, FoundFull
<1> QED
  BY <1>1, <1>2, <1>3, <1>4 DEF LogInv

(* A chunk is appended: it is one more place of its record, at the end.    *)
LEMMA LogAppendStep ==
  ASSUME NEW rot, LogInv(rot), NEW s \in Servers, Usage!AppendChunk(s)
  PROVE  LogInv(rot)'
<1> USE LogAssumption
<1>0. \A t \in Servers \ {s} : logPc[t] \in {"idle", "lock"}
  BY OnlyHolder DEF Usage!AppendChunk
<1>1. PICK f \in Usage!Files, r \in Records, n \in Nat, c \in 0 .. 1 :
      /\ f = fd[s] /\ r = record[s] /\ n = Usage!Size(f) /\ c = chunks[s]
           /\ logPc[s] = "append"
      /\ n + 2 - c <= MaxChunks /\ c <= n /\ Usage!Places(r) = {f} \X ((n - c + 1) .. n)
      /\ logged[r] = None /\ r \notin torn
  <2>1. /\ logPc[s] = "append" /\ chunks[s] \in 0 .. 1 /\ fd[s] \in Usage!Files
        /\ record[s] \in Records
    BY DEF Usage!AppendChunk, LogInv, Usage!TypeOK, Assigned
  <2>2. Usage!Size(fd[s]) \in Nat /\ Fresh(s) /\ Appending(s)
    BY <2>1, Sizes DEF LogInv
  <2> QED
    BY <2>1, <2>2 DEF Appending, Fresh
<1>2. /\ content' = [content EXCEPT ![f] = Append(@, r)]
      /\ chunks' = [chunks EXCEPT ![s] = c + 1]
      /\ UNCHANGED <<log, rotated, flock, logPc, fd, record, logged, torn, removed>>
  BY <1>1 DEF Usage!AppendChunk
<1>3. content[f] \in Seq(Records \cup {None}) /\ n = Len(content[f])
  BY <1>1 DEF LogInv, Usage!TypeOK, Usage!Size
<1>4. /\ content'[f] = Append(content[f], r)
      /\ \A g \in Usage!Files \ {f} : content'[g] = content[g]
  BY <1>1, <1>2 DEF LogInv, Usage!TypeOK
<1>4a. \A i \in 1 .. n + 1 :
         Append(content[f], r)[i] = IF i <= n THEN content[f][i] ELSE r
  BY <1>1, <1>3
<1>4b. content'[f][n + 1] = r /\ \A i \in 1 .. n : content'[f][i] = content[f][i]
  <2>1. \A i \in 1 .. n + 1 : content'[f][i] = IF i <= n THEN content[f][i] ELSE r
    BY <1>4a, <1>4
  <2>2. n + 1 \in 1 .. n + 1 /\ ~(n + 1 <= n) /\ \A i \in 1 .. n : i \in 1 .. n + 1
          /\ i <= n
    BY <1>1
  <2> QED
    BY <2>1, <2>2
<1>5. Usage!Size(f)' = n + 1
        /\ \A g \in Usage!Files \ {f} : Usage!Size(g)' = Usage!Size(g)
  BY <1>2, <1>3, <1>4 DEF Usage!Size
<1>6. Usage!TypeOK'
  <2>1. content' \in [Usage!Files -> Seq(Records \cup {None})]
    BY <1>1, <1>2, <1>3 DEF LogInv, Usage!TypeOK
  <2> QED
    BY <1>1, <1>2, <2>1 DEF LogInv, Usage!TypeOK, Usage!Files
<1>7. \A q \in Records \ {r} : Usage!Places(q)' = Usage!Places(q)
  <2> SUFFICES ASSUME NEW q \in Records \ {r}, NEW g \in Usage!Files,
                      NEW i \in 1 .. MaxChunks + 1
               PROVE  (i <= Usage!Size(g)' /\ content'[g][i] = q)
                        <=> (i <= Usage!Size(g) /\ content[g][i] = q)
    BY DEF Usage!Places, Usage!Files
  <2>1. CASE g = f
    <3>1. CASE i <= n
      BY <1>1, <1>4b, <1>5, <2>1, <3>1
    <3>2. CASE i = n + 1
      BY <1>1, <1>4b, <1>5, <2>1, <3>2
    <3>3. CASE i > n + 1
      BY <1>1, <1>5, <2>1, <3>3
    <3> QED
      BY <1>1, <3>1, <3>2, <3>3
  <2>2. CASE g # f
    BY <1>4, <1>5, <2>2
  <2> QED
    BY <2>1, <2>2
<1>8. Usage!Places(r)' = Usage!Places(r) \cup {<<f, n + 1>>}
  <2>1. n + 1 \in 1 .. MaxChunks + 1
    BY <1>1
  <2>2. ASSUME NEW g \in Usage!Files, NEW i \in 1 .. MaxChunks + 1
        PROVE  (i <= Usage!Size(g)' /\ content'[g][i] = r)
               <=> (i <= Usage!Size(g) /\ content[g][i] = r) \/ (g = f /\ i = n + 1)
    <3>1. CASE g = f
      <4>1. CASE i <= n
        BY <1>1, <1>4b, <1>5, <3>1, <4>1
      <4>2. CASE i = n + 1
        BY <1>1, <1>4b, <1>5, <3>1, <4>2
      <4>3. CASE i > n + 1
        BY <1>1, <1>5, <3>1, <4>3
      <4> QED
        BY <1>1, <4>1, <4>2, <4>3
    <3>2. CASE g # f
      BY <1>4, <1>5, <3>2
    <3> QED
      BY <3>1, <3>2
  <2> QED
    <3>1. ASSUME NEW p \in Usage!Files \X (1 .. MaxChunks + 1)
          PROVE  (p[2] <= Usage!Size(p[1])' /\ content'[p[1]][p[2]] = r)
                 <=> (p[2] <= Usage!Size(p[1])
                   /\ content[p[1]][p[2]] = r) \/ p = <<f, n + 1>>
      <4>1. /\ p[1] \in Usage!Files /\ p[2] \in 1 .. MaxChunks + 1
            /\ p = <<f, n + 1>> <=> (p[1] = f /\ p[2] = n + 1)
        OBVIOUS
      <4> QED
        BY <2>2, <4>1
    <3>2. <<f, n + 1>> \in Usage!Files \X (1 .. MaxChunks + 1)
      BY <1>1, <2>1
    <3>3. Usage!Files' = Usage!Files
      BY DEF Usage!Files
    <3> QED
      BY <3>1, <3>2, <3>3 DEF Usage!Places
<1>9. Locked' /\ Assigned' /\ \A t \in Servers : Fresh(t)' /\ InPlace(t)'
  BY <1>0, <1>1, <1>2
  DEF LogInv, Usage!TypeOK, Locked, Assigned, Fresh, Before, InPlace
<1>10. Bounded'
  <2>1. n + 1 <= MaxChunks
    BY <1>1
  <2> QED
    BY <1>5, <2>1 DEF LogInv, Bounded, Usage!Files
<1>11. Untouched'
  BY <1>1, <1>2, <1>7 DEF LogInv, Untouched
<1>12. \A q \in Records : InOnePiece(q)'
  BY <1>1, <1>2, <1>7 DEF LogInv, InOnePiece
<1>13. \A t \in Servers : FoundFull(t, rot)'
  BY <1>0, <1>1, <1>2 DEF FoundFull
<1>14. ASSUME NEW t \in Servers PROVE Appending(t)'
  <2>1. CASE t = s
    <3>1. (n + 1 - (c + 1) + 1) .. (n + 1) = ((n - c + 1) .. n) \cup {n + 1}
      BY <1>1
    <3>2. Usage!Places(r)' = {f} \X ((n + 1 - (c + 1) + 1) .. (n + 1))
      BY <1>1, <1>8, <3>1
    <3>3. /\ fd'[s] = f /\ record'[s] = r /\ chunks'[s] = c + 1
      BY <1>1, <1>2 DEF LogInv, Usage!TypeOK
    <3>5. n + 1 + 2 - (c + 1) <= MaxChunks /\ c + 1 <= n + 1
      BY <1>1
    <3>6. Usage!Size(fd[s])' = n + 1 /\ Usage!Places(record[s])' = Usage!Places(r)'
      BY <1>5, <3>3 DEF Usage!Size, Usage!Places
    <3>4. Appending(s)'
      BY <3>2, <3>3, <3>5, <3>6 DEF Appending
    <3> QED
      BY <2>1, <3>4
  <2>2. CASE t # s
    BY <1>0, <1>2, <2>2 DEF Appending
  <2> QED
    BY <2>1, <2>2
<1> QED
  BY <1>6, <1>9, <1>10, <1>11, <1>12, <1>13, <1>14 DEF LogInv

LEMMA LogStill ==
  ASSUME NEW rot, LogInv(rot), UNCHANGED Usage!vars
  PROVE  LogInv(rot)'
<1> USE DEF Usage!vars, Usage!disk, Usage!server
<1>1. Usage!TypeOK' /\ Locked' /\ Assigned'
  BY DEF LogInv, Usage!TypeOK, Locked, Assigned
<1>2. Bounded' /\ Untouched' /\ \A q \in Records : InOnePiece(q)'
  BY SameContent DEF LogInv, Untouched, InOnePiece
<1>3. ASSUME NEW t \in Servers
      PROVE  Fresh(t)' /\ Appending(t)' /\ InPlace(t)' /\ FoundFull(t, rot)'
  BY SameContent DEF LogInv, Fresh, Before, Appending, InPlace, FoundFull
<1> QED
  BY <1>1, <1>2, <1>3 DEF LogInv

-------------------------------------------------------------------------------
(* What the invariant says of the properties.                              *)
LEMMA LogFollows ==
  ASSUME NEW rot, LogInv(rot)
  PROVE  Usage!TypeOK /\ Usage!ConfirmedWhole /\ Usage!NeverTooLong
<1>1. ASSUME NEW r \in Records, logged[r] # None
      PROVE  \E p \in Usage!Places(r) : p[1] = logged[r]
               /\ Usage!Places(r) = {p, <<p[1], p[2] + 1>>}
  <2>1. PICK i \in Nat \ {0} : Usage!Places(r) = {logged[r]} \X (i .. i + 1)
    BY <1>1 DEF LogInv, InOnePiece
  <2>2. i .. i + 1 = {i, i + 1}
    OBVIOUS
  <2> WITNESS <<logged[r], i>> \in Usage!Places(r)
  <2> QED
    BY <2>1, <2>2
<1>2. Usage!ConfirmedWhole
  BY <1>1 DEF Usage!ConfirmedWhole
<1>3. Usage!NeverTooLong
  BY DEF LogInv, Usage!NeverTooLong, Bounded
<1> QED
  BY <1>2, <1>3 DEF LogInv

(* A rotation drops what precedes a log that was found full.               *)
LEMMA RotateDrops ==
  ASSUME NEW rot, LogInv(rot), NEW s \in Servers, Usage!Rotate(s)
  PROVE  Usage!Size(log) + 2 > MaxChunks /\ (rot \/ Usage!Size(log) > MaxChunks)
BY DEF LogInv, FoundFull, Usage!Rotate

-------------------------------------------------------------------------------
(* The entry of Codex.                                                     *)

Entries ==
  [marker : BOOLEAN, command : Servers \cup {Other}, enabled : BOOLEAN,
   launch : {None, "some", "exact", "unapproved", "field", "url"},
   tools : {None} \cup [names : SUBSET Policy!Tools],
   disabled : SUBSET Policy!Tools, timeout : {None, "short", "legacy", "enough"},
   choice : {None, "default", "own"}]

PolicyInv == (entry = None \/ entry \in Entries) /\ Policy!InstallSettles

Fields == {"marker", "command", "enabled", "launch", "tools", "disabled", "timeout",
           "choice"}

LEMMA Domain ==
  /\ DOMAIN Policy!Values = Fields
  /\ Policy!Values.marker = BOOLEAN /\ Policy!Values.command = Servers \cup {Other}
  /\ Policy!Values.enabled = BOOLEAN
  /\ Policy!Values.launch = {None, "some", "exact", "unapproved", "field", "url"}
  /\ Policy!Values.tools = {None} \cup {[names |-> s] : s \in SUBSET Policy!Tools}
  /\ Policy!Values.disabled = SUBSET Policy!Tools
  /\ Policy!Values.timeout = {None, "short", "legacy", "enough"}
  /\ Policy!Values.choice = {None, "default", "own"}
BY DEF Policy!Values, Fields

LEMMA ToolLists == {[names |-> s] : s \in SUBSET Policy!Tools} = [names : SUBSET Policy!Tools]
<1>1. ASSUME NEW l \in [names : SUBSET Policy!Tools]
      PROVE  l.names \in SUBSET Policy!Tools /\ l = [names |-> l.names]
  OBVIOUS
<1>2. [names : SUBSET Policy!Tools] \subseteq {[names |-> s] : s \in SUBSET Policy!Tools}
  <2> SUFFICES ASSUME NEW l \in [names : SUBSET Policy!Tools]
               PROVE  \E s \in SUBSET Policy!Tools : l = [names |-> s]
    OBVIOUS
  <2> WITNESS l.names \in SUBSET Policy!Tools
  <2> QED
    BY <1>1
<1>3. {[names |-> s] : s \in SUBSET Policy!Tools} \subseteq [names : SUBSET Policy!Tools]
  OBVIOUS
<1> QED
  BY <1>2, <1>3

(* What the defaults make of an entry.                                     *)
LEMMA DefaultsAre ==
  ASSUME NEW e \in Entries, NEW g \in Servers
  PROVE  LET d == Policy!Defaults(e, g) IN
         /\ d \in Entries
         /\ d.marker /\ d.command = g /\ d.enabled /\ d.launch = "exact"
         /\ d.tools = Policy!WithRecovery(e.tools) /\ d.disabled = e.disabled
         /\ d.timeout = (IF e.timeout \in {None, "legacy"} THEN "enough" ELSE e.timeout)
         /\ d.choice = Policy!Default(e.choice, "default")
<1>1. Policy!WithRecovery(e.tools) \in [names : SUBSET Policy!Tools]
  BY DEF Policy!WithRecovery, Policy!Named, Policy!Tools, Entries
<1>2. Policy!Default(e.choice, "default") \in {"default", "own"}
  BY DEF Policy!Default, Entries
<1> QED
  BY <1>1, <1>2 DEF Policy!Defaults, Entries

(* An explicit list of tools stays what it is, but for the recovery.       *)
LEMMA RecoveryIs ==
  ASSUME NEW tools \in {None} \cup [names : SUBSET Policy!Tools]
  PROVE  LET w == Policy!WithRecovery(tools) IN
         /\ Policy!Named(w) = Policy!Named(tools)
              \cup (IF "execute" \in Policy!Named(tools) THEN {"recover"} ELSE {})
         /\ Policy!WithRecovery(w) = w
         /\ Policy!Named(w) \subseteq Policy!Tools
<1>1. Policy!Named(tools) \subseteq Policy!Tools
  BY DEF Policy!Named
<1>2. Policy!WithRecovery(tools) \in [names : SUBSET Policy!Tools]
  BY <1>1 DEF Policy!WithRecovery, Policy!Tools
<1>3. Policy!WithRecovery(tools) # None
  BY <1>2, PolicyAssumption
<1> QED
  BY <1>1, <1>2, <1>3 DEF Policy!WithRecovery, Policy!Named

LEMMA NothingIsThere == Policy!Empty \in Entries
BY DEF Policy!Empty, Entries

(* What an installation accepts, it settles.                               *)
LEMMA Settles ==
  ASSUME NEW e \in Entries \cup {None}, NEW g \in Servers, NEW force \in BOOLEAN,
         Policy!Accepted(e, g, force)
  PROVE  LET d == Policy!Installed(e, g, force) IN
         /\ d \in Entries
         /\ d # None =>
              /\ Policy!Registered(d, g)
              /\ "execute" \in Policy!Callable(d) => "recover" \in Policy!Callable(d)
              /\ Policy!Owned([d EXCEPT !.marker = FALSE])
              /\ Policy!Accepted(d, g, FALSE) /\ Policy!Installed(d, g, FALSE) = d
<1> SUFFICES ASSUME NEW d, d = Policy!Installed(e, g, force)
             PROVE  /\ d \in Entries
                    /\ d # None =>
                         /\ Policy!Registered(d, g)
                         /\ "execute" \in Policy!Callable(d)
                              => "recover" \in Policy!Callable(d)
                         /\ Policy!Owned([d EXCEPT !.marker = FALSE])
                         /\ Policy!Accepted(d, g, FALSE)
                              /\ Policy!Installed(d, g, FALSE) = d
  OBVIOUS
<1>1. PICK b \in Entries : d = Policy!Defaults(b, g)
  BY NothingIsThere DEF Policy!Installed
<1>2. /\ d \in Entries /\ d.marker /\ d.command = g /\ d.enabled /\ d.launch = "exact"
      /\ d.tools = Policy!WithRecovery(b.tools)
      /\ d.choice = Policy!Default(b.choice, "default")
  BY <1>1, DefaultsAre
<1>3. Policy!Acceptable(d)
  BY DEF Policy!Accepted
<1>4. /\ Policy!WithRecovery(d.tools) = d.tools
      /\ "execute" \in Policy!Named(d.tools) => "recover" \in Policy!Named(d.tools)
  <2>1. b.tools \in {None} \cup [names : SUBSET Policy!Tools]
    BY DEF Entries
  <2> QED
    BY <1>2, <2>1, RecoveryIs
<1>5. Policy!Default(d.choice, "default") = d.choice
  BY <1>2, PolicyAssumption DEF Policy!Default
<1>6. Policy!Defaults(d, g) = d
  <2>1. /\ Policy!Defaults(d, g) \in Entries
        /\ Policy!Defaults(d, g).marker /\ Policy!Defaults(d, g).command = g
        /\ Policy!Defaults(d, g).enabled /\ Policy!Defaults(d, g).launch = "exact"
        /\ Policy!Defaults(d, g).tools = Policy!WithRecovery(d.tools)
        /\ Policy!Defaults(d, g).disabled = d.disabled
        /\ Policy!Defaults(d, g).timeout =
             (IF d.timeout \in {None, "legacy"} THEN "enough" ELSE d.timeout)
        /\ Policy!Defaults(d, g).choice = Policy!Default(d.choice, "default")
    BY <1>2, DefaultsAre
  <2>3. d.timeout = "enough" /\ "enough" # None
    BY <1>3, PolicyAssumption DEF Policy!Acceptable
  <2>4. d.marker = TRUE /\ d.enabled = TRUE
    BY <1>2 DEF Entries
  <2>5. Policy!Defaults(d, g).marker = TRUE /\ Policy!Defaults(d, g).enabled = TRUE
    BY <2>1 DEF Entries
  <2>2. /\ Policy!Defaults(d, g).marker = d.marker
             /\ Policy!Defaults(d, g).command = d.command
        /\ Policy!Defaults(d, g).enabled = d.enabled
             /\ Policy!Defaults(d, g).launch = d.launch
        /\ Policy!Defaults(d, g).tools = d.tools
             /\ Policy!Defaults(d, g).disabled = d.disabled
        /\ Policy!Defaults(d, g).timeout = d.timeout
             /\ Policy!Defaults(d, g).choice = d.choice
    BY <1>2, <1>4, <1>5, <2>1, <2>3, <2>4, <2>5
  <2> QED
    <3>1. \A x, y \in Entries :
            (/\ x.marker = y.marker /\ x.command = y.command /\ x.enabled = y.enabled
             /\ x.launch = y.launch /\ x.tools = y.tools /\ x.disabled = y.disabled
             /\ x.timeout = y.timeout /\ x.choice = y.choice)
            => x = y
      BY DEF Entries
    <3> QED
      BY <1>2, <2>1, <2>2, <3>1
<1>7. "execute" \in Policy!Callable(d) => "recover" \in Policy!Callable(d)
  BY <1>3, <1>4 DEF Policy!Acceptable, Policy!Callable
<1>8. Policy!Owned([d EXCEPT !.marker = FALSE])
  BY <1>2 DEF Policy!Owned, Entries
<1>9. d # None => Policy!Installed(d, g, FALSE) = d
  BY <1>6 DEF Policy!Installed
<1>10. d # None => Policy!Accepted(d, g, FALSE)
  BY <1>2, <1>3, <1>9 DEF Policy!Accepted, Policy!Owned, Policy!Preservable
<1> QED
  BY <1>2, <1>7, <1>8, <1>9, <1>10 DEF Policy!Registered

LEMMA PolicyInit == Policy!Init => PolicyInv
BY DEF Policy!Init, PolicyInv, Policy!InstallSettles

LEMMA PolicyStep == ASSUME PolicyInv, [Policy!Next]_Policy!policyVars PROVE PolicyInv'
<1>1. ASSUME NEW g \in Servers, NEW force \in BOOLEAN, Policy!Install(g, force)
      PROVE  PolicyInv'
  <2>1. CASE Policy!Accepted(entry, g, force)
               /\ entry' = Policy!Installed(entry, g, force)
    <3>1. /\ entry' \in Entries
          /\ entry' # None =>
              /\ Policy!Registered(entry', g)
              /\ "execute" \in Policy!Callable(entry')
                   => "recover" \in Policy!Callable(entry')
              /\ Policy!Owned([entry' EXCEPT !.marker = FALSE])
              /\ Policy!Accepted(entry', g, FALSE)
                   /\ Policy!Installed(entry', g, FALSE) = entry'
      BY <2>1, Settles DEF PolicyInv
    <3> QED
      BY <3>1 DEF PolicyInv, Policy!InstallSettles
  <2>2. CASE ran' = "refused" /\ UNCHANGED entry
    BY <2>2 DEF PolicyInv, Policy!InstallSettles
  <2> QED
    BY <1>1, <2>1, <2>2 DEF Policy!Install
<1>2. ASSUME NEW force \in BOOLEAN, Policy!Uninstall(force)
      PROVE  PolicyInv'
  BY <1>2 DEF Policy!Uninstall, Policy!Done, PolicyInv, Policy!InstallSettles
<1>3. CASE Policy!Change
  <2>1. ran' = "user"
    BY <1>3 DEF Policy!Change
  <2>2. CASE entry' = Policy!Empty
    BY <2>1, <2>2, NothingIsThere DEF PolicyInv, Policy!InstallSettles
  <2>3. CASE entry' # Policy!Empty
    <3>1. PICK f \in Fields \ {"marker"} : \E v \in Policy!Values[f] :
            entry' = [entry EXCEPT ![f] = v]
      BY <1>3, <2>3, Domain DEF Policy!Change
    <3>2. entry \in Entries
      BY <1>3, <2>3 DEF Policy!Change, PolicyInv
    <3>3. entry' \in Entries
      BY <3>1, <3>2, Domain, ToolLists DEF Entries, Fields
    <3> QED
      BY <2>1, <3>3 DEF PolicyInv, Policy!InstallSettles
  <2> QED
    BY <2>2, <2>3
<1>4. CASE Policy!DropComments
  BY <1>4 DEF Policy!DropComments, PolicyInv, Policy!InstallSettles, Entries
<1>5. CASE UNCHANGED Policy!policyVars
  BY <1>5 DEF Policy!policyVars, PolicyInv, Policy!InstallSettles
<1> QED
  BY <1>1, <1>2, <1>3, <1>4, <1>5 DEF Policy!Next

LEMMA PolicyFollows == PolicyInv => Policy!TypeOK /\ Policy!InstallSettles
<1> SUFFICES ASSUME PolicyInv, entry \in Entries
             PROVE  \A f \in Fields : entry[f] \in Policy!Values[f]
  BY Domain DEF PolicyInv, Policy!TypeOK
<1> QED
  BY Domain, ToolLists DEF Entries, Fields

(* Without force an entry is replaced or removed only by its owner.        *)
LEMMA ChoicesStay == ASSUME PolicyInv, Policy!Next PROVE Policy!ChoicesKept
<1> SUFFICES ASSUME entry # None, ran' \in {"install", "uninstall"}
             PROVE  /\ entry.marker \/ entry.command # Other
                    /\ entry' # None =>
                         /\ entry'.disabled = entry.disabled
                         /\ entry.choice \in {None, entry'.choice}
                         /\ Policy!Named(entry'.tools)
                              \ {"recover"} = Policy!Named(entry.tools) \ {"recover"}
  BY DEF Policy!ChoicesKept
<1>1. entry \in Entries
  BY DEF PolicyInv
<1>2. Policy!Owned(entry) => entry.marker \/ entry.command # Other
  BY PolicyAssumption DEF Policy!Owned
<1>3. ASSUME NEW g \in Servers, NEW force \in BOOLEAN, Policy!Install(g, force)
      PROVE  /\ Policy!Owned(entry)
             /\ entry'.disabled = entry.disabled
             /\ entry.choice \in {None, entry'.choice}
             /\ Policy!Named(entry'.tools) \ {"recover"} = Policy!Named(entry.tools)
                  \ {"recover"}
  <2>1. ~force /\ Policy!Accepted(entry, g, force) /\ entry' = Policy!Defaults(entry, g)
    BY <1>3 DEF Policy!Install, Policy!Done, Policy!Installed
  <2>2. entry.tools \in {None} \cup [names : SUBSET Policy!Tools]
    BY <1>1 DEF Entries
  <2> QED
    BY <1>1, <2>1, <2>2, DefaultsAre, RecoveryIs DEF Policy!Accepted, Policy!Default
<1>4. ASSUME NEW force \in BOOLEAN, Policy!Uninstall(force)
      PROVE  Policy!Owned(entry) /\ entry' = None
  BY <1>4 DEF Policy!Uninstall, Policy!Done
<1>5. ~Policy!Change /\ ~Policy!DropComments
  BY DEF Policy!Change, Policy!DropComments
<1> QED
  BY <1>2, <1>3, <1>4, <1>5 DEF Policy!Next

-------------------------------------------------------------------------------
(* The two kinds of logs differ in what is done with a full one.           *)
LEMMA SameSteps ==
  ASSUME NEW s \in Servers
  PROVE  /\ \A r \in Records : Server!Write(s, r) => Usage!Write(s, r)
         /\ Server!Lock(s) => Usage!Lock(s)
         /\ Server!Refresh(s) => Usage!Refresh(s)
         /\ Server!Rotate(s) => Usage!Rotate(s)
         /\ Server!Create(s) => Usage!Create(s)
         /\ Server!AppendChunk(s) => Usage!AppendChunk(s)
         /\ Server!Written(s) => Usage!Written(s)
         /\ Server!Fails(s) => Usage!Fails(s)
         /\ Server!Unlock(s) => Usage!Unlock(s)
         /\ Server!Killed(s) => Usage!Killed(s)
<1> USE DEF Server!Goes, Usage!Goes, Server!disk, Usage!disk
<1>1. \A r \in Records : Server!Write(s, r) => Usage!Write(s, r)
  BY DEF Server!Write, Usage!Write
<1>2. Server!Lock(s) => Usage!Lock(s)
  BY DEF Server!Lock, Usage!Lock
<1>3. Server!Opened(s, log) = Usage!Opened(s, log)
        /\ \A f : Server!Size(f) = Usage!Size(f)
  BY DEF Server!Opened, Usage!Opened, Server!Unused, Usage!Unused, Server!Files,
         Usage!Files, Server!Size, Usage!Size
<1>4. Server!Refresh(s) => Usage!Refresh(s)
  BY <1>3 DEF Server!Refresh, Usage!Refresh
<1>5. Server!Rotate(s) => Usage!Rotate(s)
  BY DEF Server!Rotate, Usage!Rotate
<1>6. Server!Create(s) => Usage!Create(s)
  BY <1>3 DEF Server!Create, Usage!Create
<1>7. Server!AppendChunk(s) => Usage!AppendChunk(s)
  BY DEF Server!AppendChunk, Usage!AppendChunk
<1>8. Server!Written(s) => Usage!Written(s)
  BY DEF Server!Written, Usage!Written
<1>9. Server!Torn(s) = Usage!Torn(s)
  BY DEF Server!Torn, Usage!Torn
<1>10. Server!Fails(s) => Usage!Fails(s)
  BY <1>9 DEF Server!Fails, Usage!Fails
<1>11. Server!Unlock(s) => Usage!Unlock(s)
  BY DEF Server!Unlock, Usage!Unlock
<1>12. Server!Killed(s) => Usage!Killed(s)
  BY <1>9 DEF Server!Killed, Usage!Killed
<1> QED
  BY <1>1, <1>2, <1>4, <1>5, <1>6, <1>7, <1>8, <1>10, <1>11, <1>12

(* A step that both kinds of logs take; what it confirms is in place, and  *)
(* what it rotates is full.                                                *)
Common(s) ==
  \/ \E r \in Records : Usage!Write(s, r)
  \/ Usage!Lock(s) \/ Usage!Refresh(s) \/ Usage!Rotate(s) \/ Usage!Create(s)
  \/ Usage!AppendChunk(s) \/ Usage!Written(s) \/ Usage!Fails(s) \/ Usage!Unlock(s)
  \/ Usage!Killed(s)

Rightly(rot) ==
  /\ Usage!ConfirmedInPlace
  /\ rotated' # rotated =>
       Usage!Size(log) + 2 > MaxChunks /\ (rot \/ Usage!Size(log) > MaxChunks)

LEMMA CommonStep ==
  ASSUME NEW rot, LogInv(rot), NEW s \in Servers, Common(s)
  PROVE  LogInv(rot)' /\ Rightly(rot)
<1>1. CASE Usage!Written(s)
  <2>1. /\ LogInv(rot)' /\ (fd[s] = log' \/ fd[s] \in removed')
        /\ logged' = [logged EXCEPT ![record[s]] = fd[s]]
    BY <1>1, LogWrittenStep
  <2>2. logged \in [Records -> Usage!Files \cup {None}] /\ log' = log
          /\ rotated' = rotated
        /\ removed' = removed
    BY <1>1 DEF LogInv, Usage!TypeOK, Usage!Written, Usage!disk
  <2>3. \A r \in Records : logged'[r] # logged[r] => logged'[r] = fd[s]
    BY <2>1, <2>2
  <2> QED
    BY <2>1, <2>2, <2>3 DEF Rightly, Usage!ConfirmedInPlace
<1>2. CASE Usage!Rotate(s)
  <2>1. logged' = logged
    BY <1>2 DEF Usage!Rotate
  <2> QED
    BY <1>2, <2>1, LogRotateStep, RotateDrops DEF Rightly, Usage!ConfirmedInPlace
<1>3. CASE ~Usage!Written(s) /\ ~Usage!Rotate(s)
  <2>1. logged' = logged /\ rotated' = rotated
    BY <1>3
    DEF Common, Usage!Write, Usage!Lock, Usage!Refresh, Usage!Create,
        Usage!AppendChunk, Usage!Fails, Usage!Unlock, Usage!Killed, Usage!disk
  <2>2. LogInv(rot)'
    BY <1>3, LogWriteStep, LogLockStep, LogRefreshStep, LogCreateStep, LogAppendStep,
       LogFailsStep, LogUnlockStep, LogKilledStep
    DEF Common
  <2> QED
    BY <2>1, <2>2 DEF Rightly, Usage!ConfirmedInPlace
<1> QED
  BY <1>1, <1>2, <1>3

LEMMA UserStep ==
  ASSUME NEW rot, LogInv(rot), Usage!RemoveLog
  PROVE  LogInv(rot)' /\ Rightly(rot)
BY LogRemoveStep DEF Rightly, Usage!ConfirmedInPlace, Usage!RemoveLog

LEMMA UsageFits ==
  ASSUME LogInv(TRUE), NEW s \in Servers, Usage!Fit(s)
  PROVE  LogInv(TRUE)' /\ Rightly(TRUE)
<1>1. PICK l \in {"append", "rotate", "unlock"} :
        Usage!Goes(s, l) /\ (l = "append" => Usage!Fits(s)) /\ (l = "rotate"
          => ~Usage!Fits(s))
  BY DEF Usage!Fit
<1> QED
  BY <1>1, LogFitStep DEF Usage!Fit, Rightly, Usage!ConfirmedInPlace, Usage!disk

LEMMA ServerFits ==
  ASSUME LogInv(FALSE), NEW s \in Servers, Server!Fit(s)
  PROVE  LogInv(FALSE)' /\ Rightly(FALSE)
<1>1. PICK l \in {"append", "unlock"} : Usage!Goes(s, l) /\ (l = "append"
        => Usage!Fits(s))
  BY DEF Server!Fit, Server!Goes, Usage!Goes, Server!Fits, Usage!Fits, Server!Size,
         Usage!Size
<1>2. logPc[s] = "fit"
        /\ UNCHANGED <<Usage!disk, flock, fd, record, chunks, logged, torn, removed>>
  BY DEF Server!Fit, Server!disk, Usage!disk
<1> QED
  BY <1>1, <1>2, LogFitStep DEF Rightly, Usage!ConfirmedInPlace, Usage!disk

-------------------------------------------------------------------------------
(* The configuration of Codex, on POSIX and on Windows.                    *)

(* A file with the entry of the helper, and the text that a file has.      *)
Registers(f) == f # None /\ f.text.ours
NumberOf(f) == Codex!TextOf(f).number

(* What is written down for a restoration, and where a job stands:         *)
(* looking at what is there, putting a text in its place or deleting it,   *)
(* with a file of its own beside the configuration.                        *)
Manifests == [existed : BOOLEAN, original : Codex!Texts, installed : Codex!Texts]
Looking   == {"prepared", "save", "recheck"}
Replacing == {"write", "link", "exchange", "replace", "audit", "recover", "back",
              "reaudit", "unreplaced"}
Swapping  == {"exchange", "replace", "audit", "recover", "back", "reaudit", "unreplaced"}
Deleting  == {"delete", "quarantine", "inspect"}
Holding   == {"link", "exchange", "replace", "audit", "recover", "back", "reaudit",
              "unreplaced", "inspect"}
Restores == job \in {"undo", "rollback"}

CodexTyped ==
  /\ Codex!TypeOK /\ manifest \in Manifests \cup {None}

(* What a job is about, and how far it has come.                           *)
JobsRight ==
  /\ job = "none" <=> configPc = "idle"
  /\ job = "install" => configPc \in Looking \cup Replacing \cup {"sync", "handler"}
  /\ Restores => configPc \in Replacing \cup Deleting \cup {"sync", "restore"}
  /\ job = "undo" => forced /\ failures >= 1
  /\ job = "none" /\ result = "none" => manifest = None /\ backup = None /\ failures = 0

(* What can be restored has no entry, and its text is saved.               *)
ManifestRight ==
  manifest # None =>
    /\ ~manifest.original.ours
    /\ manifest.installed = Codex!Ours(manifest.original.number)
    /\ IF manifest.existed THEN backup = manifest.original ELSE manifest.original.number = 0

(* An installation is of the text that it found, with the entry added, and *)
(* writes down what it found before it writes.                             *)
InstallRight ==
  job = "install" =>
    /\ ~Registers(base)
    /\ configPc # "prepared" => new = Codex!Ours(NumberOf(base))
    /\ configPc \in {"prepared", "save"} =>
         /\ manifest = None /\ (backup # None => backup = Codex!TextOf(base))
    /\ configPc \notin {"prepared", "save"} =>
         manifest = [existed |-> base # None, original |-> Codex!TextOf(base), installed |-> new]

(* A restoration is of what was found, and replaces what was installed or  *)
(* what it is forced to.                                                   *)
RestoreRight ==
  Restores =>
    /\ manifest # None
    /\ configPc # "restore" =>
         /\ new = manifest.original
         /\ \/ forced /\ <<job, NumberOf(base)>> \in overruled
            \/ Codex!TextOf(base) = manifest.installed
    /\ configPc \in Replacing => manifest.existed
    /\ configPc \in Deleting => ~manifest.existed /\ base # None

(* Beside the configuration there is a file as long as a job needs it.     *)
HeldRight ==
  /\ temp # None <=> configPc \in Holding
  /\ configPc \in {"link", "exchange", "replace"} => temp = Codex!Mine
  /\ configPc = "link" => base = None
  /\ configPc \in Swapping => base # None

(* Only what an installation wrote has the entry.                          *)
OursRight ==
  /\ \A f \in {config, temp} :
       Registers(f) => manifest # None /\ f = Codex!File(manifest.installed, "helper")
  /\ config # None /\ config.by = "helper" => manifest # None

(* Where an installation can have left the entry: from the replacement on. *)
InstallUndone ==
  /\ job = "none" /\ result = "none" => ~Registers(config)
  /\ job = "install" =>
       /\ configPc \in Looking \cup {"write", "link", "exchange", "replace", "reaudit"} => ~Registers(config)
       /\ configPc \in {"audit", "recover", "back"} => ~Registers(temp)
       /\ configPc = "unreplaced" => failures >= 1
       /\ configPc = "handler" /\ Registers(config) => failures >= 1

(* Where the undoing of one can have left it: until the replacement, or    *)
(* after a second failure.                                                 *)
UndoUndone ==
  job = "undo" =>
    /\ configPc \in {"write", "link", "exchange", "replace", "delete", "quarantine"} /\ Registers(config) => config = base
    /\ configPc \in {"audit", "recover", "back", "reaudit", "unreplaced", "sync", "inspect"} => ~Registers(config)
    /\ configPc \in {"audit", "inspect"} /\ Registers(temp) => temp = base
    /\ configPc \in {"recover", "back", "reaudit"} => ~Registers(temp)
    /\ configPc = "unreplaced" /\ Registers(temp) => failures >= 2

CodexInv ==
  /\ CodexTyped /\ JobsRight /\ ManifestRight /\ InstallRight /\ RestoreRight
  /\ HeldRight /\ OursRight /\ InstallUndone /\ UndoUndone
  /\ Codex!EditsKept /\ Codex!FailureUndone

(* Windows, where the name can be free for a moment: the last text of the  *)
(* editor, unless something was forced, while no more than one call of a   *)
(* transaction has failed.                                                 *)
Unforced == edits \in owed /\ \A j \in {"undo", "rollback"} : <<j, edits>> \notin overruled
Few == failures <= IF job \in {"install", "undo"} \/ (job = "none" /\ result = "failed") THEN 1 ELSE 0
Newest(f) == f # None /\ f.text.number = edits

(* No text is newer than the last, and what is owed has been written.      *)
NumbersRight ==
  /\ \A f \in {config, base, temp} : f # None => f.text.number <= edits
  /\ \A n \in owed : n <= edits
  /\ manifest # None => manifest.original.number <= edits

(* There is a file at the name but in between, and if an installation had  *)
(* found none, it is the newest or the newest is set aside.                *)
NameStays ==
  Unforced /\ Few =>
    /\ config # None \/ configPc \in {"unreplaced", "inspect"}
    /\ (manifest # None => ~manifest.existed) =>
         \/ Newest(config)
         \/ configPc = "inspect" /\ config = None /\ Newest(temp)

(* What is to be deleted unforced is not the last text of the editor.      *)
BaseIsOlder ==
  Restores /\ configPc \in Deleting /\ Unforced => ~Newest(base)

NameInv == NumbersRight /\ NameStays /\ BaseIsOlder

-------------------------------------------------------------------------------
LEMMA CodexInit == Codex!Init => CodexInv /\ NameInv
<1> SUFFICES ASSUME Codex!Init PROVE CodexInv /\ NameInv
  OBVIOUS
<1>1. CodexTyped
  <2>1. 0 \in 0 .. MaxEdits /\ 1 \in 0 .. MaxEdits /\ 1 \in 1 .. MaxEdits /\ 0 \in 0 .. MaxFailures
    BY CodexAssumption
  <2>2. Codex!File(Codex!Text(1), "editor") \in Codex!AnyFile
    BY <2>1 DEF Codex!AnyFile, Codex!Texts, Codex!File, Codex!Text
  <2>3. /\ config \in Codex!AnyFile \cup {None} /\ edits \in 0 .. MaxEdits
        /\ owed \subseteq 1 .. MaxEdits
    BY <2>1, <2>2 DEF Codex!Init
  <2>4. /\ job = "none" /\ configPc = "idle" /\ base = None /\ new = None /\ forced = FALSE
        /\ temp = None /\ kept = {} /\ backup = None /\ manifest = None /\ result = "none"
        /\ failures = 0
    BY DEF Codex!Init
  <2> QED
    BY <2>1, <2>3, <2>4 DEF CodexTyped, Codex!TypeOK
<1>2. /\ JobsRight /\ ManifestRight /\ InstallRight /\ RestoreRight
      /\ HeldRight /\ Codex!FailureUndone
  BY DEF Codex!Init, JobsRight, ManifestRight, InstallRight, RestoreRight, HeldRight,
     Codex!FailureUndone,
         Looking, Replacing, Swapping, Deleting, Holding, Restores
<1>3. OursRight /\ InstallUndone /\ UndoUndone
  BY DEF Codex!Init, OursRight, InstallUndone, UndoUndone, Registers, Codex!File, Codex!Text
<1>4. Codex!EditsKept
  BY CodexAssumption DEF Codex!Init, Codex!EditsKept, Codex!OnDisk, Codex!File, Codex!Text,
     Codex!AnyFile, Codex!Texts
<1>5. NameInv
  BY CodexAssumption DEF Codex!Init, NameInv, NumbersRight, NameStays, BaseIsOlder,
     Unforced, Few, Newest, Codex!File, Codex!Text, Restores
<1> QED
  BY <1>1, <1>2, <1>3, <1>4, <1>5 DEF CodexInv

LEMMA EndsIn ==
  ASSUME CodexInv, configPc # "idle"
  PROVE  /\ Codex!Raise =>
              \/ job = "install" /\ configPc' = "handler" /\ job' = job /\ result' = result
              \/ job = "undo" /\ configPc' = "idle" /\ job' = "none" /\ result' = "failed"
              \/ job = "rollback" /\ configPc' = "idle" /\ job' = "none" /\ result' = "unrestored"
         /\ Codex!Succeed =>
              /\ configPc' = "idle" /\ job' = "none"
              /\ \/ job = "install" /\ result' = "ok"
                 \/ job = "undo" /\ result' = "failed"
                 \/ job = "rollback" /\ result' = "restored"
<1>1. job \in {"install", "undo", "rollback"}
  BY DEF CodexInv, JobsRight, CodexTyped, Codex!TypeOK
<1> QED
  BY <1>1 DEF Codex!Raise, Codex!Succeed, Codex!Goto, Codex!End

LEMMA Shapes ==
  ASSUME CodexTyped
  PROVE  /\ \A f \in {config, temp, base} : f # None => /\ f \in Codex!AnyFile
                                                     /\ f.text \in Codex!Texts
                                                     /\ f.text.number \in 0 .. MaxEdits
                                                     /\ f.text.ours \in BOOLEAN
         /\ \A f \in {config, temp, base} : /\ Codex!TextOf(f) \in Codex!Texts
                                            /\ Codex!TextOf(f).number \in 0 .. MaxEdits
                                            /\ Codex!Ours(Codex!TextOf(f).number) \in Codex!Texts
         /\ failures \in Nat
<1>1. \A f \in Codex!AnyFile : /\ f.text \in Codex!Texts /\ f.text.number \in 0 .. MaxEdits
                               /\ f.text.ours \in BOOLEAN
  BY DEF Codex!AnyFile, Codex!Texts
<1>2. Codex!Text(0) \in Codex!Texts /\ Codex!Text(0).number \in 0 .. MaxEdits
  BY CodexAssumption DEF Codex!Text, Codex!Texts
<1>3. \A n \in 0 .. MaxEdits : Codex!Ours(n) \in Codex!Texts
  BY DEF Codex!Ours, Codex!Texts
<1> QED
  BY <1>1, <1>2, <1>3 DEF CodexTyped, Codex!TypeOK, Codex!TextOf

LEMMA Written ==
  ASSUME CodexInv, configPc \in Replacing \cup Deleting \cup {"sync", "handler"}
  PROVE  /\ manifest # None /\ manifest \in Manifests
         /\ new \in Codex!Texts /\ Codex!Mine \in Codex!AnyFile /\ Codex!Mine # None
         /\ Codex!Mine.text = new /\ Codex!Mine.by = "helper"
         /\ new.ours => Codex!Mine = Codex!File(manifest.installed, "helper")
         /\ new.ours <=> job = "install"
<1>1. job \in {"install", "undo", "rollback"}
  BY DEF CodexInv, JobsRight, CodexTyped, Codex!TypeOK, Replacing, Deleting
<1>2. CASE job = "install"
  <2>1. /\ new = Codex!Ours(NumberOf(base))
        /\ manifest = [existed |-> base # None, original |-> Codex!TextOf(base), installed |-> new]
    BY <1>2 DEF CodexInv, InstallRight, Replacing, Deleting
  <2>2. new \in Codex!Texts /\ new.ours
    BY <2>1, Shapes DEF CodexInv, NumberOf, Codex!Ours
  <2>3. manifest \in Manifests /\ manifest.installed = new
    BY <2>1, <2>2, Shapes DEF CodexInv, Manifests
  <2> QED
    BY <1>2, <2>2, <2>3, CodexAssumption DEF Manifests, Codex!Mine, Codex!File, Codex!AnyFile
<1>3. CASE Restores
  <2>1. manifest # None /\ new = manifest.original /\ ~manifest.original.ours
    BY <1>3 DEF CodexInv, RestoreRight, ManifestRight, Replacing, Deleting, JobsRight
  <2>2. manifest \in Manifests /\ new \in Codex!Texts /\ ~new.ours
    BY <2>1 DEF CodexInv, CodexTyped, Manifests
  <2> QED
    BY <1>3, <2>1, <2>2, CodexAssumption DEF Codex!Mine, Codex!File, Codex!AnyFile, Restores
<1> QED
  BY <1>1, <1>2, <1>3 DEF Restores

LEMMA NewText ==
  ASSUME CodexInv, edits < MaxEdits
  PROVE  /\ edits \in Nat /\ edits + 1 \in 1 .. MaxEdits /\ edits + 1 \in 0 .. MaxEdits
         /\ Codex!File(Codex!Text(edits + 1), "editor") \in Codex!AnyFile
         /\ Codex!File(Codex!Text(edits + 1), "editor") # None
         /\ ~Registers(Codex!File(Codex!Text(edits + 1), "editor"))
         /\ Codex!File(Codex!Text(edits + 1), "editor").by = "editor"
         /\ Codex!File(Codex!Text(edits + 1), "editor").text.number = edits + 1
<1>1. edits \in Nat /\ edits + 1 \in 1 .. MaxEdits /\ edits + 1 \in 0 .. MaxEdits
  BY CodexAssumption DEF CodexInv, CodexTyped, Codex!TypeOK
<1>2. Codex!File(Codex!Text(edits + 1), "editor") \in Codex!AnyFile
  BY <1>1 DEF Codex!AnyFile, Codex!Texts, Codex!File, Codex!Text
<1> QED
  BY <1>1, <1>2, CodexAssumption DEF Codex!File, Codex!Text, Registers

(* A text that the editor need not find again.                             *)
Covered(n) == n = 0 \/ backup = Codex!Text(n)
                \/ \E j \in {"undo", "rollback"} : <<j, n>> \in overruled

LEMMA WhatIsSaved ==
  ASSUME CodexInv, configPc \in Replacing \cup Deleting
  PROVE  Covered(NumberOf(base)) /\ (configPc \in Replacing => Covered(new.number))
<1>1. job \in {"install", "undo", "rollback"}
  BY DEF CodexInv, JobsRight, CodexTyped, Codex!TypeOK, Replacing, Deleting
<1>2. manifest # None /\ manifest \in Manifests
  BY Written
<1>3. Covered(manifest.original.number) /\ (manifest.existed => backup = manifest.original)
  <2>1. \A t \in Codex!Texts : ~t.ours => t = Codex!Text(t.number)
    BY DEF Codex!Texts, Codex!Text
  <2>2. manifest.original \in Codex!Texts
    BY <1>2 DEF Manifests
  <2> QED
    BY <1>2, <2>1, <2>2 DEF CodexInv, ManifestRight, Covered
<1>4. manifest.installed.number = manifest.original.number
  BY <1>2 DEF CodexInv, ManifestRight, Codex!Ours
<1>5. CASE job = "install"
  <2>1. /\ new = Codex!Ours(NumberOf(base))
        /\ manifest = [existed |-> base # None, original |-> Codex!TextOf(base), installed |-> new]
    BY <1>5 DEF CodexInv, InstallRight, Replacing, Deleting
  <2> QED
    BY <1>3, <2>1 DEF NumberOf, Codex!Ours
<1>6. CASE Restores
  <2>1. /\ new = manifest.original
        /\ \/ forced /\ <<job, NumberOf(base)>> \in overruled
           \/ Codex!TextOf(base) = manifest.installed
    BY <1>6 DEF CodexInv, RestoreRight, Replacing, Deleting
  <2> QED
    BY <1>3, <1>4, <1>6, <2>1 DEF NumberOf, Covered, Restores
<1> QED
  BY <1>1, <1>5, <1>6 DEF Restores

LEMMA EditsStay ==
  ASSUME CodexInv, owed' \subseteq owed, backup # None => backup' = backup,
         overruled \subseteq overruled', kept \subseteq kept',
         \A f \in {config, temp} : f # None =>
            f \in {config', temp'} \cup kept' \/ f.text.number \notin owed' \/ Covered(f.text.number)
  PROVE  Codex!EditsKept'
<1> SUFFICES ASSUME NEW n \in owed'
             PROVE  (\E f \in {config', temp'} \cup kept' : f # None /\ f.text.number = n)
                      \/ backup' = Codex!Text(n)
                      \/ \E j \in {"undo", "rollback"} : <<j, n>> \in overruled'
  BY DEF Codex!EditsKept, Codex!OnDisk
<1>1. n # 0 /\ Codex!Text(n) # None
  <2>1. n \in 1 .. MaxEdits /\ n \in 0 .. MaxEdits /\ n # 0
    BY CodexAssumption DEF CodexInv, CodexTyped, Codex!TypeOK
  <2>2. Codex!Text(n) \in Codex!Texts
    BY <2>1 DEF Codex!Text, Codex!Texts
  <2> QED
    BY <2>1, <2>2, CodexAssumption
<1>2. \/ \E f \in {config, temp} \cup kept : f # None /\ f.text.number = n
      \/ backup = Codex!Text(n)
      \/ \E j \in {"undo", "rollback"} : <<j, n>> \in overruled
  BY DEF CodexInv, Codex!EditsKept, Codex!OnDisk
<1>3. CASE \E f \in {config, temp} \cup kept : f # None /\ f.text.number = n
  <2>1. PICK f \in {config, temp} \cup kept : f # None /\ f.text.number = n
    BY <1>3
  <2>2. f \in {config', temp'} \cup kept' \/ Covered(n)
    BY <2>1
  <2> QED
    BY <1>1, <2>1, <2>2 DEF Covered
<1> QED
  BY <1>1, <1>2, <1>3

LEMMA InstallKeeps == ASSUME CodexInv, Codex!Install PROVE CodexInv'
<1>1. CodexInv
  OBVIOUS
<1> USE DEF Codex!files, Codex!saved, Codex!editor
<1>2. CodexTyped'
  BY <1>1, EndsIn, Shapes, Written, CodexAssumption DEF CodexInv, CodexTyped, Codex!Install,
     Codex!TypeOK
<1>3. JobsRight'
  BY <1>1, EndsIn, Shapes, Written, CodexAssumption DEF CodexInv, JobsRight, Codex!Install,
     Looking, Replacing, Deleting, Restores
<1>4. ManifestRight'
  BY <1>1, EndsIn, Shapes, Written, CodexAssumption DEF CodexInv, ManifestRight, Codex!Install
<1>5. InstallRight'
  <2>1. ~Registers(config) /\ manifest = None /\ backup = None
    BY DEF CodexInv, InstallUndone, JobsRight, Codex!Install
  <2> QED
    BY <2>1 DEF InstallRight, Registers, Codex!Install
<1>6. RestoreRight'
  BY <1>1, EndsIn, Shapes, Written, CodexAssumption DEF CodexInv, RestoreRight,
     Codex!Install, Restores, Replacing, Deleting, NumberOf
<1>7. HeldRight'
  BY <1>1, EndsIn, Shapes, Written, CodexAssumption DEF CodexInv, HeldRight, Codex!Install,
     Holding, Swapping, Codex!Mine
<1>8. OursRight'
  BY <1>1, EndsIn, Shapes, Written, CodexAssumption DEF CodexInv, OursRight, Codex!Install,
     Registers, HeldRight, Holding, Replacing, Deleting
<1>9. InstallUndone'
  BY <1>1, EndsIn, Shapes, Written, CodexAssumption DEF CodexInv, InstallUndone,
     Codex!Install, Looking, Registers, JobsRight, HeldRight, OursRight, Replacing, Deleting
<1>10. UndoUndone'
  BY <1>1, EndsIn, Shapes, Written, CodexAssumption DEF CodexInv, UndoUndone, Codex!Install,
     Registers, HeldRight, JobsRight, Replacing, Deleting
<1>11. Codex!EditsKept'
  BY <1>1, Written, WhatIsSaved, EditsStay DEF CodexInv, HeldRight, Holding, Replacing,
     Deleting, Covered, NumberOf, Codex!TextOf, Codex!Install
<1>12. Codex!FailureUndone'
  BY <1>1, EndsIn, Shapes, Written, CodexAssumption DEF CodexInv, Codex!FailureUndone,
     Codex!Install, InstallUndone, UndoUndone, OursRight, Registers, Looking, JobsRight,
     Replacing
<1> QED
  BY <1>2, <1>3, <1>4, <1>5, <1>6, <1>7, <1>8, <1>9, <1>10, <1>11, <1>12 DEF CodexInv

LEMMA PrepareKeeps == ASSUME CodexInv, Codex!Prepare PROVE CodexInv'
<1>1. configPc # "idle" /\ job # "none"
  BY DEF CodexInv, JobsRight, Codex!Prepare
<1> USE DEF Codex!Goto, Codex!End, Codex!files, Codex!saved, Codex!editor
<1>2. CodexTyped'
  BY <1>1, EndsIn, Shapes, Written, CodexAssumption DEF CodexInv, CodexTyped, Codex!Prepare,
     Codex!TypeOK
<1>3. JobsRight'
  BY <1>1, EndsIn, Shapes, Written, CodexAssumption DEF CodexInv, JobsRight, Codex!Prepare,
     Looking, Replacing, Deleting, Restores
<1>4. ManifestRight'
  BY <1>1, EndsIn, Shapes, Written, CodexAssumption DEF CodexInv, ManifestRight, Codex!Prepare
<1>5. InstallRight'
  BY <1>1, EndsIn, Shapes, Written, CodexAssumption DEF CodexInv, InstallRight,
     Codex!Prepare, Registers, NumberOf
<1>6. RestoreRight'
  <2>1. job = "install"
    BY <1>1 DEF CodexInv, JobsRight, Restores, Replacing, Deleting, CodexTyped,
       Codex!TypeOK, Codex!Prepare
  <2>2. job' \in {"install", "none"}
    BY <2>1 DEF Codex!Prepare
  <2> QED
    BY <2>2 DEF RestoreRight, Restores
<1>7. HeldRight'
  BY <1>1, EndsIn, Shapes, Written, CodexAssumption DEF CodexInv, HeldRight, Codex!Prepare,
     Holding, Swapping, Codex!Mine
<1>8. OursRight'
  BY <1>1, EndsIn, Shapes, Written, CodexAssumption DEF CodexInv, OursRight, Codex!Prepare,
     Registers, HeldRight, Holding, Replacing, Deleting
<1>9. InstallUndone'
  BY <1>1, EndsIn, Shapes, Written, CodexAssumption DEF CodexInv, InstallUndone,
     Codex!Prepare, Looking, Registers, JobsRight, HeldRight, OursRight, Replacing, Deleting
<1>10. UndoUndone'
  BY <1>1, EndsIn, Shapes, Written, CodexAssumption DEF CodexInv, UndoUndone, Codex!Prepare,
     Registers, HeldRight, JobsRight, Replacing, Deleting
<1>11. Codex!EditsKept'
  BY <1>1, Written, WhatIsSaved, EditsStay DEF CodexInv, HeldRight, Holding, Replacing,
     Deleting, Covered, NumberOf, Codex!TextOf, Codex!Prepare
<1>12. Codex!FailureUndone'
  <2>1. job = "install"
    BY <1>1 DEF CodexInv, JobsRight, Restores, Replacing, Deleting, CodexTyped,
       Codex!TypeOK, Codex!Prepare
  <2>2. ~Registers(config) /\ config' = config
    BY <2>1 DEF CodexInv, InstallUndone, Looking, Codex!Prepare
  <2> QED
    BY <2>2 DEF Codex!FailureUndone, Registers
<1> QED
  BY <1>2, <1>3, <1>4, <1>5, <1>6, <1>7, <1>8, <1>9, <1>10, <1>11, <1>12 DEF CodexInv

LEMMA SaveKeeps == ASSUME CodexInv, Codex!Save PROVE CodexInv'
<1>1. configPc # "idle" /\ job # "none"
  BY DEF CodexInv, JobsRight, Codex!Save
<1> USE DEF Codex!Works, Codex!Fails, Codex!Goto, Codex!End, Codex!files, Codex!saved,
        Codex!editor
<1>2. CodexTyped'
  <2>1. job = "install"
    BY <1>1 DEF CodexInv, JobsRight, Restores, Replacing, Deleting, CodexTyped,
       Codex!TypeOK, Codex!Save
  <2>2. /\ new = Codex!Ours(NumberOf(base)) /\ manifest = None /\ ~Registers(base)
        /\ backup # None => backup = Codex!TextOf(base)
    BY <2>1 DEF CodexInv, InstallRight, Codex!Save
  <2>3. new \in Codex!Texts /\ Codex!TextOf(base) \in Codex!Texts /\ ~Codex!TextOf(base).ours
    BY <2>2, Shapes DEF CodexInv, NumberOf, Registers, Codex!TextOf, Codex!Text
  <2> DEFINE m == [existed |-> base # None, original |-> Codex!TextOf(base), installed |-> new]
  <2>4. /\ m \in Manifests /\ m # None /\ (m.existed <=> base # None)
        /\ m.original = Codex!TextOf(base) /\ m.installed = new
    <3>1. (base # None) \in BOOLEAN
      OBVIOUS
    <3>2. m \in Manifests
      BY <2>3, <3>1 DEF Manifests
    <3> QED
      BY <3>2, CodexAssumption DEF Manifests
  <2>5. \/ /\ base # None /\ backup' = Codex!TextOf(base) /\ manifest' = manifest
        \/ /\ base = None \/ backup # None
           /\ backup' = backup /\ manifest' = m
        \/ backup' = backup /\ manifest' = manifest
    BY DEF Codex!Save
  <2> HIDE DEF m
  <2>7. /\ backup' \in Codex!Texts \cup {None} /\ manifest' \in Manifests \cup {None}
    BY <2>2, <2>3, <2>4, <2>5 DEF CodexInv, CodexTyped, Codex!TypeOK
  <2>6. /\ job' \in {"install", "none"} /\ configPc' \in {"save", "recheck", "idle"}
        /\ result' \in {result, "failed"} /\ failures' \in 0 .. MaxFailures
        /\ UNCHANGED <<config, temp, kept, base, new, forced, edits, owed>>
    BY <2>1, CodexAssumption DEF CodexInv, CodexTyped, Codex!TypeOK, Codex!Save
  <2> QED
    BY <2>6, <2>7 DEF CodexInv, CodexTyped, Codex!TypeOK
<1>3. JobsRight'
  BY <1>1, EndsIn, Shapes, Written, CodexAssumption DEF CodexInv, JobsRight, Codex!Save,
     Looking, Replacing, Deleting, Restores
<1>4. ManifestRight'
  <2>1. job = "install"
    BY <1>1 DEF CodexInv, JobsRight, Restores, Replacing, Deleting, CodexTyped,
       Codex!TypeOK, Codex!Save
  <2>2. /\ new = Codex!Ours(NumberOf(base)) /\ manifest = None /\ ~Registers(base)
        /\ backup # None => backup = Codex!TextOf(base)
    BY <2>1 DEF CodexInv, InstallRight, Codex!Save
  <2>3. new \in Codex!Texts /\ Codex!TextOf(base) \in Codex!Texts /\ ~Codex!TextOf(base).ours
    BY <2>2, Shapes DEF CodexInv, NumberOf, Registers, Codex!TextOf, Codex!Text
  <2> DEFINE m == [existed |-> base # None, original |-> Codex!TextOf(base), installed |-> new]
  <2>4. /\ m \in Manifests /\ m # None /\ (m.existed <=> base # None)
        /\ m.original = Codex!TextOf(base) /\ m.installed = new
    <3>1. (base # None) \in BOOLEAN
      OBVIOUS
    <3>2. m \in Manifests
      BY <2>3, <3>1 DEF Manifests
    <3> QED
      BY <3>2, CodexAssumption DEF Manifests
  <2>5. \/ /\ base # None /\ backup' = Codex!TextOf(base) /\ manifest' = manifest
        \/ /\ base = None \/ backup # None
           /\ backup' = backup /\ manifest' = m
        \/ backup' = backup /\ manifest' = manifest
    BY DEF Codex!Save
  <2> HIDE DEF m
  <2>6. base = None => NumberOf(base) = 0
    BY DEF NumberOf, Codex!TextOf, Codex!Text
  <2>7. CASE manifest' = m /\ (base = None \/ backup # None) /\ backup' = backup
    BY <2>2, <2>3, <2>4, <2>6, <2>7 DEF ManifestRight, NumberOf
  <2>8. CASE manifest' = None
    BY <2>8 DEF ManifestRight
  <2> QED
    BY <2>2, <2>5, <2>7, <2>8
<1>5. InstallRight'
  BY <1>1, EndsIn, Shapes, Written, CodexAssumption DEF CodexInv, InstallRight, Codex!Save,
     Registers, NumberOf
<1>6. RestoreRight'
  <2>1. job = "install"
    BY <1>1 DEF CodexInv, JobsRight, Restores, Replacing, Deleting, CodexTyped,
       Codex!TypeOK, Codex!Save
  <2>2. job' \in {"install", "none"}
    BY <2>1 DEF Codex!Save
  <2> QED
    BY <2>2 DEF RestoreRight, Restores
<1>7. HeldRight'
  BY <1>1, EndsIn, Shapes, Written, CodexAssumption DEF CodexInv, HeldRight, Codex!Save,
     Holding, Swapping, Codex!Mine
<1>8. OursRight'
  <2>1. job = "install"
    BY <1>1 DEF CodexInv, JobsRight, Restores, Replacing, Deleting, CodexTyped,
       Codex!TypeOK, Codex!Save
  <2>2. /\ new = Codex!Ours(NumberOf(base)) /\ manifest = None /\ ~Registers(base)
        /\ backup # None => backup = Codex!TextOf(base)
    BY <2>1 DEF CodexInv, InstallRight, Codex!Save
  <2>3. new \in Codex!Texts /\ Codex!TextOf(base) \in Codex!Texts /\ ~Codex!TextOf(base).ours
    BY <2>2, Shapes DEF CodexInv, NumberOf, Registers, Codex!TextOf, Codex!Text
  <2> DEFINE m == [existed |-> base # None, original |-> Codex!TextOf(base), installed |-> new]
  <2>4. /\ m \in Manifests /\ m # None /\ (m.existed <=> base # None)
        /\ m.original = Codex!TextOf(base) /\ m.installed = new
    <3>1. (base # None) \in BOOLEAN
      OBVIOUS
    <3>2. m \in Manifests
      BY <2>3, <3>1 DEF Manifests
    <3> QED
      BY <3>2, CodexAssumption DEF Manifests
  <2>5. \/ /\ base # None /\ backup' = Codex!TextOf(base) /\ manifest' = manifest
        \/ /\ base = None \/ backup # None
           /\ backup' = backup /\ manifest' = m
        \/ backup' = backup /\ manifest' = manifest
    BY DEF Codex!Save
  <2> HIDE DEF m
  <2>6. config' = config /\ temp' = temp
    BY DEF Codex!Save
  <2> QED
    BY <2>2, <2>4, <2>5, <2>6 DEF CodexInv, OursRight, Registers
<1>9. InstallUndone'
  BY <1>1, EndsIn, Shapes, Written, CodexAssumption DEF CodexInv, InstallUndone, Codex!Save,
     Looking, Registers, JobsRight, HeldRight, OursRight, Replacing, Deleting
<1>10. UndoUndone'
  BY <1>1, EndsIn, Shapes, Written, CodexAssumption DEF CodexInv, UndoUndone, Codex!Save,
     Registers, HeldRight, JobsRight, Replacing, Deleting
<1>11. Codex!EditsKept'
  BY <1>1, Written, WhatIsSaved, EditsStay DEF CodexInv, HeldRight, Holding, Replacing,
     Deleting, Covered, NumberOf, Codex!TextOf, Codex!Save
<1>12. Codex!FailureUndone'
  <2>1. job = "install"
    BY <1>1 DEF CodexInv, JobsRight, Restores, Replacing, Deleting, CodexTyped,
       Codex!TypeOK, Codex!Save
  <2>2. ~Registers(config) /\ config' = config
    BY <2>1 DEF CodexInv, InstallUndone, Looking, Codex!Save
  <2> QED
    BY <2>2 DEF Codex!FailureUndone, Registers
<1> QED
  BY <1>2, <1>3, <1>4, <1>5, <1>6, <1>7, <1>8, <1>9, <1>10, <1>11, <1>12 DEF CodexInv

LEMMA RecheckKeeps == ASSUME CodexInv, Codex!Recheck PROVE CodexInv'
<1>1. configPc # "idle" /\ job # "none"
  BY DEF CodexInv, JobsRight, Codex!Recheck
<1> USE DEF Codex!Goto, Codex!End, Codex!files, Codex!saved, Codex!editor
<1>2. CodexTyped'
  BY <1>1, EndsIn, Shapes, Written, CodexAssumption DEF CodexInv, CodexTyped, Codex!Recheck,
     Codex!TypeOK
<1>3. JobsRight'
  BY <1>1, EndsIn, Shapes, Written, CodexAssumption DEF CodexInv, JobsRight, Codex!Recheck,
     Looking, Replacing, Deleting, Restores
<1>4. ManifestRight'
  BY <1>1, EndsIn, Shapes, Written, CodexAssumption DEF CodexInv, ManifestRight, Codex!Recheck
<1>5. InstallRight'
  BY <1>1, EndsIn, Shapes, Written, CodexAssumption DEF CodexInv, InstallRight,
     Codex!Recheck, Registers, NumberOf
<1>6. RestoreRight'
  <2>1. job = "install"
    BY <1>1 DEF CodexInv, JobsRight, Restores, Replacing, Deleting, CodexTyped,
       Codex!TypeOK, Codex!Recheck
  <2>2. job' \in {"install", "none"}
    BY <2>1 DEF Codex!Recheck
  <2> QED
    BY <2>2 DEF RestoreRight, Restores
<1>7. HeldRight'
  BY <1>1, EndsIn, Shapes, Written, CodexAssumption DEF CodexInv, HeldRight, Codex!Recheck,
     Holding, Swapping, Codex!Mine
<1>8. OursRight'
  BY <1>1, EndsIn, Shapes, Written, CodexAssumption DEF CodexInv, OursRight, Codex!Recheck,
     Registers, HeldRight, Holding, Replacing, Deleting
<1>9. InstallUndone'
  BY <1>1, EndsIn, Shapes, Written, CodexAssumption DEF CodexInv, InstallUndone,
     Codex!Recheck, Looking, Registers, JobsRight, HeldRight, OursRight, Replacing, Deleting
<1>10. UndoUndone'
  BY <1>1, EndsIn, Shapes, Written, CodexAssumption DEF CodexInv, UndoUndone, Codex!Recheck,
     Registers, HeldRight, JobsRight, Replacing, Deleting
<1>11. Codex!EditsKept'
  BY <1>1, Written, WhatIsSaved, EditsStay DEF CodexInv, HeldRight, Holding, Replacing,
     Deleting, Covered, NumberOf, Codex!TextOf, Codex!Recheck
<1>12. Codex!FailureUndone'
  <2>1. job = "install"
    BY <1>1 DEF CodexInv, JobsRight, Restores, Replacing, Deleting, CodexTyped,
       Codex!TypeOK, Codex!Recheck
  <2>2. ~Registers(config) /\ config' = config
    BY <2>1 DEF CodexInv, InstallUndone, Looking, Codex!Recheck
  <2> QED
    BY <2>2 DEF Codex!FailureUndone, Registers
<1> QED
  BY <1>2, <1>3, <1>4, <1>5, <1>6, <1>7, <1>8, <1>9, <1>10, <1>11, <1>12 DEF CodexInv

LEMMA WriteKeeps == ASSUME CodexInv, Codex!Write PROVE CodexInv'
<1>1. configPc # "idle" /\ job # "none"
  BY DEF CodexInv, JobsRight, Codex!Write
<1> USE DEF Codex!Works, Codex!Fails, Codex!Refused, Codex!Goto, Codex!End, Codex!saved,
        Codex!editor
<1>2. CodexTyped'
  <2>1. /\ config' \in Codex!AnyFile \cup {None} /\ temp' \in Codex!AnyFile \cup {None}
        /\ kept' \subseteq Codex!AnyFile
    BY <1>1, Written, CodexAssumption
    DEF CodexInv, CodexTyped, Codex!TypeOK, HeldRight, Holding, Replacing, Deleting, Codex!Write
  <2>2. /\ job' \in {"none", "install", "undo", "rollback"}
        /\ configPc' \in {"idle", "handler", "sync"} \cup Looking \cup Replacing \cup Deleting
        /\ result' \in {"none", "ok", "failed", "killed", "refused", "restored", "unrestored"}
    BY <1>1, EndsIn
    DEF CodexInv, CodexTyped, Codex!TypeOK, Looking, Replacing, Deleting, Codex!Write
  <2>3. configPc' \in {"audit", "recover", "back", "reaudit", "inspect"} => temp' # None
    BY <1>1, EndsIn, Written DEF CodexInv, HeldRight, Holding, Replacing, Deleting, Codex!Write
  <2>4. /\ base' \in Codex!AnyFile \cup {None} /\ new' \in Codex!Texts \cup {None}
        /\ backup' \in Codex!Texts \cup {None} /\ manifest' \in Manifests \cup {None}
        /\ forced' \in BOOLEAN
    BY Written, Shapes, CodexAssumption
    DEF CodexInv, CodexTyped, Codex!TypeOK, Manifests, InstallRight, JobsRight, RestoreRight, Codex!Write
  <2>5. owed' \subseteq 1 .. MaxEdits /\ edits' \in 0 .. MaxEdits /\ failures' \in 0 .. MaxFailures
    BY CodexAssumption DEF CodexInv, CodexTyped, Codex!TypeOK, Codex!Write
  <2> QED
    BY <2>1, <2>2, <2>3, <2>4, <2>5
    DEF CodexTyped, Codex!TypeOK, Looking, Replacing, Deleting
<1>3. JobsRight'
  BY <1>1, EndsIn, Shapes, Written, CodexAssumption DEF CodexInv, JobsRight, Codex!Write,
     Looking, Replacing, Deleting, Restores
<1>4. ManifestRight'
  BY <1>1, EndsIn, Shapes, Written, CodexAssumption DEF CodexInv, ManifestRight, Codex!Write
<1>5. InstallRight'
  BY <1>1, EndsIn, Shapes, Written, CodexAssumption DEF CodexInv, InstallRight, Codex!Write,
     Registers, NumberOf
<1>6. RestoreRight'
  BY <1>1, EndsIn, Shapes, Written, CodexAssumption DEF CodexInv, RestoreRight, Codex!Write,
     Restores, Replacing, Deleting, NumberOf
<1>7. HeldRight'
  <2>1. \/ /\ temp' = Codex!Mine /\ configPc' = (IF base = None THEN "link" ELSE IF "Write" = "Write" THEN "exchange" ELSE "replace")
        \/ temp' = temp /\ configPc' \in {"idle", "handler"}
    BY <1>1, EndsIn DEF Codex!Write
  <2>2. Codex!Mine' = Codex!Mine /\ base' = base /\ Codex!Mine # None /\ temp = None
    BY <1>1, Written DEF Codex!Mine, CodexInv, HeldRight, Holding, Replacing, Codex!Write
  <2> QED
    BY <2>1, <2>2 DEF HeldRight, Holding, Swapping
<1>8. OursRight'
  BY <1>1, EndsIn, Shapes, Written, CodexAssumption DEF CodexInv, OursRight, Codex!Write,
     Registers, HeldRight, Holding, Replacing, Deleting
<1>9. InstallUndone'
  BY <1>1, EndsIn, Shapes, Written, CodexAssumption DEF CodexInv, InstallUndone,
     Codex!Write, Looking, Registers, JobsRight, HeldRight, OursRight, Replacing, Deleting
<1>10. UndoUndone'
  BY <1>1, EndsIn, Shapes, Written, CodexAssumption DEF CodexInv, UndoUndone, Codex!Write,
     Registers, HeldRight, JobsRight, Replacing, Deleting
<1>11. Codex!EditsKept'
  BY <1>1, Written, WhatIsSaved, EditsStay DEF CodexInv, HeldRight, Holding, Replacing,
     Deleting, Covered, NumberOf, Codex!TextOf, Codex!Write
<1>12. Codex!FailureUndone'
  <2> SUFFICES ASSUME result' = "failed", configPc' = "idle", failures' <= 1, Registers(config')
               PROVE  FALSE
    BY DEF Codex!FailureUndone, Registers
  <2>1. job = "undo"
    BY <1>1, EndsIn DEF Codex!Write
  <2>2. failures = 1 /\ failures' = failures
    BY <2>1, Shapes DEF CodexInv, JobsRight, Codex!Write
  <2> QED
    BY <2>1, <2>2, Written DEF CodexInv, UndoUndone, Registers, HeldRight, Holding,
       Replacing, Deleting, Codex!Write
<1> QED
  BY <1>2, <1>3, <1>4, <1>5, <1>6, <1>7, <1>8, <1>9, <1>10, <1>11, <1>12 DEF CodexInv

LEMMA CommitNewKeeps == ASSUME CodexInv, Codex!CommitNew PROVE CodexInv'
<1>1. configPc # "idle" /\ job # "none"
  BY DEF CodexInv, JobsRight, Codex!CommitNew
<1> USE DEF Codex!Works, Codex!Fails, Codex!Refused, Codex!Goto, Codex!End, Codex!saved,
        Codex!editor
<1>2. CodexTyped'
  <2>1. /\ config' \in Codex!AnyFile \cup {None} /\ temp' \in Codex!AnyFile \cup {None}
        /\ kept' \subseteq Codex!AnyFile
    BY <1>1, Written, CodexAssumption
    DEF CodexInv, CodexTyped, Codex!TypeOK, HeldRight, Holding, Replacing, Deleting, Codex!CommitNew
  <2>2. /\ job' \in {"none", "install", "undo", "rollback"}
        /\ configPc' \in {"idle", "handler", "sync"} \cup Looking \cup Replacing \cup Deleting
        /\ result' \in {"none", "ok", "failed", "killed", "refused", "restored", "unrestored"}
    BY <1>1, EndsIn
    DEF CodexInv, CodexTyped, Codex!TypeOK, Looking, Replacing, Deleting, Codex!CommitNew
  <2>3. configPc' \in {"audit", "recover", "back", "reaudit", "inspect"} => temp' # None
    BY <1>1, EndsIn, Written DEF CodexInv, HeldRight, Holding, Replacing, Deleting, Codex!CommitNew
  <2>4. /\ base' \in Codex!AnyFile \cup {None} /\ new' \in Codex!Texts \cup {None}
        /\ backup' \in Codex!Texts \cup {None} /\ manifest' \in Manifests \cup {None}
        /\ forced' \in BOOLEAN
    BY Written, Shapes, CodexAssumption
    DEF CodexInv, CodexTyped, Codex!TypeOK, Manifests, InstallRight, JobsRight, RestoreRight, Codex!CommitNew
  <2>5. owed' \subseteq 1 .. MaxEdits /\ edits' \in 0 .. MaxEdits /\ failures' \in 0 .. MaxFailures
    BY CodexAssumption DEF CodexInv, CodexTyped, Codex!TypeOK, Codex!CommitNew
  <2> QED
    BY <2>1, <2>2, <2>3, <2>4, <2>5
    DEF CodexTyped, Codex!TypeOK, Looking, Replacing, Deleting
<1>3. JobsRight'
  BY <1>1, EndsIn, Shapes, Written, CodexAssumption DEF CodexInv, JobsRight,
     Codex!CommitNew, Looking, Replacing, Deleting, Restores
<1>4. ManifestRight'
  BY <1>1, EndsIn, Shapes, Written, CodexAssumption DEF CodexInv, ManifestRight, Codex!CommitNew
<1>5. InstallRight'
  BY <1>1, EndsIn, Shapes, Written, CodexAssumption DEF CodexInv, InstallRight,
     Codex!CommitNew, Registers, NumberOf
<1>6. RestoreRight'
  BY <1>1, EndsIn, Shapes, Written, CodexAssumption DEF CodexInv, RestoreRight,
     Codex!CommitNew, Restores, Replacing, Deleting, NumberOf
<1>7. HeldRight'
  BY <1>1, EndsIn, Shapes, Written, CodexAssumption DEF CodexInv, HeldRight,
     Codex!CommitNew, Holding, Swapping, Codex!Mine
<1>8. OursRight'
  BY <1>1, EndsIn, Shapes, Written, CodexAssumption DEF CodexInv, OursRight,
     Codex!CommitNew, Registers, HeldRight, Holding, Replacing, Deleting
<1>9. InstallUndone'
  BY <1>1, EndsIn, Shapes, Written, CodexAssumption DEF CodexInv, InstallUndone,
     Codex!CommitNew, Looking, Registers, JobsRight, HeldRight, OursRight, Replacing,
     Deleting
<1>10. UndoUndone'
  BY <1>1, EndsIn, Shapes, Written, CodexAssumption DEF CodexInv, UndoUndone,
     Codex!CommitNew, Registers, HeldRight, JobsRight, Replacing, Deleting
<1>11. Codex!EditsKept'
  BY <1>1, Written, WhatIsSaved, EditsStay DEF CodexInv, HeldRight, Holding, Replacing,
     Deleting, Covered, NumberOf, Codex!TextOf, Codex!CommitNew
<1>12. Codex!FailureUndone'
  <2> SUFFICES ASSUME result' = "failed", configPc' = "idle", failures' <= 1, Registers(config')
               PROVE  FALSE
    BY DEF Codex!FailureUndone, Registers
  <2>1. job = "undo"
    BY <1>1, EndsIn DEF Codex!CommitNew
  <2>2. failures = 1 /\ failures' = failures
    BY <2>1, Shapes DEF CodexInv, JobsRight, Codex!CommitNew
  <2> QED
    BY <2>1, <2>2, Written DEF CodexInv, UndoUndone, Registers, HeldRight, Holding,
       Replacing, Deleting, Codex!CommitNew
<1> QED
  BY <1>2, <1>3, <1>4, <1>5, <1>6, <1>7, <1>8, <1>9, <1>10, <1>11, <1>12 DEF CodexInv

LEMMA ExchangeKeeps == ASSUME CodexInv, Codex!Exchange PROVE CodexInv'
<1>1. configPc # "idle" /\ job # "none"
  BY DEF CodexInv, JobsRight, Codex!Exchange
<1> USE DEF Codex!Works, Codex!Fails, Codex!Refused, Codex!Goto, Codex!End, Codex!saved,
        Codex!editor
<1>2. CodexTyped'
  <2>1. /\ config' \in Codex!AnyFile \cup {None} /\ temp' \in Codex!AnyFile \cup {None}
        /\ kept' \subseteq Codex!AnyFile
    BY <1>1, Written, CodexAssumption
    DEF CodexInv, CodexTyped, Codex!TypeOK, HeldRight, Holding, Replacing, Deleting, Codex!Exchange
  <2>2. /\ job' \in {"none", "install", "undo", "rollback"}
        /\ configPc' \in {"idle", "handler", "sync"} \cup Looking \cup Replacing \cup Deleting
        /\ result' \in {"none", "ok", "failed", "killed", "refused", "restored", "unrestored"}
    BY <1>1, EndsIn
    DEF CodexInv, CodexTyped, Codex!TypeOK, Looking, Replacing, Deleting, Codex!Exchange
  <2>3. configPc' \in {"audit", "recover", "back", "reaudit", "inspect"} => temp' # None
    BY <1>1, EndsIn, Written DEF CodexInv, HeldRight, Holding, Replacing, Deleting, Codex!Exchange
  <2>4. /\ base' \in Codex!AnyFile \cup {None} /\ new' \in Codex!Texts \cup {None}
        /\ backup' \in Codex!Texts \cup {None} /\ manifest' \in Manifests \cup {None}
        /\ forced' \in BOOLEAN
    BY Written, Shapes, CodexAssumption
    DEF CodexInv, CodexTyped, Codex!TypeOK, Manifests, InstallRight, JobsRight, RestoreRight, Codex!Exchange
  <2>5. owed' \subseteq 1 .. MaxEdits /\ edits' \in 0 .. MaxEdits /\ failures' \in 0 .. MaxFailures
    BY CodexAssumption DEF CodexInv, CodexTyped, Codex!TypeOK, Codex!Exchange
  <2> QED
    BY <2>1, <2>2, <2>3, <2>4, <2>5
    DEF CodexTyped, Codex!TypeOK, Looking, Replacing, Deleting
<1>3. JobsRight'
  BY <1>1, EndsIn, Shapes, Written, CodexAssumption DEF CodexInv, JobsRight, Codex!Exchange,
     Looking, Replacing, Deleting, Restores
<1>4. ManifestRight'
  BY <1>1, EndsIn, Shapes, Written, CodexAssumption DEF CodexInv, ManifestRight, Codex!Exchange
<1>5. InstallRight'
  BY <1>1, EndsIn, Shapes, Written, CodexAssumption DEF CodexInv, InstallRight,
     Codex!Exchange, Registers, NumberOf
<1>6. RestoreRight'
  BY <1>1, EndsIn, Shapes, Written, CodexAssumption DEF CodexInv, RestoreRight,
     Codex!Exchange, Restores, Replacing, Deleting, NumberOf
<1>7. HeldRight'
  BY <1>1, EndsIn, Shapes, Written, CodexAssumption DEF CodexInv, HeldRight, Codex!Exchange,
     Holding, Swapping, Codex!Mine
<1>8. OursRight'
  BY <1>1, EndsIn, Shapes, Written, CodexAssumption DEF CodexInv, OursRight, Codex!Exchange,
     Registers, HeldRight, Holding, Replacing, Deleting
<1>9. InstallUndone'
  BY <1>1, EndsIn, Shapes, Written, CodexAssumption DEF CodexInv, InstallUndone,
     Codex!Exchange, Looking, Registers, JobsRight, HeldRight, OursRight, Replacing,
     Deleting
<1>10. UndoUndone'
  BY <1>1, EndsIn, Shapes, Written, CodexAssumption DEF CodexInv, UndoUndone,
     Codex!Exchange, Registers, HeldRight, JobsRight, Replacing, Deleting
<1>11. Codex!EditsKept'
  BY <1>1, Written, WhatIsSaved, EditsStay DEF CodexInv, HeldRight, Holding, Replacing,
     Deleting, Covered, NumberOf, Codex!TextOf, Codex!Exchange
<1>12. Codex!FailureUndone'
  <2> SUFFICES ASSUME result' = "failed", configPc' = "idle", failures' <= 1, Registers(config')
               PROVE  FALSE
    BY DEF Codex!FailureUndone, Registers
  <2>1. job = "undo"
    BY <1>1, EndsIn DEF Codex!Exchange
  <2>2. failures = 1 /\ failures' = failures
    BY <2>1, Shapes DEF CodexInv, JobsRight, Codex!Exchange
  <2> QED
    BY <2>1, <2>2, Written DEF CodexInv, UndoUndone, Registers, HeldRight, Holding,
       Replacing, Deleting, Codex!Exchange
<1> QED
  BY <1>2, <1>3, <1>4, <1>5, <1>6, <1>7, <1>8, <1>9, <1>10, <1>11, <1>12 DEF CodexInv

LEMMA AuditKeeps == ASSUME CodexInv, Codex!Audit PROVE CodexInv'
<1>1. configPc # "idle" /\ job # "none"
  BY DEF CodexInv, JobsRight, Codex!Audit
<1> USE DEF Codex!Works, Codex!Fails, Codex!Goto, Codex!End, Codex!saved, Codex!editor
<1>2. CodexTyped'
  BY <1>1, EndsIn, Shapes, Written, CodexAssumption DEF CodexInv, CodexTyped, Codex!Audit,
     Codex!TypeOK
<1>3. JobsRight'
  BY <1>1, EndsIn, Shapes, Written, CodexAssumption DEF CodexInv, JobsRight, Codex!Audit,
     Looking, Replacing, Deleting, Restores
<1>4. ManifestRight'
  BY <1>1, EndsIn, Shapes, Written, CodexAssumption DEF CodexInv, ManifestRight, Codex!Audit
<1>5. InstallRight'
  BY <1>1, EndsIn, Shapes, Written, CodexAssumption DEF CodexInv, InstallRight, Codex!Audit,
     Registers, NumberOf
<1>6. RestoreRight'
  BY <1>1, EndsIn, Shapes, Written, CodexAssumption DEF CodexInv, RestoreRight, Codex!Audit,
     Restores, Replacing, Deleting, NumberOf
<1>7. HeldRight'
  BY <1>1, EndsIn, Shapes, Written, CodexAssumption DEF CodexInv, HeldRight, Codex!Audit,
     Holding, Swapping, Codex!Mine
<1>8. OursRight'
  BY <1>1, EndsIn, Shapes, Written, CodexAssumption DEF CodexInv, OursRight, Codex!Audit,
     Registers, HeldRight, Holding, Replacing, Deleting
<1>9. InstallUndone'
  BY <1>1, EndsIn, Shapes, Written, CodexAssumption DEF CodexInv, InstallUndone,
     Codex!Audit, Looking, Registers, JobsRight, HeldRight, OursRight, Replacing, Deleting
<1>10. UndoUndone'
  BY <1>1, EndsIn, Shapes, Written, CodexAssumption DEF CodexInv, UndoUndone, Codex!Audit,
     Registers, HeldRight, JobsRight, Replacing, Deleting
<1>11. Codex!EditsKept'
  BY <1>1, Written, WhatIsSaved, EditsStay DEF CodexInv, HeldRight, Holding, Replacing,
     Deleting, Covered, NumberOf, Codex!TextOf, Codex!Audit
<1>12. Codex!FailureUndone'
  <2> SUFFICES ASSUME result' = "failed", configPc' = "idle", failures' <= 1, Registers(config')
               PROVE  FALSE
    BY DEF Codex!FailureUndone, Registers
  <2>1. job = "undo"
    BY <1>1, EndsIn DEF Codex!Audit
  <2>2. failures = 1 /\ failures' = failures
    BY <2>1, Shapes DEF CodexInv, JobsRight, Codex!Audit
  <2> QED
    BY <2>1, <2>2, Written DEF CodexInv, UndoUndone, Registers, HeldRight, Holding,
       Replacing, Deleting, Codex!Audit
<1> QED
  BY <1>2, <1>3, <1>4, <1>5, <1>6, <1>7, <1>8, <1>9, <1>10, <1>11, <1>12 DEF CodexInv

LEMMA RecoverKeeps == ASSUME CodexInv, Codex!Recover PROVE CodexInv'
<1>1. configPc # "idle" /\ job # "none"
  BY DEF CodexInv, JobsRight, Codex!Recover
<1> USE DEF Codex!Works, Codex!Goto, Codex!End, Codex!saved, Codex!editor, Codex!Preserved
<1>2. CodexTyped'
  BY <1>1, EndsIn, Shapes, Written, CodexAssumption DEF CodexInv, CodexTyped, Codex!Recover,
     Codex!TypeOK
<1>3. JobsRight'
  BY <1>1, EndsIn, Shapes, Written, CodexAssumption DEF CodexInv, JobsRight, Codex!Recover,
     Looking, Replacing, Deleting, Restores
<1>4. ManifestRight'
  BY <1>1, EndsIn, Shapes, Written, CodexAssumption DEF CodexInv, ManifestRight, Codex!Recover
<1>5. InstallRight'
  BY <1>1, EndsIn, Shapes, Written, CodexAssumption DEF CodexInv, InstallRight,
     Codex!Recover, Registers, NumberOf
<1>6. RestoreRight'
  BY <1>1, EndsIn, Shapes, Written, CodexAssumption DEF CodexInv, RestoreRight,
     Codex!Recover, Restores, Replacing, Deleting, NumberOf
<1>7. HeldRight'
  BY <1>1, EndsIn, Shapes, Written, CodexAssumption DEF CodexInv, HeldRight, Codex!Recover,
     Holding, Swapping, Codex!Mine
<1>8. OursRight'
  BY <1>1, EndsIn, Shapes, Written, CodexAssumption DEF CodexInv, OursRight, Codex!Recover,
     Registers, HeldRight, Holding, Replacing, Deleting
<1>9. InstallUndone'
  BY <1>1, EndsIn, Shapes, Written, CodexAssumption DEF CodexInv, InstallUndone,
     Codex!Recover, Looking, Registers, JobsRight, HeldRight, OursRight, Replacing, Deleting
<1>10. UndoUndone'
  BY <1>1, EndsIn, Shapes, Written, CodexAssumption DEF CodexInv, UndoUndone, Codex!Recover,
     Registers, HeldRight, JobsRight, Replacing, Deleting
<1>11. Codex!EditsKept'
  BY <1>1, Written, WhatIsSaved, EditsStay DEF CodexInv, HeldRight, Holding, Replacing,
     Deleting, Covered, NumberOf, Codex!TextOf, Codex!Recover
<1>12. Codex!FailureUndone'
  <2> SUFFICES ASSUME result' = "failed", configPc' = "idle", failures' <= 1, Registers(config')
               PROVE  FALSE
    BY DEF Codex!FailureUndone, Registers
  <2>1. job = "undo"
    BY <1>1, EndsIn DEF Codex!Recover
  <2>2. failures = 1 /\ failures' = failures
    BY <2>1, Shapes DEF CodexInv, JobsRight, Codex!Recover
  <2> QED
    BY <2>1, <2>2, Written DEF CodexInv, UndoUndone, Registers, HeldRight, Holding,
       Replacing, Deleting, Codex!Recover
<1> QED
  BY <1>2, <1>3, <1>4, <1>5, <1>6, <1>7, <1>8, <1>9, <1>10, <1>11, <1>12 DEF CodexInv

LEMMA ExchangeBackKeeps == ASSUME CodexInv, Codex!ExchangeBack PROVE CodexInv'
<1>1. configPc # "idle" /\ job # "none"
  BY DEF CodexInv, JobsRight, Codex!ExchangeBack
<1> USE DEF Codex!Works, Codex!Fails, Codex!Refused, Codex!Goto, Codex!End, Codex!saved,
        Codex!editor, Codex!Preserved
<1>2. CodexTyped'
  BY <1>1, EndsIn, Shapes, Written, CodexAssumption DEF CodexInv, CodexTyped,
     Codex!ExchangeBack, Codex!TypeOK
<1>3. JobsRight'
  BY <1>1, EndsIn, Shapes, Written, CodexAssumption DEF CodexInv, JobsRight,
     Codex!ExchangeBack, Looking, Replacing, Deleting, Restores
<1>4. ManifestRight'
  BY <1>1, EndsIn, Shapes, Written, CodexAssumption DEF CodexInv, ManifestRight, Codex!ExchangeBack
<1>5. InstallRight'
  BY <1>1, EndsIn, Shapes, Written, CodexAssumption DEF CodexInv, InstallRight,
     Codex!ExchangeBack, Registers, NumberOf
<1>6. RestoreRight'
  BY <1>1, EndsIn, Shapes, Written, CodexAssumption DEF CodexInv, RestoreRight,
     Codex!ExchangeBack, Restores, Replacing, Deleting, NumberOf
<1>7. HeldRight'
  BY <1>1, EndsIn, Shapes, Written, CodexAssumption DEF CodexInv, HeldRight,
     Codex!ExchangeBack, Holding, Swapping, Codex!Mine
<1>8. OursRight'
  BY <1>1, EndsIn, Shapes, Written, CodexAssumption DEF CodexInv, OursRight,
     Codex!ExchangeBack, Registers, HeldRight, Holding, Replacing, Deleting
<1>9. InstallUndone'
  BY <1>1, EndsIn, Shapes, Written, CodexAssumption DEF CodexInv, InstallUndone,
     Codex!ExchangeBack, Looking, Registers, JobsRight, HeldRight, OursRight, Replacing,
     Deleting
<1>10. UndoUndone'
  BY <1>1, EndsIn, Shapes, Written, CodexAssumption DEF CodexInv, UndoUndone,
     Codex!ExchangeBack, Registers, HeldRight, JobsRight, Replacing, Deleting
<1>11. Codex!EditsKept'
  BY <1>1, Written, WhatIsSaved, EditsStay DEF CodexInv, HeldRight, Holding, Replacing,
     Deleting, Covered, NumberOf, Codex!TextOf, Codex!ExchangeBack
<1>12. Codex!FailureUndone'
  <2> SUFFICES ASSUME result' = "failed", configPc' = "idle", failures' <= 1, Registers(config')
               PROVE  FALSE
    BY DEF Codex!FailureUndone, Registers
  <2>1. job = "undo"
    BY <1>1, EndsIn DEF Codex!ExchangeBack
  <2>2. failures = 1 /\ failures' = failures
    BY <2>1, Shapes DEF CodexInv, JobsRight, Codex!ExchangeBack
  <2> QED
    BY <2>1, <2>2, Written DEF CodexInv, UndoUndone, Registers, HeldRight, Holding,
       Replacing, Deleting, Codex!ExchangeBack
<1> QED
  BY <1>2, <1>3, <1>4, <1>5, <1>6, <1>7, <1>8, <1>9, <1>10, <1>11, <1>12 DEF CodexInv

LEMMA ReauditKeeps == ASSUME CodexInv, Codex!Reaudit PROVE CodexInv'
<1>1. configPc # "idle" /\ job # "none"
  BY DEF CodexInv, JobsRight, Codex!Reaudit
<1> USE DEF Codex!Works, Codex!Fails, Codex!Refused, Codex!Goto, Codex!End, Codex!saved,
        Codex!editor, Codex!Preserved
<1>2. CodexTyped'
  BY <1>1, EndsIn, Shapes, Written, CodexAssumption DEF CodexInv, CodexTyped, Codex!Reaudit,
     Codex!TypeOK
<1>3. JobsRight'
  BY <1>1, EndsIn, Shapes, Written, CodexAssumption DEF CodexInv, JobsRight, Codex!Reaudit,
     Looking, Replacing, Deleting, Restores
<1>4. ManifestRight'
  BY <1>1, EndsIn, Shapes, Written, CodexAssumption DEF CodexInv, ManifestRight, Codex!Reaudit
<1>5. InstallRight'
  BY <1>1, EndsIn, Shapes, Written, CodexAssumption DEF CodexInv, InstallRight,
     Codex!Reaudit, Registers, NumberOf
<1>6. RestoreRight'
  BY <1>1, EndsIn, Shapes, Written, CodexAssumption DEF CodexInv, RestoreRight,
     Codex!Reaudit, Restores, Replacing, Deleting, NumberOf
<1>7. HeldRight'
  BY <1>1, EndsIn, Shapes, Written, CodexAssumption DEF CodexInv, HeldRight, Codex!Reaudit,
     Holding, Swapping, Codex!Mine
<1>8. OursRight'
  BY <1>1, EndsIn, Shapes, Written, CodexAssumption DEF CodexInv, OursRight, Codex!Reaudit,
     Registers, HeldRight, Holding, Replacing, Deleting
<1>9. InstallUndone'
  BY <1>1, EndsIn, Shapes, Written, CodexAssumption DEF CodexInv, InstallUndone,
     Codex!Reaudit, Looking, Registers, JobsRight, HeldRight, OursRight, Replacing, Deleting
<1>10. UndoUndone'
  BY <1>1, EndsIn, Shapes, Written, CodexAssumption DEF CodexInv, UndoUndone, Codex!Reaudit,
     Registers, HeldRight, JobsRight, Replacing, Deleting
<1>11. Codex!EditsKept'
  BY <1>1, Written, WhatIsSaved, EditsStay DEF CodexInv, HeldRight, Holding, Replacing,
     Deleting, Covered, NumberOf, Codex!TextOf, Codex!Reaudit
<1>12. Codex!FailureUndone'
  <2> SUFFICES ASSUME result' = "failed", configPc' = "idle", failures' <= 1, Registers(config')
               PROVE  FALSE
    BY DEF Codex!FailureUndone, Registers
  <2>1. job = "undo"
    BY <1>1, EndsIn DEF Codex!Reaudit
  <2>2. failures = 1 /\ failures' = failures
    BY <2>1, Shapes DEF CodexInv, JobsRight, Codex!Reaudit
  <2> QED
    BY <2>1, <2>2, Written DEF CodexInv, UndoUndone, Registers, HeldRight, Holding,
       Replacing, Deleting, Codex!Reaudit
<1> QED
  BY <1>2, <1>3, <1>4, <1>5, <1>6, <1>7, <1>8, <1>9, <1>10, <1>11, <1>12 DEF CodexInv

LEMMA SyncKeeps == ASSUME CodexInv, Codex!Sync PROVE CodexInv'
<1>1. configPc # "idle" /\ job # "none"
  BY DEF CodexInv, JobsRight, Codex!Sync
<1> USE DEF Codex!Works, Codex!Fails, Codex!Goto, Codex!End, Codex!files, Codex!saved,
        Codex!editor
<1>2. CodexTyped'
  BY <1>1, EndsIn, Shapes, Written, CodexAssumption DEF CodexInv, CodexTyped, Codex!Sync,
     Codex!TypeOK
<1>3. JobsRight'
  BY <1>1, EndsIn, Shapes, Written, CodexAssumption DEF CodexInv, JobsRight, Codex!Sync,
     Looking, Replacing, Deleting, Restores
<1>4. ManifestRight'
  BY <1>1, EndsIn, Shapes, Written, CodexAssumption DEF CodexInv, ManifestRight, Codex!Sync
<1>5. InstallRight'
  BY <1>1, EndsIn, Shapes, Written, CodexAssumption DEF CodexInv, InstallRight, Codex!Sync,
     Registers, NumberOf
<1>6. RestoreRight'
  BY <1>1, EndsIn, Shapes, Written, CodexAssumption DEF CodexInv, RestoreRight, Codex!Sync,
     Restores, Replacing, Deleting, NumberOf
<1>7. HeldRight'
  BY <1>1, EndsIn, Shapes, Written, CodexAssumption DEF CodexInv, HeldRight, Codex!Sync,
     Holding, Swapping, Codex!Mine
<1>8. OursRight'
  BY <1>1, EndsIn, Shapes, Written, CodexAssumption DEF CodexInv, OursRight, Codex!Sync,
     Registers, HeldRight, Holding, Replacing, Deleting
<1>9. InstallUndone'
  BY <1>1, EndsIn, Shapes, Written, CodexAssumption DEF CodexInv, InstallUndone, Codex!Sync,
     Looking, Registers, JobsRight, HeldRight, OursRight, Replacing, Deleting
<1>10. UndoUndone'
  BY <1>1, EndsIn, Shapes, Written, CodexAssumption DEF CodexInv, UndoUndone, Codex!Sync,
     Registers, HeldRight, JobsRight, Replacing, Deleting
<1>11. Codex!EditsKept'
  BY <1>1, Written, WhatIsSaved, EditsStay DEF CodexInv, HeldRight, Holding, Replacing,
     Deleting, Covered, NumberOf, Codex!TextOf, Codex!Sync
<1>12. Codex!FailureUndone'
  <2> SUFFICES ASSUME result' = "failed", configPc' = "idle", failures' <= 1, Registers(config')
               PROVE  FALSE
    BY DEF Codex!FailureUndone, Registers
  <2>1. job = "undo"
    BY <1>1, EndsIn DEF Codex!Sync
  <2>2. failures = 1 /\ failures' = failures
    BY <2>1, Shapes DEF CodexInv, JobsRight, Codex!Sync
  <2> QED
    BY <2>1, <2>2, Written DEF CodexInv, UndoUndone, Registers, HeldRight, Holding,
       Replacing, Deleting, Codex!Sync
<1> QED
  BY <1>2, <1>3, <1>4, <1>5, <1>6, <1>7, <1>8, <1>9, <1>10, <1>11, <1>12 DEF CodexInv

LEMMA HandlerKeeps == ASSUME CodexInv, Codex!Handler PROVE CodexInv'
<1>1. configPc # "idle" /\ job # "none"
  BY DEF CodexInv, JobsRight, Codex!Handler
<1> USE DEF Codex!End, Codex!files, Codex!saved, Codex!editor
<1>2. CodexTyped'
  BY <1>1, EndsIn, Shapes, Written, CodexAssumption DEF CodexInv, CodexTyped, Codex!Handler,
     Codex!TypeOK
<1>3. JobsRight'
  <2>1. job = "install"
    BY <1>1 DEF CodexInv, JobsRight, Restores, Replacing, Deleting, CodexTyped,
       Codex!TypeOK, Codex!Handler
  <2>2. config # None /\ config.text = manifest.installed => failures >= 1
    <3>1. manifest # None /\ manifest.installed.ours
      BY Written DEF CodexInv, ManifestRight, Codex!Ours, Codex!Handler
    <3> QED
      BY <2>1, <3>1 DEF CodexInv, InstallUndone, Registers, Codex!Handler
  <2> QED
    BY <1>1, <2>1, <2>2, Shapes DEF JobsRight, Restores, Looking, Replacing, Deleting, Codex!Handler
<1>4. ManifestRight'
  BY <1>1, EndsIn, Shapes, Written, CodexAssumption DEF CodexInv, ManifestRight, Codex!Handler
<1>5. InstallRight'
  BY <1>1, EndsIn, Shapes, Written, CodexAssumption DEF CodexInv, InstallRight,
     Codex!Handler, Registers, NumberOf
<1>6. RestoreRight'
  BY <1>1, EndsIn, Shapes, Written, CodexAssumption DEF CodexInv, RestoreRight,
     Codex!Handler, Restores, Replacing, Deleting, NumberOf
<1>7. HeldRight'
  BY <1>1, EndsIn, Shapes, Written, CodexAssumption DEF CodexInv, HeldRight, Codex!Handler,
     Holding, Swapping, Codex!Mine
<1>8. OursRight'
  BY <1>1, EndsIn, Shapes, Written, CodexAssumption DEF CodexInv, OursRight, Codex!Handler,
     Registers, HeldRight, Holding, Replacing, Deleting
<1>9. InstallUndone'
  BY <1>1, EndsIn, Shapes, Written, CodexAssumption DEF CodexInv, InstallUndone,
     Codex!Handler, Looking, Registers, JobsRight, HeldRight, OursRight, Replacing, Deleting
<1>10. UndoUndone'
  BY <1>1, EndsIn, Shapes, Written, CodexAssumption DEF CodexInv, UndoUndone, Codex!Handler,
     Registers, HeldRight, JobsRight, Replacing, Deleting
<1>11. Codex!EditsKept'
  BY <1>1, Written, WhatIsSaved, EditsStay DEF CodexInv, HeldRight, Holding, Replacing,
     Deleting, Covered, NumberOf, Codex!TextOf, Codex!Handler
<1>12. Codex!FailureUndone'
  <2>1. ~(config # None /\ config.text = manifest.installed) => ~Registers(config)
    BY DEF CodexInv, OursRight, Registers, Codex!File
  <2> QED
    BY <2>1 DEF Codex!FailureUndone, Registers, Codex!Handler
<1> QED
  BY <1>2, <1>3, <1>4, <1>5, <1>6, <1>7, <1>8, <1>9, <1>10, <1>11, <1>12 DEF CodexInv

LEMMA RestoreKeeps == ASSUME CodexInv, Codex!Restore PROVE CodexInv'
<1>1. configPc # "idle" /\ job # "none"
  BY DEF CodexInv, JobsRight, Codex!Restore, Codex!Replaceable
<1> USE DEF Codex!Goto, Codex!End, Codex!files, Codex!saved, Codex!editor
<1>2. CodexTyped'
  <2>1. /\ config' \in Codex!AnyFile \cup {None} /\ temp' \in Codex!AnyFile \cup {None}
        /\ kept' \subseteq Codex!AnyFile
    BY <1>1, Written, CodexAssumption
    DEF CodexInv, CodexTyped, Codex!TypeOK, HeldRight, Holding, Replacing, Deleting, Codex!Restore, Codex!Replaceable
  <2>2. /\ job' \in {"none", "install", "undo", "rollback"}
        /\ configPc' \in {"idle", "handler", "sync"} \cup Looking \cup Replacing \cup Deleting
        /\ result' \in {"none", "ok", "failed", "killed", "refused", "restored", "unrestored"}
    BY <1>1, EndsIn
    DEF CodexInv, CodexTyped, Codex!TypeOK, Looking, Replacing, Deleting, Codex!Restore, Codex!Replaceable
  <2>3. configPc' \in {"audit", "recover", "back", "reaudit", "inspect"} => temp' # None
    BY <1>1, EndsIn, Written DEF CodexInv, HeldRight, Holding, Replacing, Deleting,
       Codex!Restore, Codex!Replaceable
  <2>4. /\ base' \in Codex!AnyFile \cup {None} /\ new' \in Codex!Texts \cup {None}
        /\ backup' \in Codex!Texts \cup {None} /\ manifest' \in Manifests \cup {None}
        /\ forced' \in BOOLEAN
    <3>1. Restores
      BY DEF CodexInv, JobsRight, Restores, Looking, Replacing, CodexTyped, Codex!TypeOK,
         Codex!Restore, Codex!Replaceable
    <3>2. manifest.original \in Codex!Texts /\ manifest' = manifest /\ manifest \in Manifests
      BY <3>1 DEF CodexInv, CodexTyped, RestoreRight, Manifests, Codex!Restore, Codex!Replaceable
    <3>3. /\ base' \in {base, config} /\ new' \in {new, manifest.original} /\ backup' = backup
          /\ forced' = forced
      BY DEF Codex!Restore, Codex!Replaceable
    <3> QED
      BY <3>2, <3>3 DEF CodexInv, CodexTyped, Codex!TypeOK
  <2>5. owed' \subseteq 1 .. MaxEdits /\ edits' \in 0 .. MaxEdits /\ failures' \in 0 .. MaxFailures
    BY CodexAssumption DEF CodexInv, CodexTyped, Codex!TypeOK, Codex!Restore, Codex!Replaceable
  <2> QED
    BY <2>1, <2>2, <2>3, <2>4, <2>5
    DEF CodexTyped, Codex!TypeOK, Looking, Replacing, Deleting
<1>3. JobsRight'
  BY <1>1, EndsIn, Shapes, Written, CodexAssumption DEF CodexInv, JobsRight, Codex!Restore,
     Codex!Replaceable, Looking, Replacing, Deleting, Restores
<1>4. ManifestRight'
  BY <1>1, EndsIn, Shapes, Written, CodexAssumption DEF CodexInv, ManifestRight,
     Codex!Restore, Codex!Replaceable
<1>5. InstallRight'
  <2>1. job \in {"undo", "rollback"}
    BY <1>1 DEF CodexInv, JobsRight, Looking, Replacing, CodexTyped, Codex!TypeOK,
       Codex!Restore, Codex!Replaceable
  <2>2. job' # "install"
    BY <2>1 DEF Codex!Restore, Codex!Replaceable
  <2> QED
    BY <2>2 DEF InstallRight
<1>6. RestoreRight'
  BY <1>1, EndsIn, Shapes, Written, CodexAssumption DEF CodexInv, RestoreRight,
     Codex!Restore, Codex!Replaceable, Restores, Replacing, Deleting, NumberOf
<1>7. HeldRight'
  BY <1>1, EndsIn, Shapes, Written, CodexAssumption DEF CodexInv, HeldRight, Codex!Restore,
     Codex!Replaceable, Holding, Swapping, Codex!Mine
<1>8. OursRight'
  BY <1>1, EndsIn, Shapes, Written, CodexAssumption DEF CodexInv, OursRight, Codex!Restore,
     Codex!Replaceable, Registers, HeldRight, Holding, Replacing, Deleting
<1>9. InstallUndone'
  BY <1>1, EndsIn, Shapes, Written, CodexAssumption DEF CodexInv, InstallUndone,
     Codex!Restore, Codex!Replaceable, Looking, Registers, JobsRight, HeldRight, OursRight,
     Replacing, Deleting
<1>10. UndoUndone'
  BY <1>1, EndsIn, Shapes, Written, CodexAssumption DEF CodexInv, UndoUndone, Codex!Restore,
     Codex!Replaceable, Registers, HeldRight, JobsRight, Replacing, Deleting
<1>11. Codex!EditsKept'
  BY <1>1, Written, WhatIsSaved, EditsStay DEF CodexInv, HeldRight, Holding, Replacing,
     Deleting, Covered, NumberOf, Codex!TextOf, Codex!Restore, Codex!Replaceable
<1>12. Codex!FailureUndone'
  BY <1>1, EndsIn, Shapes, Written, CodexAssumption DEF CodexInv, Codex!FailureUndone,
     Codex!Restore, Codex!Replaceable, InstallUndone, UndoUndone, OursRight, Registers,
     Looking, JobsRight, Replacing
<1> QED
  BY <1>2, <1>3, <1>4, <1>5, <1>6, <1>7, <1>8, <1>9, <1>10, <1>11, <1>12 DEF CodexInv

LEMMA DeleteKeeps == ASSUME CodexInv, Codex!Delete PROVE CodexInv'
<1>1. configPc # "idle" /\ job # "none"
  BY DEF CodexInv, JobsRight, Codex!Delete
<1> USE DEF Codex!Works, Codex!Fails, Codex!Refused, Codex!Goto, Codex!End, Codex!saved,
        Codex!editor
<1>2. CodexTyped'
  BY <1>1, EndsIn, Shapes, Written, CodexAssumption DEF CodexInv, CodexTyped, Codex!Delete,
     Codex!TypeOK
<1>3. JobsRight'
  BY <1>1, EndsIn, Shapes, Written, CodexAssumption DEF CodexInv, JobsRight, Codex!Delete,
     Looking, Replacing, Deleting, Restores
<1>4. ManifestRight'
  BY <1>1, EndsIn, Shapes, Written, CodexAssumption DEF CodexInv, ManifestRight, Codex!Delete
<1>5. InstallRight'
  BY <1>1, EndsIn, Shapes, Written, CodexAssumption DEF CodexInv, InstallRight,
     Codex!Delete, Registers, NumberOf
<1>6. RestoreRight'
  BY <1>1, EndsIn, Shapes, Written, CodexAssumption DEF CodexInv, RestoreRight,
     Codex!Delete, Restores, Replacing, Deleting, NumberOf
<1>7. HeldRight'
  BY <1>1, EndsIn, Shapes, Written, CodexAssumption DEF CodexInv, HeldRight, Codex!Delete,
     Holding, Swapping, Codex!Mine
<1>8. OursRight'
  BY <1>1, EndsIn, Shapes, Written, CodexAssumption DEF CodexInv, OursRight, Codex!Delete,
     Registers, HeldRight, Holding, Replacing, Deleting
<1>9. InstallUndone'
  BY <1>1, EndsIn, Shapes, Written, CodexAssumption DEF CodexInv, InstallUndone,
     Codex!Delete, Looking, Registers, JobsRight, HeldRight, OursRight, Replacing, Deleting
<1>10. UndoUndone'
  BY <1>1, EndsIn, Shapes, Written, CodexAssumption DEF CodexInv, UndoUndone, Codex!Delete,
     Registers, HeldRight, JobsRight, Replacing, Deleting
<1>11. Codex!EditsKept'
  BY <1>1, Written, WhatIsSaved, EditsStay DEF CodexInv, HeldRight, Holding, Replacing,
     Deleting, Covered, NumberOf, Codex!TextOf, Codex!Delete
<1>12. Codex!FailureUndone'
  <2> SUFFICES ASSUME result' = "failed", configPc' = "idle", failures' <= 1, Registers(config')
               PROVE  FALSE
    BY DEF Codex!FailureUndone, Registers
  <2>1. job = "undo"
    BY <1>1, EndsIn DEF Codex!Delete
  <2>2. failures = 1 /\ failures' = failures
    BY <2>1, Shapes DEF CodexInv, JobsRight, Codex!Delete
  <2> QED
    BY <2>1, <2>2, Written DEF CodexInv, UndoUndone, Registers, HeldRight, Holding,
       Replacing, Deleting, Codex!Delete
<1> QED
  BY <1>2, <1>3, <1>4, <1>5, <1>6, <1>7, <1>8, <1>9, <1>10, <1>11, <1>12 DEF CodexInv

LEMMA InspectKeeps == ASSUME CodexInv, Codex!Inspect PROVE CodexInv'
<1>1. configPc # "idle" /\ job # "none"
  BY DEF CodexInv, JobsRight, Codex!Inspect
<1> USE DEF Codex!Works, Codex!Fails, Codex!Refused, Codex!Goto, Codex!End, Codex!saved,
        Codex!editor
<1>2. CodexTyped'
  BY <1>1, EndsIn, Shapes, Written, CodexAssumption DEF CodexInv, CodexTyped, Codex!Inspect,
     Codex!TypeOK
<1>3. JobsRight'
  BY <1>1, EndsIn, Shapes, Written, CodexAssumption DEF CodexInv, JobsRight, Codex!Inspect,
     Looking, Replacing, Deleting, Restores
<1>4. ManifestRight'
  BY <1>1, EndsIn, Shapes, Written, CodexAssumption DEF CodexInv, ManifestRight, Codex!Inspect
<1>5. InstallRight'
  BY <1>1, EndsIn, Shapes, Written, CodexAssumption DEF CodexInv, InstallRight,
     Codex!Inspect, Registers, NumberOf
<1>6. RestoreRight'
  BY <1>1, EndsIn, Shapes, Written, CodexAssumption DEF CodexInv, RestoreRight,
     Codex!Inspect, Restores, Replacing, Deleting, NumberOf
<1>7. HeldRight'
  BY <1>1, EndsIn, Shapes, Written, CodexAssumption DEF CodexInv, HeldRight, Codex!Inspect,
     Holding, Swapping, Codex!Mine
<1>8. OursRight'
  BY <1>1, EndsIn, Shapes, Written, CodexAssumption DEF CodexInv, OursRight, Codex!Inspect,
     Registers, HeldRight, Holding, Replacing, Deleting
<1>9. InstallUndone'
  BY <1>1, EndsIn, Shapes, Written, CodexAssumption DEF CodexInv, InstallUndone,
     Codex!Inspect, Looking, Registers, JobsRight, HeldRight, OursRight, Replacing, Deleting
<1>10. UndoUndone'
  BY <1>1, EndsIn, Shapes, Written, CodexAssumption DEF CodexInv, UndoUndone, Codex!Inspect,
     Registers, HeldRight, JobsRight, Replacing, Deleting
<1>11. Codex!EditsKept'
  BY <1>1, Written, WhatIsSaved, EditsStay DEF CodexInv, HeldRight, Holding, Replacing,
     Deleting, Covered, NumberOf, Codex!TextOf, Codex!Inspect
<1>12. Codex!FailureUndone'
  <2> SUFFICES ASSUME result' = "failed", configPc' = "idle", failures' <= 1, Registers(config')
               PROVE  FALSE
    BY DEF Codex!FailureUndone, Registers
  <2>1. job = "undo"
    BY <1>1, EndsIn DEF Codex!Inspect
  <2>2. failures = 1 /\ failures' = failures
    BY <2>1, Shapes DEF CodexInv, JobsRight, Codex!Inspect
  <2> QED
    BY <2>1, <2>2, Written DEF CodexInv, UndoUndone, Registers, HeldRight, Holding,
       Replacing, Deleting, Codex!Inspect
<1> QED
  BY <1>2, <1>3, <1>4, <1>5, <1>6, <1>7, <1>8, <1>9, <1>10, <1>11, <1>12 DEF CodexInv

LEMMA KilledKeeps == ASSUME CodexInv, Codex!Killed PROVE CodexInv'
<1>1. configPc # "idle" /\ job # "none"
  BY DEF CodexInv, JobsRight, Codex!Killed
<1> USE DEF Codex!Fails, Codex!End, Codex!saved, Codex!editor
<1>2. CodexTyped'
  BY <1>1, EndsIn, Shapes, Written, CodexAssumption DEF CodexInv, CodexTyped, Codex!Killed,
     Codex!TypeOK
<1>3. JobsRight'
  BY <1>1, EndsIn, Shapes, Written, CodexAssumption DEF CodexInv, JobsRight, Codex!Killed,
     Looking, Replacing, Deleting, Restores
<1>4. ManifestRight'
  BY <1>1, EndsIn, Shapes, Written, CodexAssumption DEF CodexInv, ManifestRight, Codex!Killed
<1>5. InstallRight'
  BY <1>1, EndsIn, Shapes, Written, CodexAssumption DEF CodexInv, InstallRight,
     Codex!Killed, Registers, NumberOf
<1>6. RestoreRight'
  BY <1>1, EndsIn, Shapes, Written, CodexAssumption DEF CodexInv, RestoreRight,
     Codex!Killed, Restores, Replacing, Deleting, NumberOf
<1>7. HeldRight'
  BY <1>1, EndsIn, Shapes, Written, CodexAssumption DEF CodexInv, HeldRight, Codex!Killed,
     Holding, Swapping, Codex!Mine
<1>8. OursRight'
  BY <1>1, EndsIn, Shapes, Written, CodexAssumption DEF CodexInv, OursRight, Codex!Killed,
     Registers, HeldRight, Holding, Replacing, Deleting
<1>9. InstallUndone'
  BY <1>1, EndsIn, Shapes, Written, CodexAssumption DEF CodexInv, InstallUndone,
     Codex!Killed, Looking, Registers, JobsRight, HeldRight, OursRight, Replacing, Deleting
<1>10. UndoUndone'
  BY <1>1, EndsIn, Shapes, Written, CodexAssumption DEF CodexInv, UndoUndone, Codex!Killed,
     Registers, HeldRight, JobsRight, Replacing, Deleting
<1>11. Codex!EditsKept'
  BY <1>1, Written, WhatIsSaved, EditsStay DEF CodexInv, HeldRight, Holding, Replacing,
     Deleting, Covered, NumberOf, Codex!TextOf, Codex!Killed
<1>12. Codex!FailureUndone'
  BY <1>1, EndsIn, Shapes, Written, CodexAssumption DEF CodexInv, Codex!FailureUndone,
     Codex!Killed, InstallUndone, UndoUndone, OursRight, Registers, Looking, JobsRight,
     Replacing
<1> QED
  BY <1>2, <1>3, <1>4, <1>5, <1>6, <1>7, <1>8, <1>9, <1>10, <1>11, <1>12 DEF CodexInv

LEMMA EditKeeps == ASSUME CodexInv, Codex!Edit PROVE CodexInv'
<1>1. CodexInv
  OBVIOUS
<1> USE DEF Codex!saved, Codex!editor, Codex!code
<1>2. CodexTyped'
  <2>1. /\ config' = Codex!File(Codex!Text(edits + 1), "editor") /\ edits' = edits + 1 /\ edits < MaxEdits
        /\ owed' = (owed \ {NumberOf(config)}) \cup {edits + 1}
        /\ UNCHANGED <<job, configPc, base, new, forced, result, temp, kept, backup, manifest, overruled, failures>>
    BY DEF NumberOf, Codex!Edit, Codex!Forget
  <2>2. /\ config' \in Codex!AnyFile /\ config' # None /\ ~Registers(config)' /\ config'.by = "editor"
        /\ edits + 1 \in 1 .. MaxEdits /\ edits + 1 \in 0 .. MaxEdits
        /\ config'.text.number = edits + 1
    BY <2>1, NewText DEF Registers
  <2>3. owed' \subseteq 1 .. MaxEdits /\ config' \in Codex!AnyFile \cup {None} /\ edits' \in 0 .. MaxEdits
    BY <2>1, <2>2 DEF CodexInv, CodexTyped, Codex!TypeOK
  <2> HIDE <2>2
  <2> QED
    BY <2>1, <2>3 DEF CodexInv, CodexTyped, Codex!TypeOK
<1>3. JobsRight'
  BY <1>1, EndsIn, Shapes, Written, CodexAssumption DEF CodexInv, JobsRight, Codex!Edit,
     Codex!Forget, Looking, Replacing, Deleting, Restores
<1>4. ManifestRight'
  BY <1>1, EndsIn, Shapes, Written, CodexAssumption DEF CodexInv, ManifestRight, Codex!Edit,
     Codex!Forget
<1>5. InstallRight'
  BY <1>1, EndsIn, Shapes, Written, CodexAssumption DEF CodexInv, InstallRight, Codex!Edit,
     Codex!Forget, Registers, NumberOf
<1>6. RestoreRight'
  BY <1>1, EndsIn, Shapes, Written, CodexAssumption DEF CodexInv, RestoreRight, Codex!Edit,
     Codex!Forget, Restores, Replacing, Deleting, NumberOf
<1>7. HeldRight'
  BY <1>1, EndsIn, Shapes, Written, CodexAssumption DEF CodexInv, HeldRight, Codex!Edit,
     Codex!Forget, Holding, Swapping, Codex!Mine
<1>8. OursRight'
  <2>1. /\ config' = Codex!File(Codex!Text(edits + 1), "editor") /\ edits' = edits + 1 /\ edits < MaxEdits
        /\ owed' = (owed \ {NumberOf(config)}) \cup {edits + 1}
        /\ UNCHANGED <<job, configPc, base, new, forced, result, temp, kept, backup, manifest, overruled, failures>>
    BY DEF NumberOf, Codex!Edit, Codex!Forget
  <2>2. /\ config' \in Codex!AnyFile /\ config' # None /\ ~Registers(config)' /\ config'.by = "editor"
        /\ edits + 1 \in 1 .. MaxEdits /\ edits + 1 \in 0 .. MaxEdits
        /\ config'.text.number = edits + 1
    BY <2>1, NewText DEF Registers
  <2> QED
    BY <2>1, <2>2 DEF CodexInv, OursRight, Registers
<1>9. InstallUndone'
  <2>1. /\ config' = Codex!File(Codex!Text(edits + 1), "editor") /\ edits' = edits + 1 /\ edits < MaxEdits
        /\ owed' = (owed \ {NumberOf(config)}) \cup {edits + 1}
        /\ UNCHANGED <<job, configPc, base, new, forced, result, temp, kept, backup, manifest, overruled, failures>>
    BY DEF NumberOf, Codex!Edit, Codex!Forget
  <2>2. /\ config' \in Codex!AnyFile /\ config' # None /\ ~Registers(config)' /\ config'.by = "editor"
        /\ edits + 1 \in 1 .. MaxEdits /\ edits + 1 \in 0 .. MaxEdits
        /\ config'.text.number = edits + 1
    BY <2>1, NewText DEF Registers
  <2>3. ~Registers(config') /\ Registers(temp') = Registers(temp)
    BY <2>1, <2>2 DEF Registers
  <2> QED
    BY <2>1, <2>3 DEF CodexInv, InstallUndone
<1>10. UndoUndone'
  <2>1. /\ config' = Codex!File(Codex!Text(edits + 1), "editor") /\ edits' = edits + 1 /\ edits < MaxEdits
        /\ owed' = (owed \ {NumberOf(config)}) \cup {edits + 1}
        /\ UNCHANGED <<job, configPc, base, new, forced, result, temp, kept, backup, manifest, overruled, failures>>
    BY DEF NumberOf, Codex!Edit, Codex!Forget
  <2>2. /\ config' \in Codex!AnyFile /\ config' # None /\ ~Registers(config)' /\ config'.by = "editor"
        /\ edits + 1 \in 1 .. MaxEdits /\ edits + 1 \in 0 .. MaxEdits
        /\ config'.text.number = edits + 1
    BY <2>1, NewText DEF Registers
  <2>3. ~Registers(config') /\ Registers(temp') = Registers(temp)
    BY <2>1, <2>2 DEF Registers
  <2> QED
    BY <2>1, <2>3 DEF CodexInv, UndoUndone
<1>11. Codex!EditsKept'
  <2>1. /\ config' = Codex!File(Codex!Text(edits + 1), "editor") /\ edits' = edits + 1 /\ edits < MaxEdits
        /\ owed' = (owed \ {NumberOf(config)}) \cup {edits + 1}
        /\ UNCHANGED <<job, configPc, base, new, forced, result, temp, kept, backup, manifest, overruled, failures>>
    BY DEF NumberOf, Codex!Edit, Codex!Forget
  <2>2. /\ config' \in Codex!AnyFile /\ config' # None /\ ~Registers(config)' /\ config'.by = "editor"
        /\ edits + 1 \in 1 .. MaxEdits /\ edits + 1 \in 0 .. MaxEdits
        /\ config'.text.number = edits + 1
    BY <2>1, NewText DEF Registers
  <2> SUFFICES ASSUME NEW n \in owed'
               PROVE  (\E f \in {config', temp'} \cup kept' : f # None /\ f.text.number = n)
                        \/ backup' = Codex!Text(n)
                        \/ \E j \in {"undo", "rollback"} : <<j, n>> \in overruled'
    BY DEF Codex!EditsKept, Codex!OnDisk
  <2>3. CASE n = edits + 1
    BY <2>2, <2>3
  <2>4. CASE n \in owed /\ n # NumberOf(config)
    BY <2>1, <2>4 DEF CodexInv, Codex!EditsKept, Codex!OnDisk, NumberOf, Codex!TextOf
  <2> QED
    BY <2>1, <2>3, <2>4
<1>12. Codex!FailureUndone'
  <2>1. /\ config' = Codex!File(Codex!Text(edits + 1), "editor") /\ edits' = edits + 1 /\ edits < MaxEdits
        /\ owed' = (owed \ {NumberOf(config)}) \cup {edits + 1}
        /\ UNCHANGED <<job, configPc, base, new, forced, result, temp, kept, backup, manifest, overruled, failures>>
    BY DEF NumberOf, Codex!Edit, Codex!Forget
  <2>2. /\ config' \in Codex!AnyFile /\ config' # None /\ ~Registers(config)' /\ config'.by = "editor"
        /\ edits + 1 \in 1 .. MaxEdits /\ edits + 1 \in 0 .. MaxEdits
        /\ config'.text.number = edits + 1
    BY <2>1, NewText DEF Registers
  <2> QED
    BY <2>1, <2>2 DEF Codex!FailureUndone, Registers
<1> QED
  BY <1>2, <1>3, <1>4, <1>5, <1>6, <1>7, <1>8, <1>9, <1>10, <1>11, <1>12 DEF CodexInv

LEMMA RemoveKeeps == ASSUME CodexInv, Codex!Remove PROVE CodexInv'
<1>1. CodexInv
  OBVIOUS
<1> USE DEF Codex!saved, Codex!editor, Codex!code
<1>2. CodexTyped'
  <2>1. /\ config' = None /\ owed' \subseteq owed /\ edits' \in 0 .. MaxEdits
        /\ UNCHANGED <<job, configPc, base, new, forced, result, temp, kept, backup, manifest, overruled, failures>>
    BY NewText DEF Codex!Remove, Codex!Forget
  <2> QED
    BY <2>1 DEF CodexInv, CodexTyped, Codex!TypeOK
<1>3. JobsRight'
  BY <1>1, EndsIn, Shapes, Written, CodexAssumption DEF CodexInv, JobsRight, Codex!Remove,
     Codex!Forget, Looking, Replacing, Deleting, Restores
<1>4. ManifestRight'
  BY <1>1, EndsIn, Shapes, Written, CodexAssumption DEF CodexInv, ManifestRight,
     Codex!Remove, Codex!Forget
<1>5. InstallRight'
  BY <1>1, EndsIn, Shapes, Written, CodexAssumption DEF CodexInv, InstallRight,
     Codex!Remove, Codex!Forget, Registers, NumberOf
<1>6. RestoreRight'
  BY <1>1, EndsIn, Shapes, Written, CodexAssumption DEF CodexInv, RestoreRight,
     Codex!Remove, Codex!Forget, Restores, Replacing, Deleting, NumberOf
<1>7. HeldRight'
  BY <1>1, EndsIn, Shapes, Written, CodexAssumption DEF CodexInv, HeldRight, Codex!Remove,
     Codex!Forget, Holding, Swapping, Codex!Mine
<1>8. OursRight'
  BY <1>1, EndsIn, Shapes, Written, CodexAssumption DEF CodexInv, OursRight, Codex!Remove,
     Codex!Forget, Registers, HeldRight, Holding, Replacing, Deleting
<1>9. InstallUndone'
  BY <1>1, EndsIn, Shapes, Written, CodexAssumption DEF CodexInv, InstallUndone,
     Codex!Remove, Codex!Forget, Looking, Registers, JobsRight, HeldRight, OursRight,
     Replacing, Deleting
<1>10. UndoUndone'
  BY <1>1, EndsIn, Shapes, Written, CodexAssumption DEF CodexInv, UndoUndone, Codex!Remove,
     Codex!Forget, Registers, HeldRight, JobsRight, Replacing, Deleting
<1>11. Codex!EditsKept'
  BY <1>1, Written, WhatIsSaved, EditsStay DEF CodexInv, HeldRight, Holding, Replacing,
     Deleting, Covered, NumberOf, Codex!TextOf, Codex!Remove, Codex!Forget
<1>12. Codex!FailureUndone'
  BY <1>1, EndsIn, Shapes, Written, CodexAssumption DEF CodexInv, Codex!FailureUndone,
     Codex!Remove, Codex!Forget, InstallUndone, UndoUndone, OursRight, Registers, Looking,
     JobsRight, Replacing
<1> QED
  BY <1>2, <1>3, <1>4, <1>5, <1>6, <1>7, <1>8, <1>9, <1>10, <1>11, <1>12 DEF CodexInv

LEMMA WriteBesideKeeps == ASSUME CodexInv, Codex!WriteBeside PROVE CodexInv'
<1>1. configPc # "idle" /\ job # "none"
  BY DEF CodexInv, JobsRight, Codex!WriteBeside
<1> USE DEF Codex!Works, Codex!Fails, Codex!Refused, Codex!Goto, Codex!End, Codex!saved,
        Codex!editor
<1>2. CodexTyped'
  <2>1. /\ config' \in Codex!AnyFile \cup {None} /\ temp' \in Codex!AnyFile \cup {None}
        /\ kept' \subseteq Codex!AnyFile
    BY <1>1, Written, CodexAssumption
    DEF CodexInv, CodexTyped, Codex!TypeOK, HeldRight, Holding, Replacing, Deleting, Codex!WriteBeside
  <2>2. /\ job' \in {"none", "install", "undo", "rollback"}
        /\ configPc' \in {"idle", "handler", "sync"} \cup Looking \cup Replacing \cup Deleting
        /\ result' \in {"none", "ok", "failed", "killed", "refused", "restored", "unrestored"}
    BY <1>1, EndsIn
    DEF CodexInv, CodexTyped, Codex!TypeOK, Looking, Replacing, Deleting, Codex!WriteBeside
  <2>3. configPc' \in {"audit", "recover", "back", "reaudit", "inspect"} => temp' # None
    BY <1>1, EndsIn, Written DEF CodexInv, HeldRight, Holding, Replacing, Deleting,
       Codex!WriteBeside
  <2>4. /\ base' \in Codex!AnyFile \cup {None} /\ new' \in Codex!Texts \cup {None}
        /\ backup' \in Codex!Texts \cup {None} /\ manifest' \in Manifests \cup {None}
        /\ forced' \in BOOLEAN
    BY Written, Shapes, CodexAssumption
    DEF CodexInv, CodexTyped, Codex!TypeOK, Manifests, InstallRight, JobsRight, RestoreRight, Codex!WriteBeside
  <2>5. owed' \subseteq 1 .. MaxEdits /\ edits' \in 0 .. MaxEdits /\ failures' \in 0 .. MaxFailures
    BY CodexAssumption DEF CodexInv, CodexTyped, Codex!TypeOK, Codex!WriteBeside
  <2> QED
    BY <2>1, <2>2, <2>3, <2>4, <2>5
    DEF CodexTyped, Codex!TypeOK, Looking, Replacing, Deleting
<1>3. JobsRight'
  BY <1>1, EndsIn, Shapes, Written, CodexAssumption DEF CodexInv, JobsRight,
     Codex!WriteBeside, Looking, Replacing, Deleting, Restores
<1>4. ManifestRight'
  BY <1>1, EndsIn, Shapes, Written, CodexAssumption DEF CodexInv, ManifestRight, Codex!WriteBeside
<1>5. InstallRight'
  BY <1>1, EndsIn, Shapes, Written, CodexAssumption DEF CodexInv, InstallRight,
     Codex!WriteBeside, Registers, NumberOf
<1>6. RestoreRight'
  BY <1>1, EndsIn, Shapes, Written, CodexAssumption DEF CodexInv, RestoreRight,
     Codex!WriteBeside, Restores, Replacing, Deleting, NumberOf
<1>7. HeldRight'
  <2>1. \/ /\ temp' = Codex!Mine /\ configPc' = (IF base = None THEN "link" ELSE IF "WriteBeside" = "Write" THEN "exchange" ELSE "replace")
        \/ temp' = temp /\ configPc' \in {"idle", "handler"}
    BY <1>1, EndsIn DEF Codex!WriteBeside
  <2>2. Codex!Mine' = Codex!Mine /\ base' = base /\ Codex!Mine # None /\ temp = None
    BY <1>1, Written DEF Codex!Mine, CodexInv, HeldRight, Holding, Replacing, Codex!WriteBeside
  <2> QED
    BY <2>1, <2>2 DEF HeldRight, Holding, Swapping
<1>8. OursRight'
  BY <1>1, EndsIn, Shapes, Written, CodexAssumption DEF CodexInv, OursRight,
     Codex!WriteBeside, Registers, HeldRight, Holding, Replacing, Deleting
<1>9. InstallUndone'
  BY <1>1, EndsIn, Shapes, Written, CodexAssumption DEF CodexInv, InstallUndone,
     Codex!WriteBeside, Looking, Registers, JobsRight, HeldRight, OursRight, Replacing,
     Deleting
<1>10. UndoUndone'
  BY <1>1, EndsIn, Shapes, Written, CodexAssumption DEF CodexInv, UndoUndone,
     Codex!WriteBeside, Registers, HeldRight, JobsRight, Replacing, Deleting
<1>11. Codex!EditsKept'
  BY <1>1, Written, WhatIsSaved, EditsStay DEF CodexInv, HeldRight, Holding, Replacing,
     Deleting, Covered, NumberOf, Codex!TextOf, Codex!WriteBeside
<1>12. Codex!FailureUndone'
  <2> SUFFICES ASSUME result' = "failed", configPc' = "idle", failures' <= 1, Registers(config')
               PROVE  FALSE
    BY DEF Codex!FailureUndone, Registers
  <2>1. job = "undo"
    BY <1>1, EndsIn DEF Codex!WriteBeside
  <2>2. failures = 1 /\ failures' = failures
    BY <2>1, Shapes DEF CodexInv, JobsRight, Codex!WriteBeside
  <2> QED
    BY <2>1, <2>2, Written DEF CodexInv, UndoUndone, Registers, HeldRight, Holding,
       Replacing, Deleting, Codex!WriteBeside
<1> QED
  BY <1>2, <1>3, <1>4, <1>5, <1>6, <1>7, <1>8, <1>9, <1>10, <1>11, <1>12 DEF CodexInv

LEMMA RenameNewKeeps == ASSUME CodexInv, Codex!RenameNew PROVE CodexInv'
<1>1. configPc # "idle" /\ job # "none"
  BY DEF CodexInv, JobsRight, Codex!RenameNew
<1> USE DEF Codex!Works, Codex!Fails, Codex!Refused, Codex!Goto, Codex!End, Codex!saved,
        Codex!editor
<1>2. CodexTyped'
  BY <1>1, EndsIn, Shapes, Written, CodexAssumption DEF CodexInv, CodexTyped,
     Codex!RenameNew, Codex!TypeOK
<1>3. JobsRight'
  BY <1>1, EndsIn, Shapes, Written, CodexAssumption DEF CodexInv, JobsRight,
     Codex!RenameNew, Looking, Replacing, Deleting, Restores
<1>4. ManifestRight'
  BY <1>1, EndsIn, Shapes, Written, CodexAssumption DEF CodexInv, ManifestRight, Codex!RenameNew
<1>5. InstallRight'
  BY <1>1, EndsIn, Shapes, Written, CodexAssumption DEF CodexInv, InstallRight,
     Codex!RenameNew, Registers, NumberOf
<1>6. RestoreRight'
  BY <1>1, EndsIn, Shapes, Written, CodexAssumption DEF CodexInv, RestoreRight,
     Codex!RenameNew, Restores, Replacing, Deleting, NumberOf
<1>7. HeldRight'
  BY <1>1, EndsIn, Shapes, Written, CodexAssumption DEF CodexInv, HeldRight,
     Codex!RenameNew, Holding, Swapping, Codex!Mine
<1>8. OursRight'
  BY <1>1, EndsIn, Shapes, Written, CodexAssumption DEF CodexInv, OursRight,
     Codex!RenameNew, Registers, HeldRight, Holding, Replacing, Deleting
<1>9. InstallUndone'
  BY <1>1, EndsIn, Shapes, Written, CodexAssumption DEF CodexInv, InstallUndone,
     Codex!RenameNew, Looking, Registers, JobsRight, HeldRight, OursRight, Replacing,
     Deleting
<1>10. UndoUndone'
  BY <1>1, EndsIn, Shapes, Written, CodexAssumption DEF CodexInv, UndoUndone,
     Codex!RenameNew, Registers, HeldRight, JobsRight, Replacing, Deleting
<1>11. Codex!EditsKept'
  BY <1>1, Written, WhatIsSaved, EditsStay DEF CodexInv, HeldRight, Holding, Replacing,
     Deleting, Covered, NumberOf, Codex!TextOf, Codex!RenameNew
<1>12. Codex!FailureUndone'
  <2> SUFFICES ASSUME result' = "failed", configPc' = "idle", failures' <= 1, Registers(config')
               PROVE  FALSE
    BY DEF Codex!FailureUndone, Registers
  <2>1. job = "undo"
    BY <1>1, EndsIn DEF Codex!RenameNew
  <2>2. failures = 1 /\ failures' = failures
    BY <2>1, Shapes DEF CodexInv, JobsRight, Codex!RenameNew
  <2> QED
    BY <2>1, <2>2, Written DEF CodexInv, UndoUndone, Registers, HeldRight, Holding,
       Replacing, Deleting, Codex!RenameNew
<1> QED
  BY <1>2, <1>3, <1>4, <1>5, <1>6, <1>7, <1>8, <1>9, <1>10, <1>11, <1>12 DEF CodexInv

LEMMA ReplaceKeeps == ASSUME CodexInv, Codex!Replace PROVE CodexInv'
<1>1. configPc # "idle" /\ job # "none"
  BY DEF CodexInv, JobsRight, Codex!Replace, Codex!ReplaceFile
<1> USE DEF Codex!Works, Codex!Fails, Codex!Refused, Codex!Goto, Codex!End, Codex!saved,
        Codex!editor, Codex!Hide
<1>2. CodexTyped'
  <2>1. /\ config' \in Codex!AnyFile \cup {None} /\ temp' \in Codex!AnyFile \cup {None}
        /\ kept' \subseteq Codex!AnyFile
    BY <1>1, Written, CodexAssumption
    DEF CodexInv, CodexTyped, Codex!TypeOK, HeldRight, Holding, Replacing, Deleting, Codex!Replace, Codex!ReplaceFile
  <2>2. /\ job' \in {"none", "install", "undo", "rollback"}
        /\ configPc' \in {"idle", "handler", "sync"} \cup Looking \cup Replacing \cup Deleting
        /\ result' \in {"none", "ok", "failed", "killed", "refused", "restored", "unrestored"}
    BY <1>1, EndsIn
    DEF CodexInv, CodexTyped, Codex!TypeOK, Looking, Replacing, Deleting, Codex!Replace, Codex!ReplaceFile
  <2>3. configPc' \in {"audit", "recover", "back", "reaudit", "inspect"} => temp' # None
    BY <1>1, EndsIn, Written DEF CodexInv, HeldRight, Holding, Replacing, Deleting,
       Codex!Replace, Codex!ReplaceFile
  <2>4. /\ base' \in Codex!AnyFile \cup {None} /\ new' \in Codex!Texts \cup {None}
        /\ backup' \in Codex!Texts \cup {None} /\ manifest' \in Manifests \cup {None}
        /\ forced' \in BOOLEAN
    BY Written, Shapes, CodexAssumption
    DEF CodexInv, CodexTyped, Codex!TypeOK, Manifests, InstallRight, JobsRight, RestoreRight, Codex!Replace, Codex!ReplaceFile
  <2>5. owed' \subseteq 1 .. MaxEdits /\ edits' \in 0 .. MaxEdits /\ failures' \in 0 .. MaxFailures
    BY CodexAssumption DEF CodexInv, CodexTyped, Codex!TypeOK, Codex!Replace, Codex!ReplaceFile
  <2> QED
    BY <2>1, <2>2, <2>3, <2>4, <2>5
    DEF CodexTyped, Codex!TypeOK, Looking, Replacing, Deleting
<1>3. JobsRight'
  BY <1>1, EndsIn, Shapes, Written, CodexAssumption DEF CodexInv, JobsRight, Codex!Replace,
     Codex!ReplaceFile, Looking, Replacing, Deleting, Restores
<1>4. ManifestRight'
  BY <1>1, EndsIn, Shapes, Written, CodexAssumption DEF CodexInv, ManifestRight,
     Codex!Replace, Codex!ReplaceFile
<1>5. InstallRight'
  BY <1>1, EndsIn, Shapes, Written, CodexAssumption DEF CodexInv, InstallRight,
     Codex!Replace, Codex!ReplaceFile, Registers, NumberOf
<1>6. RestoreRight'
  BY <1>1, EndsIn, Shapes, Written, CodexAssumption DEF CodexInv, RestoreRight,
     Codex!Replace, Codex!ReplaceFile, Restores, Replacing, Deleting, NumberOf
<1>7. HeldRight'
  BY <1>1, EndsIn, Shapes, Written, CodexAssumption DEF CodexInv, HeldRight, Codex!Replace,
     Codex!ReplaceFile, Holding, Swapping, Codex!Mine
<1>8. OursRight'
  BY <1>1, EndsIn, Shapes, Written, CodexAssumption DEF CodexInv, OursRight, Codex!Replace,
     Codex!ReplaceFile, Registers, HeldRight, Holding, Replacing, Deleting
<1>9. InstallUndone'
  BY <1>1, EndsIn, Shapes, Written, CodexAssumption DEF CodexInv, InstallUndone,
     Codex!Replace, Codex!ReplaceFile, Looking, Registers, JobsRight, HeldRight, OursRight,
     Replacing, Deleting
<1>10. UndoUndone'
  BY <1>1, EndsIn, Shapes, Written, CodexAssumption DEF CodexInv, UndoUndone, Codex!Replace,
     Codex!ReplaceFile, Registers, HeldRight, JobsRight, Replacing, Deleting
<1>11. Codex!EditsKept'
  BY <1>1, Written, WhatIsSaved, EditsStay DEF CodexInv, HeldRight, Holding, Replacing,
     Deleting, Covered, NumberOf, Codex!TextOf, Codex!Replace, Codex!ReplaceFile
<1>12. Codex!FailureUndone'
  <2> SUFFICES ASSUME result' = "failed", configPc' = "idle", failures' <= 1, Registers(config')
               PROVE  FALSE
    BY DEF Codex!FailureUndone, Registers
  <2>1. job = "undo"
    BY <1>1, EndsIn DEF Codex!Replace, Codex!ReplaceFile
  <2>2. failures = 1 /\ failures' = failures
    BY <2>1, Shapes DEF CodexInv, JobsRight, Codex!Replace, Codex!ReplaceFile
  <2> QED
    BY <2>1, <2>2, Written DEF CodexInv, UndoUndone, Registers, HeldRight, Holding,
       Replacing, Deleting, Codex!Replace, Codex!ReplaceFile
<1> QED
  BY <1>2, <1>3, <1>4, <1>5, <1>6, <1>7, <1>8, <1>9, <1>10, <1>11, <1>12 DEF CodexInv

LEMMA MoveBackKeeps == ASSUME CodexInv, Codex!MoveBack PROVE CodexInv'
<1>1. configPc # "idle" /\ job # "none"
  BY DEF CodexInv, JobsRight, Codex!MoveBack
<1> USE DEF Codex!Works, Codex!Fails, Codex!Refused, Codex!Goto, Codex!End, Codex!saved,
        Codex!editor, Codex!Hide
<1>2. CodexTyped'
  <2>1. /\ config' \in Codex!AnyFile \cup {None} /\ temp' \in Codex!AnyFile \cup {None}
        /\ kept' \subseteq Codex!AnyFile
    BY <1>1, Written, CodexAssumption
    DEF CodexInv, CodexTyped, Codex!TypeOK, HeldRight, Holding, Replacing, Deleting, Codex!MoveBack
  <2>2. /\ job' \in {"none", "install", "undo", "rollback"}
        /\ configPc' \in {"idle", "handler", "sync"} \cup Looking \cup Replacing \cup Deleting
        /\ result' \in {"none", "ok", "failed", "killed", "refused", "restored", "unrestored"}
    BY <1>1, EndsIn
    DEF CodexInv, CodexTyped, Codex!TypeOK, Looking, Replacing, Deleting, Codex!MoveBack
  <2>3. configPc' \in {"audit", "recover", "back", "reaudit", "inspect"} => temp' # None
    BY <1>1, EndsIn, Written DEF CodexInv, HeldRight, Holding, Replacing, Deleting, Codex!MoveBack
  <2>4. /\ base' \in Codex!AnyFile \cup {None} /\ new' \in Codex!Texts \cup {None}
        /\ backup' \in Codex!Texts \cup {None} /\ manifest' \in Manifests \cup {None}
        /\ forced' \in BOOLEAN
    BY Written, Shapes, CodexAssumption
    DEF CodexInv, CodexTyped, Codex!TypeOK, Manifests, InstallRight, JobsRight, RestoreRight, Codex!MoveBack
  <2>5. owed' \subseteq 1 .. MaxEdits /\ edits' \in 0 .. MaxEdits /\ failures' \in 0 .. MaxFailures
    BY CodexAssumption DEF CodexInv, CodexTyped, Codex!TypeOK, Codex!MoveBack
  <2> QED
    BY <2>1, <2>2, <2>3, <2>4, <2>5
    DEF CodexTyped, Codex!TypeOK, Looking, Replacing, Deleting
<1>3. JobsRight'
  BY <1>1, EndsIn, Shapes, Written, CodexAssumption DEF CodexInv, JobsRight, Codex!MoveBack,
     Looking, Replacing, Deleting, Restores
<1>4. ManifestRight'
  BY <1>1, EndsIn, Shapes, Written, CodexAssumption DEF CodexInv, ManifestRight, Codex!MoveBack
<1>5. InstallRight'
  BY <1>1, EndsIn, Shapes, Written, CodexAssumption DEF CodexInv, InstallRight,
     Codex!MoveBack, Registers, NumberOf
<1>6. RestoreRight'
  BY <1>1, EndsIn, Shapes, Written, CodexAssumption DEF CodexInv, RestoreRight,
     Codex!MoveBack, Restores, Replacing, Deleting, NumberOf
<1>7. HeldRight'
  BY <1>1, EndsIn, Shapes, Written, CodexAssumption DEF CodexInv, HeldRight, Codex!MoveBack,
     Holding, Swapping, Codex!Mine
<1>8. OursRight'
  BY <1>1, EndsIn, Shapes, Written, CodexAssumption DEF CodexInv, OursRight, Codex!MoveBack,
     Registers, HeldRight, Holding, Replacing, Deleting
<1>9. InstallUndone'
  BY <1>1, EndsIn, Shapes, Written, CodexAssumption DEF CodexInv, InstallUndone,
     Codex!MoveBack, Looking, Registers, JobsRight, HeldRight, OursRight, Replacing,
     Deleting
<1>10. UndoUndone'
  BY <1>1, EndsIn, Shapes, Written, CodexAssumption DEF CodexInv, UndoUndone,
     Codex!MoveBack, Registers, HeldRight, JobsRight, Replacing, Deleting
<1>11. Codex!EditsKept'
  BY <1>1, Written, WhatIsSaved, EditsStay DEF CodexInv, HeldRight, Holding, Replacing,
     Deleting, Covered, NumberOf, Codex!TextOf, Codex!MoveBack
<1>12. Codex!FailureUndone'
  <2> SUFFICES ASSUME result' = "failed", configPc' = "idle", failures' <= 1, Registers(config')
               PROVE  FALSE
    BY DEF Codex!FailureUndone, Registers
  <2>1. job = "undo"
    BY <1>1, EndsIn DEF Codex!MoveBack
  <2>2. failures = 1 /\ failures' = failures
    BY <2>1, Shapes DEF CodexInv, JobsRight, Codex!MoveBack
  <2> QED
    BY <2>1, <2>2, Written DEF CodexInv, UndoUndone, Registers, HeldRight, Holding,
       Replacing, Deleting, Codex!MoveBack
<1> QED
  BY <1>2, <1>3, <1>4, <1>5, <1>6, <1>7, <1>8, <1>9, <1>10, <1>11, <1>12 DEF CodexInv

LEMMA AuditDisplacedKeeps == ASSUME CodexInv, Codex!AuditDisplaced PROVE CodexInv'
<1>1. configPc # "idle" /\ job # "none"
  BY DEF CodexInv, JobsRight, Codex!AuditDisplaced
<1> USE DEF Codex!Works, Codex!Fails, Codex!Goto, Codex!End, Codex!saved, Codex!editor,
        Codex!Hide
<1>2. CodexTyped'
  BY <1>1, EndsIn, Shapes, Written, CodexAssumption DEF CodexInv, CodexTyped,
     Codex!AuditDisplaced, Codex!TypeOK
<1>3. JobsRight'
  BY <1>1, EndsIn, Shapes, Written, CodexAssumption DEF CodexInv, JobsRight,
     Codex!AuditDisplaced, Looking, Replacing, Deleting, Restores
<1>4. ManifestRight'
  BY <1>1, EndsIn, Shapes, Written, CodexAssumption DEF CodexInv, ManifestRight,
     Codex!AuditDisplaced
<1>5. InstallRight'
  BY <1>1, EndsIn, Shapes, Written, CodexAssumption DEF CodexInv, InstallRight,
     Codex!AuditDisplaced, Registers, NumberOf
<1>6. RestoreRight'
  BY <1>1, EndsIn, Shapes, Written, CodexAssumption DEF CodexInv, RestoreRight,
     Codex!AuditDisplaced, Restores, Replacing, Deleting, NumberOf
<1>7. HeldRight'
  BY <1>1, EndsIn, Shapes, Written, CodexAssumption DEF CodexInv, HeldRight,
     Codex!AuditDisplaced, Holding, Swapping, Codex!Mine
<1>8. OursRight'
  BY <1>1, EndsIn, Shapes, Written, CodexAssumption DEF CodexInv, OursRight,
     Codex!AuditDisplaced, Registers, HeldRight, Holding, Replacing, Deleting
<1>9. InstallUndone'
  BY <1>1, EndsIn, Shapes, Written, CodexAssumption DEF CodexInv, InstallUndone,
     Codex!AuditDisplaced, Looking, Registers, JobsRight, HeldRight, OursRight, Replacing,
     Deleting
<1>10. UndoUndone'
  BY <1>1, EndsIn, Shapes, Written, CodexAssumption DEF CodexInv, UndoUndone,
     Codex!AuditDisplaced, Registers, HeldRight, JobsRight, Replacing, Deleting
<1>11. Codex!EditsKept'
  BY <1>1, Written, WhatIsSaved, EditsStay DEF CodexInv, HeldRight, Holding, Replacing,
     Deleting, Covered, NumberOf, Codex!TextOf, Codex!AuditDisplaced
<1>12. Codex!FailureUndone'
  <2> SUFFICES ASSUME result' = "failed", configPc' = "idle", failures' <= 1, Registers(config')
               PROVE  FALSE
    BY DEF Codex!FailureUndone, Registers
  <2>1. job = "undo"
    BY <1>1, EndsIn DEF Codex!AuditDisplaced
  <2>2. failures = 1 /\ failures' = failures
    BY <2>1, Shapes DEF CodexInv, JobsRight, Codex!AuditDisplaced
  <2> QED
    BY <2>1, <2>2, Written DEF CodexInv, UndoUndone, Registers, HeldRight, Holding,
       Replacing, Deleting, Codex!AuditDisplaced
<1> QED
  BY <1>2, <1>3, <1>4, <1>5, <1>6, <1>7, <1>8, <1>9, <1>10, <1>11, <1>12 DEF CodexInv

LEMMA ReplaceBackKeeps == ASSUME CodexInv, Codex!ReplaceBack PROVE CodexInv'
<1>1. configPc # "idle" /\ job # "none"
  BY DEF CodexInv, JobsRight, Codex!ReplaceBack, Codex!ReplaceFile
<1> USE DEF Codex!Works, Codex!Fails, Codex!Refused, Codex!Goto, Codex!End, Codex!saved,
        Codex!editor, Codex!Hide
<1>2. CodexTyped'
  BY <1>1, EndsIn, Shapes, Written, CodexAssumption DEF CodexInv, CodexTyped,
     Codex!ReplaceBack, Codex!ReplaceFile, Codex!TypeOK
<1>3. JobsRight'
  BY <1>1, EndsIn, Shapes, Written, CodexAssumption DEF CodexInv, JobsRight,
     Codex!ReplaceBack, Codex!ReplaceFile, Looking, Replacing, Deleting, Restores
<1>4. ManifestRight'
  BY <1>1, EndsIn, Shapes, Written, CodexAssumption DEF CodexInv, ManifestRight,
     Codex!ReplaceBack, Codex!ReplaceFile
<1>5. InstallRight'
  BY <1>1, EndsIn, Shapes, Written, CodexAssumption DEF CodexInv, InstallRight,
     Codex!ReplaceBack, Codex!ReplaceFile, Registers, NumberOf
<1>6. RestoreRight'
  BY <1>1, EndsIn, Shapes, Written, CodexAssumption DEF CodexInv, RestoreRight,
     Codex!ReplaceBack, Codex!ReplaceFile, Restores, Replacing, Deleting, NumberOf
<1>7. HeldRight'
  BY <1>1, EndsIn, Shapes, Written, CodexAssumption DEF CodexInv, HeldRight,
     Codex!ReplaceBack, Codex!ReplaceFile, Holding, Swapping, Codex!Mine
<1>8. OursRight'
  BY <1>1, EndsIn, Shapes, Written, CodexAssumption DEF CodexInv, OursRight,
     Codex!ReplaceBack, Codex!ReplaceFile, Registers, HeldRight, Holding, Replacing,
     Deleting
<1>9. InstallUndone'
  BY <1>1, EndsIn, Shapes, Written, CodexAssumption DEF CodexInv, InstallUndone,
     Codex!ReplaceBack, Codex!ReplaceFile, Looking, Registers, JobsRight, HeldRight,
     OursRight, Replacing, Deleting
<1>10. UndoUndone'
  BY <1>1, EndsIn, Shapes, Written, CodexAssumption DEF CodexInv, UndoUndone,
     Codex!ReplaceBack, Codex!ReplaceFile, Registers, HeldRight, JobsRight, Replacing,
     Deleting
<1>11. Codex!EditsKept'
  BY <1>1, Written, WhatIsSaved, EditsStay DEF CodexInv, HeldRight, Holding, Replacing,
     Deleting, Covered, NumberOf, Codex!TextOf, Codex!ReplaceBack, Codex!ReplaceFile
<1>12. Codex!FailureUndone'
  <2> SUFFICES ASSUME result' = "failed", configPc' = "idle", failures' <= 1, Registers(config')
               PROVE  FALSE
    BY DEF Codex!FailureUndone, Registers
  <2>1. job = "undo"
    BY <1>1, EndsIn DEF Codex!ReplaceBack, Codex!ReplaceFile
  <2>2. failures = 1 /\ failures' = failures
    BY <2>1, Shapes DEF CodexInv, JobsRight, Codex!ReplaceBack, Codex!ReplaceFile
  <2> QED
    BY <2>1, <2>2, Written DEF CodexInv, UndoUndone, Registers, HeldRight, Holding,
       Replacing, Deleting, Codex!ReplaceBack, Codex!ReplaceFile
<1> QED
  BY <1>2, <1>3, <1>4, <1>5, <1>6, <1>7, <1>8, <1>9, <1>10, <1>11, <1>12 DEF CodexInv

LEMMA OpenToDeleteKeeps == ASSUME CodexInv, Codex!OpenToDelete PROVE CodexInv'
<1>1. configPc # "idle" /\ job # "none"
  BY DEF CodexInv, JobsRight, Codex!OpenToDelete
<1> USE DEF Codex!Works, Codex!Fails, Codex!Refused, Codex!Goto, Codex!End, Codex!files,
        Codex!saved, Codex!editor
<1>2. CodexTyped'
  BY <1>1, EndsIn, Shapes, Written, CodexAssumption DEF CodexInv, CodexTyped,
     Codex!OpenToDelete, Codex!TypeOK
<1>3. JobsRight'
  BY <1>1, EndsIn, Shapes, Written, CodexAssumption DEF CodexInv, JobsRight,
     Codex!OpenToDelete, Looking, Replacing, Deleting, Restores
<1>4. ManifestRight'
  BY <1>1, EndsIn, Shapes, Written, CodexAssumption DEF CodexInv, ManifestRight, Codex!OpenToDelete
<1>5. InstallRight'
  BY <1>1, EndsIn, Shapes, Written, CodexAssumption DEF CodexInv, InstallRight,
     Codex!OpenToDelete, Registers, NumberOf
<1>6. RestoreRight'
  BY <1>1, EndsIn, Shapes, Written, CodexAssumption DEF CodexInv, RestoreRight,
     Codex!OpenToDelete, Restores, Replacing, Deleting, NumberOf
<1>7. HeldRight'
  BY <1>1, EndsIn, Shapes, Written, CodexAssumption DEF CodexInv, HeldRight,
     Codex!OpenToDelete, Holding, Swapping, Codex!Mine
<1>8. OursRight'
  BY <1>1, EndsIn, Shapes, Written, CodexAssumption DEF CodexInv, OursRight,
     Codex!OpenToDelete, Registers, HeldRight, Holding, Replacing, Deleting
<1>9. InstallUndone'
  BY <1>1, EndsIn, Shapes, Written, CodexAssumption DEF CodexInv, InstallUndone,
     Codex!OpenToDelete, Looking, Registers, JobsRight, HeldRight, OursRight, Replacing,
     Deleting
<1>10. UndoUndone'
  BY <1>1, EndsIn, Shapes, Written, CodexAssumption DEF CodexInv, UndoUndone,
     Codex!OpenToDelete, Registers, HeldRight, JobsRight, Replacing, Deleting
<1>11. Codex!EditsKept'
  BY <1>1, Written, WhatIsSaved, EditsStay DEF CodexInv, HeldRight, Holding, Replacing,
     Deleting, Covered, NumberOf, Codex!TextOf, Codex!OpenToDelete
<1>12. Codex!FailureUndone'
  <2> SUFFICES ASSUME result' = "failed", configPc' = "idle", failures' <= 1, Registers(config')
               PROVE  FALSE
    BY DEF Codex!FailureUndone, Registers
  <2>1. job = "undo"
    BY <1>1, EndsIn DEF Codex!OpenToDelete
  <2>2. failures = 1 /\ failures' = failures
    BY <2>1, Shapes DEF CodexInv, JobsRight, Codex!OpenToDelete
  <2> QED
    BY <2>1, <2>2, Written DEF CodexInv, UndoUndone, Registers, HeldRight, Holding,
       Replacing, Deleting, Codex!OpenToDelete
<1> QED
  BY <1>2, <1>3, <1>4, <1>5, <1>6, <1>7, <1>8, <1>9, <1>10, <1>11, <1>12 DEF CodexInv

LEMMA QuarantineKeeps == ASSUME CodexInv, Codex!Quarantine PROVE CodexInv'
<1>1. configPc # "idle" /\ job # "none"
  BY DEF CodexInv, JobsRight, Codex!Quarantine
<1> USE DEF Codex!Works, Codex!Fails, Codex!Refused, Codex!Goto, Codex!End, Codex!saved,
        Codex!editor
<1>2. CodexTyped'
  BY <1>1, EndsIn, Shapes, Written, CodexAssumption DEF CodexInv, CodexTyped,
     Codex!Quarantine, Codex!TypeOK
<1>3. JobsRight'
  BY <1>1, EndsIn, Shapes, Written, CodexAssumption DEF CodexInv, JobsRight,
     Codex!Quarantine, Looking, Replacing, Deleting, Restores
<1>4. ManifestRight'
  BY <1>1, EndsIn, Shapes, Written, CodexAssumption DEF CodexInv, ManifestRight, Codex!Quarantine
<1>5. InstallRight'
  BY <1>1, EndsIn, Shapes, Written, CodexAssumption DEF CodexInv, InstallRight,
     Codex!Quarantine, Registers, NumberOf
<1>6. RestoreRight'
  BY <1>1, EndsIn, Shapes, Written, CodexAssumption DEF CodexInv, RestoreRight,
     Codex!Quarantine, Restores, Replacing, Deleting, NumberOf
<1>7. HeldRight'
  BY <1>1, EndsIn, Shapes, Written, CodexAssumption DEF CodexInv, HeldRight,
     Codex!Quarantine, Holding, Swapping, Codex!Mine
<1>8. OursRight'
  BY <1>1, EndsIn, Shapes, Written, CodexAssumption DEF CodexInv, OursRight,
     Codex!Quarantine, Registers, HeldRight, Holding, Replacing, Deleting
<1>9. InstallUndone'
  BY <1>1, EndsIn, Shapes, Written, CodexAssumption DEF CodexInv, InstallUndone,
     Codex!Quarantine, Looking, Registers, JobsRight, HeldRight, OursRight, Replacing,
     Deleting
<1>10. UndoUndone'
  BY <1>1, EndsIn, Shapes, Written, CodexAssumption DEF CodexInv, UndoUndone,
     Codex!Quarantine, Registers, HeldRight, JobsRight, Replacing, Deleting
<1>11. Codex!EditsKept'
  BY <1>1, Written, WhatIsSaved, EditsStay DEF CodexInv, HeldRight, Holding, Replacing,
     Deleting, Covered, NumberOf, Codex!TextOf, Codex!Quarantine
<1>12. Codex!FailureUndone'
  <2> SUFFICES ASSUME result' = "failed", configPc' = "idle", failures' <= 1, Registers(config')
               PROVE  FALSE
    BY DEF Codex!FailureUndone, Registers
  <2>1. job = "undo"
    BY <1>1, EndsIn DEF Codex!Quarantine
  <2>2. failures = 1 /\ failures' = failures
    BY <2>1, Shapes DEF CodexInv, JobsRight, Codex!Quarantine
  <2> QED
    BY <2>1, <2>2, Written DEF CodexInv, UndoUndone, Registers, HeldRight, Holding,
       Replacing, Deleting, Codex!Quarantine
<1> QED
  BY <1>2, <1>3, <1>4, <1>5, <1>6, <1>7, <1>8, <1>9, <1>10, <1>11, <1>12 DEF CodexInv

LEMMA DisposeKeeps == ASSUME CodexInv, Codex!Dispose PROVE CodexInv'
<1>1. configPc # "idle" /\ job # "none"
  BY DEF CodexInv, JobsRight, Codex!Dispose
<1> USE DEF Codex!Works, Codex!Fails, Codex!Refused, Codex!Goto, Codex!End, Codex!saved,
        Codex!editor, Codex!Hide
<1>2. CodexTyped'
  BY <1>1, EndsIn, Shapes, Written, CodexAssumption DEF CodexInv, CodexTyped, Codex!Dispose,
     Codex!TypeOK
<1>3. JobsRight'
  BY <1>1, EndsIn, Shapes, Written, CodexAssumption DEF CodexInv, JobsRight, Codex!Dispose,
     Looking, Replacing, Deleting, Restores
<1>4. ManifestRight'
  BY <1>1, EndsIn, Shapes, Written, CodexAssumption DEF CodexInv, ManifestRight, Codex!Dispose
<1>5. InstallRight'
  BY <1>1, EndsIn, Shapes, Written, CodexAssumption DEF CodexInv, InstallRight,
     Codex!Dispose, Registers, NumberOf
<1>6. RestoreRight'
  BY <1>1, EndsIn, Shapes, Written, CodexAssumption DEF CodexInv, RestoreRight,
     Codex!Dispose, Restores, Replacing, Deleting, NumberOf
<1>7. HeldRight'
  BY <1>1, EndsIn, Shapes, Written, CodexAssumption DEF CodexInv, HeldRight, Codex!Dispose,
     Holding, Swapping, Codex!Mine
<1>8. OursRight'
  BY <1>1, EndsIn, Shapes, Written, CodexAssumption DEF CodexInv, OursRight, Codex!Dispose,
     Registers, HeldRight, Holding, Replacing, Deleting
<1>9. InstallUndone'
  BY <1>1, EndsIn, Shapes, Written, CodexAssumption DEF CodexInv, InstallUndone,
     Codex!Dispose, Looking, Registers, JobsRight, HeldRight, OursRight, Replacing, Deleting
<1>10. UndoUndone'
  BY <1>1, EndsIn, Shapes, Written, CodexAssumption DEF CodexInv, UndoUndone, Codex!Dispose,
     Registers, HeldRight, JobsRight, Replacing, Deleting
<1>11. Codex!EditsKept'
  BY <1>1, Written, WhatIsSaved, EditsStay DEF CodexInv, HeldRight, Holding, Replacing,
     Deleting, Covered, NumberOf, Codex!TextOf, Codex!Dispose
<1>12. Codex!FailureUndone'
  <2> SUFFICES ASSUME result' = "failed", configPc' = "idle", failures' <= 1, Registers(config')
               PROVE  FALSE
    BY DEF Codex!FailureUndone, Registers
  <2>1. job = "undo"
    BY <1>1, EndsIn DEF Codex!Dispose
  <2>2. failures = 1 /\ failures' = failures
    BY <2>1, Shapes DEF CodexInv, JobsRight, Codex!Dispose
  <2> QED
    BY <2>1, <2>2, Written DEF CodexInv, UndoUndone, Registers, HeldRight, Holding,
       Replacing, Deleting, Codex!Dispose
<1> QED
  BY <1>2, <1>3, <1>4, <1>5, <1>6, <1>7, <1>8, <1>9, <1>10, <1>11, <1>12 DEF CodexInv

LEMMA RollbackKeeps == ASSUME CodexInv, NEW force \in BOOLEAN, Codex!Rollback(force) PROVE CodexInv'
<1>1. CodexInv
  OBVIOUS
<1> USE DEF Codex!files, Codex!saved, Codex!editor
<1>2. CodexTyped'
  BY <1>1, EndsIn, Shapes, Written, CodexAssumption DEF CodexInv, CodexTyped,
     Codex!Rollback, Codex!TypeOK
<1>3. JobsRight'
  BY <1>1, EndsIn, Shapes, Written, CodexAssumption DEF CodexInv, JobsRight, Codex!Rollback,
     Looking, Replacing, Deleting, Restores
<1>4. ManifestRight'
  BY <1>1, EndsIn, Shapes, Written, CodexAssumption DEF CodexInv, ManifestRight, Codex!Rollback
<1>5. InstallRight'
  BY <1>1, EndsIn, Shapes, Written, CodexAssumption DEF CodexInv, InstallRight,
     Codex!Rollback, Registers, NumberOf
<1>6. RestoreRight'
  BY <1>1, EndsIn, Shapes, Written, CodexAssumption DEF CodexInv, RestoreRight,
     Codex!Rollback, Restores, Replacing, Deleting, NumberOf
<1>7. HeldRight'
  BY <1>1, EndsIn, Shapes, Written, CodexAssumption DEF CodexInv, HeldRight, Codex!Rollback,
     Holding, Swapping, Codex!Mine
<1>8. OursRight'
  BY <1>1, EndsIn, Shapes, Written, CodexAssumption DEF CodexInv, OursRight, Codex!Rollback,
     Registers, HeldRight, Holding, Replacing, Deleting
<1>9. InstallUndone'
  BY <1>1, EndsIn, Shapes, Written, CodexAssumption DEF CodexInv, InstallUndone,
     Codex!Rollback, Looking, Registers, JobsRight, HeldRight, OursRight, Replacing,
     Deleting
<1>10. UndoUndone'
  BY <1>1, EndsIn, Shapes, Written, CodexAssumption DEF CodexInv, UndoUndone,
     Codex!Rollback, Registers, HeldRight, JobsRight, Replacing, Deleting
<1>11. Codex!EditsKept'
  BY <1>1, Written, WhatIsSaved, EditsStay DEF CodexInv, HeldRight, Holding, Replacing,
     Deleting, Covered, NumberOf, Codex!TextOf, Codex!Rollback
<1>12. Codex!FailureUndone'
  BY <1>1, EndsIn, Shapes, Written, CodexAssumption DEF CodexInv, Codex!FailureUndone,
     Codex!Rollback, InstallUndone, UndoUndone, OursRight, Registers, Looking, JobsRight,
     Replacing
<1> QED
  BY <1>2, <1>3, <1>4, <1>5, <1>6, <1>7, <1>8, <1>9, <1>10, <1>11, <1>12 DEF CodexInv

LEMMA CodexStill == ASSUME CodexInv, UNCHANGED Codex!vars PROVE CodexInv'
  BY DEF Codex!vars, Codex!code, Codex!files, Codex!saved, Codex!editor, CodexInv,
     CodexTyped, Codex!TypeOK, JobsRight, ManifestRight,
         InstallRight, RestoreRight, HeldRight, OursRight, InstallUndone, UndoUndone, Codex!EditsKept,
         Codex!FailureUndone, Registers, NumberOf, Looking, Replacing, Deleting, Holding, Restores,
         Codex!Mine, Codex!OnDisk, Swapping

LEMMA CodexStep ==
  ASSUME CodexInv, [Codex!Next]_Codex!vars \/ [Codex!WindowsNext]_Codex!vars PROVE CodexInv'
  BY CodexStill, InstallKeeps, PrepareKeeps, SaveKeeps, RecheckKeeps, WriteKeeps, CommitNewKeeps,
     ExchangeKeeps, AuditKeeps, RecoverKeeps, ExchangeBackKeeps, ReauditKeeps, SyncKeeps,
     HandlerKeeps, RestoreKeeps, DeleteKeeps, InspectKeeps, KilledKeeps, EditKeeps,
     RemoveKeeps, WriteBesideKeeps, RenameNewKeeps, ReplaceKeeps, MoveBackKeeps, AuditDisplacedKeeps,
     ReplaceBackKeeps, OpenToDeleteKeeps, QuarantineKeeps, DisposeKeeps, RollbackKeeps DEF Codex!Next, Codex!WindowsNext

LEMMA CodexFollows ==
  CodexInv => Codex!TypeOK /\ Codex!EditsKept /\ Codex!RollbackPossible /\ Codex!FailureUndone
  BY DEF CodexInv, CodexTyped, ManifestRight, OursRight, Codex!RollbackPossible

LEMMA Counts ==
  ASSUME CodexInv
  PROVE  /\ edits \in Nat /\ failures \in Nat /\ (edits \in owed => edits # 0)
         /\ \A f \in {config, temp, base} : f # None => f.text.number \in Nat
         /\ manifest # None => manifest.original.number \in Nat /\ manifest.installed.number = manifest.original.number
<1>1. edits \in Nat /\ failures \in Nat /\ (edits \in owed => edits # 0)
  BY CodexAssumption DEF CodexInv, CodexTyped, Codex!TypeOK
<1>2. \A f \in {config, temp, base} : f # None => f.text.number \in Nat
  BY Shapes, CodexAssumption DEF CodexInv
<1>3. manifest # None => manifest.original.number \in Nat /\ manifest.installed.number = manifest.original.number
  BY CodexAssumption DEF CodexInv, CodexTyped, Manifests, Codex!Texts, ManifestRight, Codex!Ours
<1> QED
  BY <1>1, <1>2, <1>3

LEMMA Existed ==
  ASSUME CodexInv, configPc \in Swapping PROVE manifest # None /\ manifest.existed
<1>1. base # None /\ configPc \in Replacing
  BY DEF CodexInv, HeldRight, Swapping, Replacing
<1>2. job \in {"install", "undo", "rollback"}
  BY <1>1 DEF CodexInv, JobsRight, CodexTyped, Codex!TypeOK, Replacing
<1>3. CASE job = "install"
  <2>1. manifest = [existed |-> base # None, original |-> Codex!TextOf(base), installed |-> new]
    BY <1>1, <1>3 DEF CodexInv, InstallRight, Replacing
  <2>2. manifest.existed = (base # None) /\ manifest # None
    BY <1>1, <2>1, Written
  <2> QED
    BY <1>1, <2>2
<1>4. CASE Restores
  BY <1>1, <1>4, Written DEF CodexInv, RestoreRight
<1> QED
  BY <1>2, <1>3, <1>4 DEF Restores

LEMMA NewNumber ==
  ASSUME CodexInv, NumbersRight, configPc \in Replacing
  PROVE  Codex!Mine.text.number <= edits
<1>1. job \in {"install", "undo", "rollback"} /\ edits \in Nat
  BY Counts DEF CodexInv, JobsRight, CodexTyped, Codex!TypeOK, Replacing
<1>2. Codex!Mine.text = new
  BY Written
<1>3. CASE job = "install"
  <2>1. new = Codex!Ours(NumberOf(base))
    BY <1>3 DEF CodexInv, InstallRight, Replacing
  <2>2. NumberOf(base) <= edits
    BY <1>1 DEF NumberOf, Codex!TextOf, Codex!Text, NumbersRight
  <2> QED
    BY <1>2, <2>1, <2>2 DEF Codex!Ours
<1>4. CASE Restores
  <2>1. new = manifest.original /\ manifest # None
    BY <1>4 DEF CodexInv, RestoreRight, Replacing
  <2> QED
    BY <1>2, <2>1 DEF NumbersRight
<1> QED
  BY <1>1, <1>3, <1>4 DEF Restores

(* A step that fails is one more of failures.                              *)
LEMMA FewBefore ==
  ASSUME CodexInv, configPc # "idle", failures' >= failures, failures' \in Nat,
         Codex!Raise \/ Codex!Succeed \/ job' = job
  PROVE  Few' => Few
<1>1. job # "none"
  BY DEF CodexInv, JobsRight
<1> QED
  BY <1>1, EndsIn, Counts DEF Few

LEMMA FailuresGrow ==
  ASSUME CodexInv, Codex!Works \/ Codex!Fails
  PROVE  failures' \in Nat /\ failures' >= failures
  BY Counts DEF Codex!Works, Codex!Fails

LEMMA InstallKeepsName == ASSUME CodexInv, NameInv, Codex!Install PROVE NameInv'
<1>1. CodexInv
  OBVIOUS
<1> USE DEF Codex!files, Codex!saved, Codex!editor
<1>2. NumbersRight'
  BY <1>1, EndsIn, Counts, Written DEF NameInv, CodexInv, NumbersRight, Codex!Install
<1>3. NameStays'
  BY <1>1, EndsIn, Counts, Written DEF NameInv, CodexInv, NameStays, Codex!Install,
     Unforced, Few, Newest, JobsRight, Looking, Replacing, Deleting, Restores, HeldRight,
     Holding
<1>4. BaseIsOlder'
  BY <1>1, EndsIn, Counts, Written DEF NameInv, CodexInv, BaseIsOlder, Codex!Install,
     Unforced, Newest, Restores, Deleting, Looking, Replacing
<1> QED
  BY <1>2, <1>3, <1>4 DEF NameInv

LEMMA PrepareKeepsName == ASSUME CodexInv, NameInv, Codex!Prepare PROVE NameInv'
<1>1. configPc # "idle" /\ job # "none"
  BY DEF CodexInv, JobsRight, Codex!Prepare
<1> USE DEF Codex!Goto, Codex!End, Codex!files, Codex!saved, Codex!editor
<1>2. NumbersRight'
  BY <1>1, EndsIn, Counts, Written DEF NameInv, CodexInv, NumbersRight, Codex!Prepare
<1>3. NameStays'
  <2>1. job = "install" /\ failures \in Nat /\ (failures' >= failures /\ failures' \in Nat)
    BY <1>1, Counts DEF CodexInv, JobsRight, Restores, Replacing, Deleting, CodexTyped,
       Codex!TypeOK, Codex!Prepare
  <2>2. Few' => Few
    BY <2>1, <1>1 DEF Few, Codex!Prepare
  <2>3. /\ config' = config /\ UNCHANGED <<edits, owed, overruled, temp>>
        /\ manifest' = manifest \/ manifest = None
        /\ configPc \notin {"unreplaced", "inspect"}
    BY <2>1 DEF CodexInv, InstallRight, Codex!Prepare
  <2> QED
    BY <2>2, <2>3 DEF NameInv, NameStays, Unforced, Newest
<1>4. BaseIsOlder'
  BY <1>1, EndsIn, Counts, Written DEF NameInv, CodexInv, BaseIsOlder, Codex!Prepare,
     Unforced, Newest, Restores, Deleting, Looking, Replacing
<1> QED
  BY <1>2, <1>3, <1>4 DEF NameInv

LEMMA SaveKeepsName == ASSUME CodexInv, NameInv, Codex!Save PROVE NameInv'
<1>1. configPc # "idle" /\ job # "none"
  BY DEF CodexInv, JobsRight, Codex!Save
<1> USE DEF Codex!Works, Codex!Fails, Codex!Goto, Codex!End, Codex!files, Codex!saved,
        Codex!editor
<1>2. NumbersRight'
  <2>1. job = "install"
    BY <1>1 DEF CodexInv, JobsRight, Restores, Replacing, Deleting, CodexTyped,
       Codex!TypeOK, Codex!Save
  <2>2. /\ new = Codex!Ours(NumberOf(base)) /\ manifest = None /\ ~Registers(base)
        /\ backup # None => backup = Codex!TextOf(base)
    BY <2>1 DEF CodexInv, InstallRight, Codex!Save
  <2>3. new \in Codex!Texts /\ Codex!TextOf(base) \in Codex!Texts /\ ~Codex!TextOf(base).ours
    BY <2>2, Shapes DEF CodexInv, NumberOf, Registers, Codex!TextOf, Codex!Text
  <2> DEFINE m == [existed |-> base # None, original |-> Codex!TextOf(base), installed |-> new]
  <2>4. /\ m \in Manifests /\ m # None /\ (m.existed <=> base # None)
        /\ m.original = Codex!TextOf(base) /\ m.installed = new
    <3>1. (base # None) \in BOOLEAN
      OBVIOUS
    <3>2. m \in Manifests
      BY <2>3, <3>1 DEF Manifests
    <3> QED
      BY <3>2, CodexAssumption DEF Manifests
  <2>5. \/ /\ base # None /\ backup' = Codex!TextOf(base) /\ manifest' = manifest
        \/ /\ base = None \/ backup # None
           /\ backup' = backup /\ manifest' = m
        \/ backup' = backup /\ manifest' = manifest
    BY DEF Codex!Save
  <2> HIDE DEF m
  <2>6. NumberOf(base) <= edits /\ UNCHANGED <<config, base, temp, owed, edits>>
    BY Counts DEF NameInv, NumbersRight, NumberOf, Codex!TextOf, Codex!Text, Codex!Save
  <2> QED
    BY <2>2, <2>4, <2>5, <2>6 DEF NameInv, NumbersRight, NumberOf
<1>3. NameStays'
  <2>1. job = "install" /\ failures \in Nat /\ (failures' >= failures /\ failures' \in Nat)
    BY <1>1, Counts DEF CodexInv, JobsRight, Restores, Replacing, Deleting, CodexTyped,
       Codex!TypeOK, Codex!Save
  <2>2. Few' => Few
    BY <2>1, <1>1 DEF Few, Codex!Save
  <2>3. /\ config' = config /\ UNCHANGED <<edits, owed, overruled, temp>>
        /\ manifest' = manifest \/ manifest = None
        /\ configPc \notin {"unreplaced", "inspect"}
    BY <2>1 DEF CodexInv, InstallRight, Codex!Save
  <2> QED
    BY <2>2, <2>3 DEF NameInv, NameStays, Unforced, Newest
<1>4. BaseIsOlder'
  BY <1>1, EndsIn, Counts, Written DEF NameInv, CodexInv, BaseIsOlder, Codex!Save, Unforced,
     Newest, Restores, Deleting, Looking, Replacing
<1> QED
  BY <1>2, <1>3, <1>4 DEF NameInv

LEMMA RecheckKeepsName == ASSUME CodexInv, NameInv, Codex!Recheck PROVE NameInv'
<1>1. configPc # "idle" /\ job # "none"
  BY DEF CodexInv, JobsRight, Codex!Recheck
<1> USE DEF Codex!Goto, Codex!End, Codex!files, Codex!saved, Codex!editor
<1>2. NumbersRight'
  BY <1>1, EndsIn, Counts, Written DEF NameInv, CodexInv, NumbersRight, Codex!Recheck
<1>3. NameStays'
  <2>1. job = "install" /\ failures \in Nat /\ (failures' >= failures /\ failures' \in Nat)
    BY <1>1, Counts DEF CodexInv, JobsRight, Restores, Replacing, Deleting, CodexTyped,
       Codex!TypeOK, Codex!Recheck
  <2>2. Few' => Few
    BY <2>1, <1>1 DEF Few, Codex!Recheck
  <2>3. /\ config' = config /\ UNCHANGED <<edits, owed, overruled, temp>>
        /\ manifest' = manifest \/ manifest = None
        /\ configPc \notin {"unreplaced", "inspect"}
    BY <2>1 DEF CodexInv, InstallRight, Codex!Recheck
  <2> QED
    BY <2>2, <2>3 DEF NameInv, NameStays, Unforced, Newest
<1>4. BaseIsOlder'
  BY <1>1, EndsIn, Counts, Written DEF NameInv, CodexInv, BaseIsOlder, Codex!Recheck,
     Unforced, Newest, Restores, Deleting, Looking, Replacing
<1> QED
  BY <1>2, <1>3, <1>4 DEF NameInv

LEMMA WriteBesideKeepsName == ASSUME CodexInv, NameInv, Codex!WriteBeside PROVE NameInv'
<1>1. configPc # "idle" /\ job # "none"
  BY DEF CodexInv, JobsRight, Codex!WriteBeside
<1> USE DEF Codex!Works, Codex!Fails, Codex!Refused, Codex!Goto, Codex!End, Codex!saved,
        Codex!editor
<1>2. NumbersRight'
  <2>1. /\ config' \in {config, temp, None} /\ temp' \in {temp, config, None} \cup {t \in {Codex!Mine} : configPc \in Replacing}
        /\ UNCHANGED <<base, owed, edits, manifest>>
    BY DEF Replacing, Codex!WriteBeside
  <2>2. configPc \in Replacing => Codex!Mine.text.number <= edits
    BY NewNumber DEF NameInv
  <2> QED
    BY <2>1, <2>2, Counts DEF NameInv, NumbersRight
<1>3. NameStays'
  BY <1>1, EndsIn, Counts, Written DEF NameInv, CodexInv, NameStays, Codex!WriteBeside,
     Unforced, Few, Newest, JobsRight, Looking, Replacing, Deleting, Restores, HeldRight,
     Holding
<1>4. BaseIsOlder'
  BY <1>1, EndsIn, Counts, Written DEF NameInv, CodexInv, BaseIsOlder, Codex!WriteBeside,
     Unforced, Newest, Restores, Deleting, Looking, Replacing
<1> QED
  BY <1>2, <1>3, <1>4 DEF NameInv

LEMMA RenameNewKeepsName == ASSUME CodexInv, NameInv, Codex!RenameNew PROVE NameInv'
<1>1. configPc # "idle" /\ job # "none"
  BY DEF CodexInv, JobsRight, Codex!RenameNew
<1> USE DEF Codex!Works, Codex!Fails, Codex!Refused, Codex!Goto, Codex!End, Codex!saved,
        Codex!editor
<1>2. NumbersRight'
  <2>1. /\ config' \in {config, temp, None} /\ temp' \in {temp, config, None} \cup {t \in {Codex!Mine} : configPc \in Replacing}
        /\ UNCHANGED <<base, owed, edits, manifest>>
    BY DEF Replacing, Codex!RenameNew
  <2>2. configPc \in Replacing => Codex!Mine.text.number <= edits
    BY NewNumber DEF NameInv
  <2> QED
    BY <2>1, <2>2, Counts DEF NameInv, NumbersRight
<1>3. NameStays'
  BY <1>1, EndsIn, Counts, Written DEF NameInv, CodexInv, NameStays, Codex!RenameNew,
     Unforced, Few, Newest, JobsRight, Looking, Replacing, Deleting, Restores, HeldRight,
     Holding
<1>4. BaseIsOlder'
  BY <1>1, EndsIn, Counts, Written DEF NameInv, CodexInv, BaseIsOlder, Codex!RenameNew,
     Unforced, Newest, Restores, Deleting, Looking, Replacing
<1> QED
  BY <1>2, <1>3, <1>4 DEF NameInv

LEMMA ReplaceKeepsName == ASSUME CodexInv, NameInv, Codex!Replace PROVE NameInv'
<1>1. configPc # "idle" /\ job # "none"
  BY DEF CodexInv, JobsRight, Codex!Replace, Codex!ReplaceFile
<1> USE DEF Codex!Works, Codex!Fails, Codex!Refused, Codex!Goto, Codex!End, Codex!saved,
        Codex!editor, Codex!Hide
<1>2. NumbersRight'
  <2>1. /\ config' \in {config, temp, None} /\ temp' \in {temp, config, None} \cup {t \in {Codex!Mine} : configPc \in Replacing}
        /\ UNCHANGED <<base, owed, edits, manifest>>
    BY DEF Replacing, Codex!Replace, Codex!ReplaceFile
  <2>2. configPc \in Replacing => Codex!Mine.text.number <= edits
    BY NewNumber DEF NameInv
  <2> QED
    BY <2>1, <2>2, Counts DEF NameInv, NumbersRight
<1>3. NameStays'
  <2>1. /\ manifest # None /\ manifest.existed /\ manifest' = manifest
        /\ configPc \notin {"unreplaced", "inspect"} /\ temp # None
    BY Existed DEF CodexInv, HeldRight, Holding, Swapping, Codex!Replace, Codex!ReplaceFile
  <2>2. Few' => Few
    BY <1>1, FewBefore, FailuresGrow DEF Codex!Replace, Codex!ReplaceFile
  <2>3. UNCHANGED <<edits, owed, overruled>> /\ (config' = config \/ config' = temp \/ configPc' = "unreplaced")
    BY DEF Codex!Replace, Codex!ReplaceFile
  <2> QED
    BY <2>1, <2>2, <2>3 DEF NameInv, NameStays, Unforced
<1>4. BaseIsOlder'
  BY <1>1, EndsIn, Counts, Written DEF NameInv, CodexInv, BaseIsOlder, Codex!Replace,
     Codex!ReplaceFile, Unforced, Newest, Restores, Deleting, Looking, Replacing
<1> QED
  BY <1>2, <1>3, <1>4 DEF NameInv

LEMMA MoveBackKeepsName == ASSUME CodexInv, NameInv, Codex!MoveBack PROVE NameInv'
<1>1. configPc # "idle" /\ job # "none"
  BY DEF CodexInv, JobsRight, Codex!MoveBack
<1> USE DEF Codex!Works, Codex!Fails, Codex!Refused, Codex!Goto, Codex!End, Codex!saved,
        Codex!editor, Codex!Hide
<1>2. NumbersRight'
  <2>1. /\ config' \in {config, temp, None} /\ temp' \in {temp, config, None} \cup {t \in {Codex!Mine} : configPc \in Replacing}
        /\ UNCHANGED <<base, owed, edits, manifest>>
    BY DEF Replacing, Codex!MoveBack
  <2>2. configPc \in Replacing => Codex!Mine.text.number <= edits
    BY NewNumber DEF NameInv
  <2> QED
    BY <2>1, <2>2, Counts DEF NameInv, NumbersRight
<1>3. NameStays'
  <2>1. /\ manifest # None /\ manifest.existed /\ manifest' = manifest /\ temp # None
    BY Existed DEF CodexInv, HeldRight, Holding, Swapping, Codex!MoveBack
  <2>2. config' # None \/ (failures' = failures + 1 /\ Codex!Raise)
    BY <2>1 DEF Codex!MoveBack
  <2>3. ~Few' \/ config' # None
    <3> SUFFICES ASSUME failures' = failures + 1, Codex!Raise PROVE ~Few'
      BY <2>2
    <3>1. \/ job = "install" /\ job' = job /\ failures >= 1
          \/ job = "undo" /\ job' = "none" /\ failures >= 1
          \/ job = "rollback" /\ job' = "none" /\ result' = "unrestored"
      BY <1>1, EndsIn DEF CodexInv, JobsRight, InstallUndone, Codex!MoveBack
    <3> QED
      BY <3>1, Counts DEF Few
  <2> QED
    BY <2>1, <2>3 DEF NameStays, Unforced
<1>4. BaseIsOlder'
  BY <1>1, EndsIn, Counts, Written DEF NameInv, CodexInv, BaseIsOlder, Codex!MoveBack,
     Unforced, Newest, Restores, Deleting, Looking, Replacing
<1> QED
  BY <1>2, <1>3, <1>4 DEF NameInv

LEMMA AuditDisplacedKeepsName == ASSUME CodexInv, NameInv, Codex!AuditDisplaced PROVE NameInv'
<1>1. configPc # "idle" /\ job # "none"
  BY DEF CodexInv, JobsRight, Codex!AuditDisplaced
<1> USE DEF Codex!Works, Codex!Fails, Codex!Goto, Codex!End, Codex!saved, Codex!editor,
        Codex!Hide
<1>2. NumbersRight'
  BY <1>1, EndsIn, Counts, Written DEF NameInv, CodexInv, NumbersRight, Codex!AuditDisplaced
<1>3. NameStays'
  BY <1>1, EndsIn, Counts, Written DEF NameInv, CodexInv, NameStays, Codex!AuditDisplaced,
     Unforced, Few, Newest, JobsRight, Looking, Replacing, Deleting, Restores, HeldRight,
     Holding
<1>4. BaseIsOlder'
  BY <1>1, EndsIn, Counts, Written DEF NameInv, CodexInv, BaseIsOlder, Codex!AuditDisplaced,
     Unforced, Newest, Restores, Deleting, Looking, Replacing
<1> QED
  BY <1>2, <1>3, <1>4 DEF NameInv

LEMMA RecoverKeepsName == ASSUME CodexInv, NameInv, Codex!Recover PROVE NameInv'
<1>1. configPc # "idle" /\ job # "none"
  BY DEF CodexInv, JobsRight, Codex!Recover
<1> USE DEF Codex!Works, Codex!Goto, Codex!End, Codex!saved, Codex!editor, Codex!Preserved
<1>2. NumbersRight'
  BY <1>1, EndsIn, Counts, Written DEF NameInv, CodexInv, NumbersRight, Codex!Recover
<1>3. NameStays'
  BY <1>1, EndsIn, Counts, Written DEF NameInv, CodexInv, NameStays, Codex!Recover,
     Unforced, Few, Newest, JobsRight, Looking, Replacing, Deleting, Restores, HeldRight,
     Holding
<1>4. BaseIsOlder'
  BY <1>1, EndsIn, Counts, Written DEF NameInv, CodexInv, BaseIsOlder, Codex!Recover,
     Unforced, Newest, Restores, Deleting, Looking, Replacing
<1> QED
  BY <1>2, <1>3, <1>4 DEF NameInv

LEMMA ReplaceBackKeepsName == ASSUME CodexInv, NameInv, Codex!ReplaceBack PROVE NameInv'
<1>1. configPc # "idle" /\ job # "none"
  BY DEF CodexInv, JobsRight, Codex!ReplaceBack, Codex!ReplaceFile
<1> USE DEF Codex!Works, Codex!Fails, Codex!Refused, Codex!Goto, Codex!End, Codex!saved,
        Codex!editor, Codex!Hide
<1>2. NumbersRight'
  <2>1. /\ config' \in {config, temp, None} /\ temp' \in {temp, config, None} \cup {t \in {Codex!Mine} : configPc \in Replacing}
        /\ UNCHANGED <<base, owed, edits, manifest>>
    BY DEF Replacing, Codex!ReplaceBack, Codex!ReplaceFile
  <2>2. configPc \in Replacing => Codex!Mine.text.number <= edits
    BY NewNumber DEF NameInv
  <2> QED
    BY <2>1, <2>2, Counts DEF NameInv, NumbersRight
<1>3. NameStays'
  <2>1. /\ manifest # None /\ manifest.existed /\ manifest' = manifest
        /\ configPc \notin {"unreplaced", "inspect"} /\ temp # None
    BY Existed DEF CodexInv, HeldRight, Holding, Swapping, Codex!ReplaceBack, Codex!ReplaceFile
  <2>2. Few' => Few
    BY <1>1, FewBefore, FailuresGrow DEF Codex!ReplaceBack, Codex!ReplaceFile
  <2>3. UNCHANGED <<edits, owed, overruled>> /\ (config' = config \/ config' = temp \/ configPc' = "unreplaced")
    BY DEF Codex!ReplaceBack, Codex!ReplaceFile
  <2> QED
    BY <2>1, <2>2, <2>3 DEF NameInv, NameStays, Unforced
<1>4. BaseIsOlder'
  BY <1>1, EndsIn, Counts, Written DEF NameInv, CodexInv, BaseIsOlder, Codex!ReplaceBack,
     Codex!ReplaceFile, Unforced, Newest, Restores, Deleting, Looking, Replacing
<1> QED
  BY <1>2, <1>3, <1>4 DEF NameInv

LEMMA ReauditKeepsName == ASSUME CodexInv, NameInv, Codex!Reaudit PROVE NameInv'
<1>1. configPc # "idle" /\ job # "none"
  BY DEF CodexInv, JobsRight, Codex!Reaudit
<1> USE DEF Codex!Works, Codex!Fails, Codex!Refused, Codex!Goto, Codex!End, Codex!saved,
        Codex!editor, Codex!Preserved
<1>2. NumbersRight'
  BY <1>1, EndsIn, Counts, Written DEF NameInv, CodexInv, NumbersRight, Codex!Reaudit
<1>3. NameStays'
  BY <1>1, EndsIn, Counts, Written DEF NameInv, CodexInv, NameStays, Codex!Reaudit,
     Unforced, Few, Newest, JobsRight, Looking, Replacing, Deleting, Restores, HeldRight,
     Holding
<1>4. BaseIsOlder'
  BY <1>1, EndsIn, Counts, Written DEF NameInv, CodexInv, BaseIsOlder, Codex!Reaudit,
     Unforced, Newest, Restores, Deleting, Looking, Replacing
<1> QED
  BY <1>2, <1>3, <1>4 DEF NameInv

LEMMA OpenToDeleteKeepsName == ASSUME CodexInv, NameInv, Codex!OpenToDelete PROVE NameInv'
<1>1. configPc # "idle" /\ job # "none"
  BY DEF CodexInv, JobsRight, Codex!OpenToDelete
<1> USE DEF Codex!Works, Codex!Fails, Codex!Refused, Codex!Goto, Codex!End, Codex!files,
        Codex!saved, Codex!editor
<1>2. NumbersRight'
  BY <1>1, EndsIn, Counts, Written DEF NameInv, CodexInv, NumbersRight, Codex!OpenToDelete
<1>3. NameStays'
  BY <1>1, EndsIn, Counts, Written DEF NameInv, CodexInv, NameStays, Codex!OpenToDelete,
     Unforced, Few, Newest, JobsRight, Looking, Replacing, Deleting, Restores, HeldRight,
     Holding
<1>4. BaseIsOlder'
  BY <1>1, EndsIn, Counts, Written DEF NameInv, CodexInv, BaseIsOlder, Codex!OpenToDelete,
     Unforced, Newest, Restores, Deleting, Looking, Replacing
<1> QED
  BY <1>2, <1>3, <1>4 DEF NameInv

LEMMA QuarantineKeepsName == ASSUME CodexInv, NameInv, Codex!Quarantine PROVE NameInv'
<1>1. configPc # "idle" /\ job # "none"
  BY DEF CodexInv, JobsRight, Codex!Quarantine
<1> USE DEF Codex!Works, Codex!Fails, Codex!Refused, Codex!Goto, Codex!End, Codex!saved,
        Codex!editor
<1>2. NumbersRight'
  <2>1. /\ config' \in {config, temp, None} /\ temp' \in {temp, config, None} \cup {t \in {Codex!Mine} : configPc \in Replacing}
        /\ UNCHANGED <<base, owed, edits, manifest>>
    BY DEF Replacing, Codex!Quarantine
  <2>2. configPc \in Replacing => Codex!Mine.text.number <= edits
    BY NewNumber DEF NameInv
  <2> QED
    BY <2>1, <2>2, Counts DEF NameInv, NumbersRight
<1>3. NameStays'
  BY <1>1, EndsIn, Counts, Written DEF NameInv, CodexInv, NameStays, Codex!Quarantine,
     Unforced, Few, Newest, JobsRight, Looking, Replacing, Deleting, Restores, HeldRight,
     Holding
<1>4. BaseIsOlder'
  BY <1>1, EndsIn, Counts, Written DEF NameInv, CodexInv, BaseIsOlder, Codex!Quarantine,
     Unforced, Newest, Restores, Deleting, Looking, Replacing
<1> QED
  BY <1>2, <1>3, <1>4 DEF NameInv

LEMMA DisposeKeepsName == ASSUME CodexInv, NameInv, Codex!Dispose PROVE NameInv'
<1>1. configPc # "idle" /\ job # "none"
  BY DEF CodexInv, JobsRight, Codex!Dispose
<1> USE DEF Codex!Works, Codex!Fails, Codex!Refused, Codex!Goto, Codex!End, Codex!saved,
        Codex!editor, Codex!Hide
<1>2. NumbersRight'
  <2>1. /\ config' \in {config, temp, None} /\ temp' \in {temp, config, None} \cup {t \in {Codex!Mine} : configPc \in Replacing}
        /\ UNCHANGED <<base, owed, edits, manifest>>
    BY DEF Replacing, Codex!Dispose
  <2>2. configPc \in Replacing => Codex!Mine.text.number <= edits
    BY NewNumber DEF NameInv
  <2> QED
    BY <2>1, <2>2, Counts DEF NameInv, NumbersRight
<1>3. NameStays'
  <2>1. /\ manifest # None /\ ~manifest.existed /\ manifest' = manifest /\ Restores /\ base # None /\ temp # None
        /\ UNCHANGED <<edits, owed, overruled>> /\ temp' = None
    BY Written DEF CodexInv, RestoreRight, HeldRight, Holding, JobsRight, Restores,
       Replacing, Looking, Deleting, CodexTyped, Codex!TypeOK, Codex!Dispose
  <2> SUFFICES ASSUME Unforced', Few' PROVE Newest(config)'
    BY DEF NameStays, Newest
  <2>2. Few /\ Unforced
    BY <1>1, <2>1, FewBefore, FailuresGrow DEF Unforced, Codex!Dispose
  <2>3. Newest(config) \/ (config = None /\ Newest(temp))
    BY <2>1, <2>2 DEF NameInv, NameStays, Codex!Dispose
  <2>4. ~Newest(base)
    BY <2>1, <2>2 DEF NameInv, BaseIsOlder, Deleting, Codex!Dispose
  <2>5. failures' = failures + 1 => FALSE
    BY <2>1, Counts, EndsIn, <1>1 DEF Few, Restores, CodexInv, JobsRight, Codex!Dispose
  <2> QED
    BY <2>1, <2>3, <2>4, <2>5 DEF Newest, Codex!Dispose
<1>4. BaseIsOlder'
  BY <1>1, EndsIn, Counts, Written DEF NameInv, CodexInv, BaseIsOlder, Codex!Dispose,
     Unforced, Newest, Restores, Deleting, Looking, Replacing
<1> QED
  BY <1>2, <1>3, <1>4 DEF NameInv

LEMMA HandlerKeepsName == ASSUME CodexInv, NameInv, Codex!Handler PROVE NameInv'
<1>1. configPc # "idle" /\ job # "none"
  BY DEF CodexInv, JobsRight, Codex!Handler
<1> USE DEF Codex!End, Codex!files, Codex!saved, Codex!editor
<1>2. NumbersRight'
  BY <1>1, EndsIn, Counts, Written DEF NameInv, CodexInv, NumbersRight, Codex!Handler
<1>3. NameStays'
  <2>1. job = "install" /\ failures \in Nat /\ (failures' >= failures /\ failures' \in Nat)
    BY <1>1, Counts DEF CodexInv, JobsRight, Restores, Replacing, Deleting, CodexTyped,
       Codex!TypeOK, Codex!Handler
  <2>2. Few' => Few
    BY <2>1, <1>1 DEF Few, Codex!Handler
  <2>3. /\ config' = config /\ UNCHANGED <<edits, owed, overruled, temp>>
        /\ manifest' = manifest \/ manifest = None
        /\ configPc \notin {"unreplaced", "inspect"}
    BY <2>1 DEF CodexInv, InstallRight, Codex!Handler
  <2> QED
    BY <2>2, <2>3 DEF NameInv, NameStays, Unforced, Newest
<1>4. BaseIsOlder'
  BY <1>1, EndsIn, Counts, Written DEF NameInv, CodexInv, BaseIsOlder, Codex!Handler,
     Unforced, Newest, Restores, Deleting, Looking, Replacing
<1> QED
  BY <1>2, <1>3, <1>4 DEF NameInv

LEMMA RollbackKeepsName ==
  ASSUME CodexInv, NameInv, NEW force \in BOOLEAN, Codex!Rollback(force)
  PROVE NameInv'
<1>1. CodexInv
  OBVIOUS
<1> USE DEF Codex!files, Codex!saved, Codex!editor
<1>2. NumbersRight'
  BY <1>1, EndsIn, Counts, Written DEF NameInv, CodexInv, NumbersRight, Codex!Rollback
<1>3. NameStays'
  BY <1>1, EndsIn, Counts, Written DEF NameInv, CodexInv, NameStays, Codex!Rollback,
     Unforced, Few, Newest, JobsRight, Looking, Replacing, Deleting, Restores, HeldRight,
     Holding
<1>4. BaseIsOlder'
  BY <1>1, EndsIn, Counts, Written DEF NameInv, CodexInv, BaseIsOlder, Codex!Rollback,
     Unforced, Newest, Restores, Deleting, Looking, Replacing
<1> QED
  BY <1>2, <1>3, <1>4 DEF NameInv

LEMMA RestoreKeepsName == ASSUME CodexInv, NameInv, Codex!Restore PROVE NameInv'
<1>1. configPc # "idle" /\ job # "none"
  BY DEF CodexInv, JobsRight, Codex!Restore, Codex!Replaceable
<1> USE DEF Codex!Goto, Codex!End, Codex!files, Codex!saved, Codex!editor
<1>2. NumbersRight'
  BY <1>1, EndsIn, Counts, Written DEF NameInv, CodexInv, NumbersRight, Codex!Restore,
     Codex!Replaceable
<1>3. NameStays'
  BY <1>1, EndsIn, Counts, Written DEF NameInv, CodexInv, NameStays, Codex!Restore,
     Codex!Replaceable, Unforced, Few, Newest, JobsRight, Looking, Replacing, Deleting,
     Restores, HeldRight, Holding
<1>4. BaseIsOlder'
  <2> SUFFICES ASSUME Restores', configPc' \in Deleting, Unforced' PROVE ~Newest(base)'
    BY DEF BaseIsOlder
  <2>1. /\ base' = config /\ edits' = edits /\ owed' = owed /\ manifest # None /\ ~manifest.existed
        /\ job' = job /\ Restores
        /\ IF forced THEN overruled' = overruled \cup {<<job, NumberOf(config)>>}
           ELSE Codex!TextOf(config) = manifest.installed
    BY DEF CodexInv, RestoreRight, Restores, Deleting, NumberOf, JobsRight, Codex!Restore,
       Codex!Replaceable
  <2>2. NumberOf(config) # edits
    BY <2>1, Counts DEF Unforced, Restores, CodexInv, ManifestRight, NumberOf
  <2> QED
    BY <2>1, <2>2 DEF Newest, NumberOf, Codex!TextOf
<1> QED
  BY <1>2, <1>3, <1>4 DEF NameInv

LEMMA KilledKeepsName == ASSUME CodexInv, NameInv, Codex!Killed PROVE NameInv'
<1>1. configPc # "idle" /\ job # "none"
  BY DEF CodexInv, JobsRight, Codex!Killed
<1> USE DEF Codex!Fails, Codex!End, Codex!saved, Codex!editor
<1>2. NumbersRight'
  BY <1>1, EndsIn, Counts, Written DEF NameInv, CodexInv, NumbersRight, Codex!Killed
<1>3. NameStays'
  BY <1>1, EndsIn, Counts, Written DEF NameInv, CodexInv, NameStays, Codex!Killed, Unforced,
     Few, Newest, JobsRight, Looking, Replacing, Deleting, Restores, HeldRight, Holding
<1>4. BaseIsOlder'
  BY <1>1, EndsIn, Counts, Written DEF NameInv, CodexInv, BaseIsOlder, Codex!Killed,
     Unforced, Newest, Restores, Deleting, Looking, Replacing
<1> QED
  BY <1>2, <1>3, <1>4 DEF NameInv

LEMMA EditKeepsName == ASSUME CodexInv, NameInv, Codex!Edit PROVE NameInv'
<1>1. CodexInv
  OBVIOUS
<1> USE DEF Codex!saved, Codex!editor, Codex!code
<1>2. NumbersRight'
  <2>1. /\ config' = Codex!File(Codex!Text(edits + 1), "editor") /\ edits' = edits + 1 /\ edits < MaxEdits
        /\ owed' = (owed \ {NumberOf(config)}) \cup {edits + 1}
        /\ UNCHANGED <<job, configPc, base, new, forced, result, temp, kept, backup, manifest, overruled, failures>>
    BY DEF NumberOf, Codex!Edit, Codex!Forget
  <2>2. /\ config' \in Codex!AnyFile /\ config' # None /\ ~Registers(config)' /\ config'.by = "editor"
        /\ edits + 1 \in 1 .. MaxEdits /\ edits + 1 \in 0 .. MaxEdits
        /\ config'.text.number = edits + 1
    BY <2>1, NewText DEF Registers
  <2>3. \A n \in owed' : n <= edits'
    <3>1. \A n \in owed : n \in Nat /\ n <= edits /\ edits \in Nat
      BY Counts, CodexAssumption DEF NameInv, NumbersRight, CodexInv, CodexTyped, Codex!TypeOK
    <3> QED
      BY <2>1, <3>1
  <2>4. \A f \in {config', base', temp'} : f # None => f.text.number <= edits'
    BY <2>1, <2>2, Counts DEF NameInv, NumbersRight
  <2>5. manifest' # None => manifest'.original.number <= edits'
    BY <2>1, Counts DEF NameInv, NumbersRight
  <2> QED
    BY <2>3, <2>4, <2>5 DEF NumbersRight
<1>3. NameStays'
  <2>1. /\ config' = Codex!File(Codex!Text(edits + 1), "editor") /\ edits' = edits + 1 /\ edits < MaxEdits
        /\ owed' = (owed \ {NumberOf(config)}) \cup {edits + 1}
        /\ UNCHANGED <<job, configPc, base, new, forced, result, temp, kept, backup, manifest, overruled, failures>>
    BY DEF NumberOf, Codex!Edit, Codex!Forget
  <2>2. /\ config' \in Codex!AnyFile /\ config' # None /\ ~Registers(config)' /\ config'.by = "editor"
        /\ edits + 1 \in 1 .. MaxEdits /\ edits + 1 \in 0 .. MaxEdits
        /\ config'.text.number = edits + 1
    BY <2>1, NewText DEF Registers
  <2> QED
    BY <2>1, <2>2 DEF NameStays, Newest
<1>4. BaseIsOlder'
  <2>1. /\ config' = Codex!File(Codex!Text(edits + 1), "editor") /\ edits' = edits + 1 /\ edits < MaxEdits
        /\ owed' = (owed \ {NumberOf(config)}) \cup {edits + 1}
        /\ UNCHANGED <<job, configPc, base, new, forced, result, temp, kept, backup, manifest, overruled, failures>>
    BY DEF NumberOf, Codex!Edit, Codex!Forget
  <2>2. /\ config' \in Codex!AnyFile /\ config' # None /\ ~Registers(config)' /\ config'.by = "editor"
        /\ edits + 1 \in 1 .. MaxEdits /\ edits + 1 \in 0 .. MaxEdits
        /\ config'.text.number = edits + 1
    BY <2>1, NewText DEF Registers
  <2>3. base' # None => base'.text.number # edits'
    BY <2>1, Counts DEF NameInv, NumbersRight
  <2> QED
    BY <2>3 DEF BaseIsOlder, Newest
<1> QED
  BY <1>2, <1>3, <1>4 DEF NameInv

LEMMA RemoveKeepsName == ASSUME CodexInv, NameInv, Codex!Remove PROVE NameInv'
<1>1. CodexInv
  OBVIOUS
<1> USE DEF Codex!saved, Codex!editor, Codex!code
<1>2. NumbersRight'
  <2>1. /\ edits' = edits + 1 /\ owed' \subseteq owed /\ config' = None
        /\ UNCHANGED <<base, temp, manifest>>
    BY DEF Codex!Remove, Codex!Forget
  <2>2. \A n \in owed' : n <= edits'
    <3>1. \A n \in owed : n \in Nat /\ n <= edits /\ edits \in Nat
      BY Counts, CodexAssumption DEF NameInv, NumbersRight, CodexInv, CodexTyped, Codex!TypeOK
    <3> QED
      BY <2>1, <3>1
  <2> QED
    BY <2>1, <2>2, Counts DEF NameInv, NumbersRight
<1>3. NameStays'
  <2>1. edits' = edits + 1 /\ owed' \subseteq owed
    BY DEF Codex!Remove, Codex!Forget
  <2>2. edits' \notin owed'
    BY <2>1, Counts DEF NameInv, NumbersRight
  <2> QED
    BY <2>2 DEF Unforced, NameStays
<1>4. BaseIsOlder'
  <2>1. edits' = edits + 1 /\ owed' \subseteq owed
    BY DEF Codex!Remove, Codex!Forget
  <2>2. edits' \notin owed'
    BY <2>1, Counts DEF NameInv, NumbersRight
  <2> QED
    BY <2>2 DEF Unforced, BaseIsOlder
<1> QED
  BY <1>2, <1>3, <1>4 DEF NameInv

LEMMA NameStep ==
  ASSUME CodexInv, NameInv, [Codex!WindowsNext]_Codex!vars PROVE NameInv'
<1>1. CASE UNCHANGED Codex!vars
  BY <1>1 DEF Codex!vars, Codex!code, Codex!files, Codex!saved, Codex!editor, NameInv, NumbersRight,
     NameStays, BaseIsOlder, Unforced, Few, Newest, Restores, Deleting
<1>2. CASE Codex!WindowsNext
  BY <1>2, InstallKeepsName, PrepareKeepsName, SaveKeepsName, RecheckKeepsName,
     WriteBesideKeepsName, RenameNewKeepsName, ReplaceKeepsName, MoveBackKeepsName,
     AuditDisplacedKeepsName, RecoverKeepsName, ReplaceBackKeepsName, ReauditKeepsName,
     OpenToDeleteKeepsName, QuarantineKeepsName, DisposeKeepsName, HandlerKeepsName,
     RollbackKeepsName, RestoreKeepsName, KilledKeepsName, EditKeepsName, RemoveKeepsName
     DEF Codex!WindowsNext
<1> QED
  BY <1>1, <1>2

LEMMA NameFollows ==
  ASSUME CodexInv, NameInv
  PROVE  Codex!NameKept
  BY DEF CodexInv, JobsRight, NameInv, NameStays, Unforced, Few, Codex!NameKept

-------------------------------------------------------------------------------
(* The installers.                                                         *)

(* A run at work, what its host starts, and what it is to start.           *)
Running(r) == step[r] \notin {"idle", "done", "dead"}
Registration(r) == registered[host[r]]
Wanted(r) == IF what[r] = "install" THEN r ELSE None

(* Each step is of one host's program or of one kind of run, and has the   *)
(* flags that the scripts have there.                                      *)
Preparing   == {"snapshot", "make", "build", "look", "publish", "check", "configure"}
Between  == {"remove", "gone", "add", "verify"}
Undoing  == {"restore", "again"}
Ending   == {"exit", "cleanup", "unlock"}

FlagsRight(r) ==
  /\ ~Running(r) => before[r] = None /\ ~switching[r] /\ ~preserve[r] /\ ~succeeded[r]
  /\ step[r] = "idle" => runtime[r] = "none"
  /\ step[r] \in {"snapshot", "check", "remove", "gone", "add", "again"} => host[r] = "claude"
  /\ step[r] = "configure" => host[r] = "codex"
  /\ step[r] \in {"make", "build", "look", "publish", "add", "prune"} => what[r] = "install"
  /\ step[r] \in {"snapshot", "make"} => runtime[r] = "none"
  /\ step[r] = "build" => runtime[r] = "partial"
  /\ step[r] = "snapshot" => before[r] = None
  /\ host[r] = "codex" /\ step[r] \in Preparing => before[r] = None
  /\ step[r] \in {"look", "publish", "check", "configure", "prune", "finish"} \cup Between /\ what[r] = "install" =>
       runtime[r] = "complete"
  /\ succeeded[r] => step[r] \in {"prune"} \cup Ending /\ ~switching[r]
  /\ preserve[r] => step[r] \in {"cleanup", "unlock"}
  /\ step[r] = "prune" => succeeded[r]
  /\ step[r] \in Preparing \cup Undoing \cup {"cleanup", "unlock"} => ~switching[r]
  /\ step[r] \in Between => switching[r]
  /\ step[r] \in Undoing => deaf[r]
  /\ step[r] \in {"check"} \cup Between => before[r] # Other

(* Nobody else is at work on the host, and what the run found there is     *)
(* a complete runtime of the host, and not its own.                        *)
FoundRight(r) ==
  Running(r) =>
    /\ lock[host[r]] = r
    /\ ~succeeded[r] /\ before[r] \in Records =>
         runtime[before[r]] = "complete" /\ host[before[r]] = host[r] /\ before[r] # r

(* Where its own generation may be the one that the host starts.           *)
OwnRight(r) ==
  /\ Running(r) /\ Registration(r) = r =>
       \/ succeeded[r] \/ preserve[r]
       \/ step[r] \in {"verify", "restore"}
       \/ (step[r] \in {"finish", "exit"} /\ switching[r])
  /\ (step[r] = "finish" /\ what[r] = "install" /\ before[r] # Other) \/ step[r] = "prune" =>
       (Registration(r) \in Records => Registration(r) = r)
  /\ succeeded[r] /\ what[r] = "install" /\ before[r] \in Records =>
       /\ runtime[r] # "none"
       /\ \E g \in Records \ {r} : host[g] = host[r] /\ runtime[g] # "none"

(* While nobody else interferes: what it has to put back, and that it has. *)
AloneRight(r) ==
  outside = 0 /\ Running(r) =>
    /\ ~succeeded[r] =>
         /\ step[r] \in Preparing => Registration(r) = origin[host[r]]
         /\ step[r] \in {"make", "build", "look", "publish"} =>
              before[r] = Other \/ before[r] = origin[host[r]] \/ host[r] = "codex"
         /\ step[r] \in {"check"} \cup Between \cup Undoing => before[r] = origin[host[r]]
         /\ step[r] \in {"exit", "finish"} =>
              IF switching[r] THEN before[r] = origin[host[r]]
              ELSE Registration(r) = origin[host[r]]
         /\ step[r] \in {"cleanup", "unlock"} /\ ~preserve[r] => Registration(r) = origin[host[r]]
    /\ (step[r] = "finish" \/ succeeded[r]) /\ before[r] # Other => Registration(r) = Wanted(r)

(* What a host starts is a complete runtime of its own.                    *)
HostsRight ==
  /\ \A h \in Install!Hosts : registered[h] \in Records =>
       runtime[registered[h]] = "complete" /\ host[registered[h]] = h
  /\ outside = 0 => \A h \in Install!Hosts : registered[h] # Other /\ origin[h] # Other

(* What there is of a generation was made some time.                       *)
BirthsRight ==
  /\ born \in Seq(Records)
  /\ \A g \in Records : runtime[g] # "none" => \E i \in 1 .. Len(born) : born[i] = g

RunRight(r) == FlagsRight(r) /\ FoundRight(r) /\ OwnRight(r) /\ AloneRight(r)

InstallInv ==
  /\ Install!TypeOK /\ outside \in Nat /\ HostsRight /\ BirthsRight
  /\ (settings = {} \/ \E x \in Records \cup {Other} : settings = {x})
  /\ \A r \in Records : RunRight(r)

(* A run moves on its own host only.                                       *)
Apart(r) ==
  /\ \A q \in Records \ {r} :
       /\ host'[q] = host[q] /\ what'[q] = what[q] /\ step'[q] = step[q]
       /\ before'[q] = before[q] /\ switching'[q] = switching[q]
       /\ preserve'[q] = preserve[q] /\ succeeded'[q] = succeeded[q] /\ deaf'[q] = deaf[q]
       /\ runtime'[q] # runtime[q] => host[q] = host[r] /\ runtime[q] # "none"
  /\ \A h \in Install!Hosts \ {host[r]} :
       registered'[h] = registered[h] /\ lock'[h] = lock[h] /\ origin'[h] = origin[h]
  /\ outside' = outside /\ host'[r] = host[r] /\ lock[host[r]] = r

LEMMA OthersStay ==
  ASSUME InstallInv, NEW r \in Records, NEW q \in Records \ {r}, Apart(r)
  PROVE  RunRight(q)'
<1>1. RunRight(q) /\ host[q] \in Install!Hosts /\ host[r] \in Install!Hosts
  BY DEF InstallInv, Install!TypeOK
<1>2. /\ host'[q] = host[q] /\ what'[q] = what[q] /\ step'[q] = step[q]
      /\ before'[q] = before[q] /\ switching'[q] = switching[q]
      /\ preserve'[q] = preserve[q] /\ succeeded'[q] = succeeded[q] /\ deaf'[q] = deaf[q]
      /\ outside' = outside /\ host'[r] = host[r] /\ lock[host[r]] = r
  BY DEF Apart
<1>3. CASE ~Running(q)
  BY <1>1, <1>2, <1>3 DEF Apart, RunRight, FlagsRight, FoundRight, OwnRight, AloneRight, Running,
     Preparing, Between, Undoing, Ending
<1>4. CASE Running(q)
  <2>1. host[q] # host[r] /\ lock[host[q]] = q
    BY <1>1, <1>2, <1>4 DEF RunRight, FoundRight
  <2>2. /\ registered'[host[q]] = registered[host[q]] /\ lock'[host[q]] = lock[host[q]]
        /\ origin'[host[q]] = origin[host[q]]
    BY <1>1, <2>1 DEF Apart
  <2>3. runtime'[q] = runtime[q]
    BY <2>1 DEF Apart
  <2>4. \A g \in Records : host[g] = host[q] => host'[g] = host[g] /\ runtime'[g] = runtime[g]
    BY <2>1 DEF Apart
  <2>5. FlagsRight(q)'
    BY <1>1, <1>2, <2>3 DEF RunRight, FlagsRight, Running
  <2>6. FoundRight(q)'
    BY <1>1, <1>2, <1>4, <2>1, <2>2, <2>4 DEF RunRight, FoundRight, Running
  <2>7. OwnRight(q)'
    <3>1. Running(q)' <=> Running(q)
      BY <1>2 DEF Running
    <3>2. Registration(q)' = Registration(q)
      BY <1>2, <2>2 DEF Registration
    <3>3. (\E g \in Records \ {q} : host[g] = host[q] /\ runtime[g] # "none") =>
             \E g \in Records \ {q} : host'[g] = host'[q] /\ runtime'[g] # "none"
      BY <1>2, <2>4
    <3>. QED
      BY <1>1, <1>2, <2>3, <3>1, <3>2, <3>3 DEF RunRight, OwnRight
  <2>8. AloneRight(q)'
    BY <1>1, <1>2, <2>2 DEF RunRight, AloneRight, Running, Registration, Wanted
  <2>. QED
    BY <2>5, <2>6, <2>7, <2>8 DEF RunRight
<1>. QED
  BY <1>3, <1>4

(* A set of numbers has a least one, and a set of generations a newest.    *)
LEMMA Lowest ==
  ASSUME NEW T, T \subseteq Nat, T # {}
  PROVE  \E m \in T : \A j \in T : m <= j
<1>. DEFINE Less == {p \in Nat \X Nat : p[1] < p[2]}
<1>1. IsWellFoundedOn(Less, Nat)
  <2>1. OpToRel(<, Nat) = Less
    BY DEF OpToRel
  <2>. QED
    BY <2>1, NatLessThanWellFounded
<1>2. PICK m \in T : \A j \in T : <<j, m>> \notin Less
  BY <1>1, WFMin
<1>3. \A j \in T : m <= j
  <2>1. TAKE j \in T
  <2>2. j \in Nat /\ m \in Nat /\ <<j, m>> \notin Less
    BY <1>2
  <2>3. ~(j < m)
    BY <2>2
  <2>. QED
    BY <2>2, <2>3
<1>. QED
  BY <1>3

LEMMA NewestIs ==
  ASSUME BirthsRight, NEW S \in SUBSET Records, S # {}, \A g \in S : runtime[g] # "none"
  PROVE  \E g \in S : g \in Install!Newest(S)
<1>1. \A g \in S : Install!Order(g) \in 1 .. Len(born)
  BY DEF BirthsRight, Install!Order
<1>2. Len(born) \in Nat
  BY DEF BirthsRight
<1>. DEFINE T == {Len(born) - Install!Order(g) : g \in S}
<1>3. T \subseteq Nat /\ T # {}
  BY <1>1, <1>2
<1>4. PICK m \in T : \A j \in T : m <= j
  BY <1>3, Lowest
<1>5. PICK g \in S : m = Len(born) - Install!Order(g)
  BY <1>4
<1>6. \A f \in S : Install!Order(f) <= Install!Order(g)
  <2>1. TAKE f \in S
  <2>2. m <= Len(born) - Install!Order(f)
    BY <1>4
  <2>. QED
    BY <1>1, <1>2, <1>5, <2>2
<1>. QED
  BY <1>6 DEF Install!Newest

LEMMA SnapshotHolds ==
  ASSUME InstallInv, NEW r \in Records, Install!Snapshot(r)
  PROVE  InstallInv'
<1>1. Install!TypeOK /\ RunRight(r) /\ HostsRight /\ BirthsRight /\ host[r] \in Install!Hosts
      /\ step[r] \notin {"idle", "done", "dead"} /\ lock[host[r]] = r
  BY InstallAssumption DEF InstallInv, Install!TypeOK, RunRight, FoundRight, Running, Install!Snapshot, Install!Goto, Install!Works, Install!Fails, Install!Refused, Install!Current, Install!Hosts
<1>2. Install!TypeOK'
  BY <1>1 DEF Install!TypeOK, Install!Snapshot, Install!Goto, Install!Works, Install!Fails,
       Install!Refused, Install!Current, Install!Hosts
<1>3. Apart(r)
  BY <1>1 DEF Install!TypeOK, Apart, Install!Snapshot, Install!Goto, Install!Works,
       Install!Fails, Install!Refused, Install!Current, Install!Hosts
<1>4. FlagsRight(r)'
  BY <1>1, <1>2, LogAssumption, InstallAssumption DEF Install!TypeOK, RunRight, FlagsRight,
       FoundRight, Preparing, Between, Undoing, Ending, Running, Registration, Wanted,
       Install!Snapshot, Install!Goto, Install!Works, Install!Fails, Install!Refused,
       Install!Current, Install!Hosts
<1>5. FoundRight(r)'
  BY <1>1, <1>2, LogAssumption, InstallAssumption DEF Install!TypeOK, RunRight, FlagsRight,
       FoundRight, OwnRight, HostsRight, Preparing, Between, Undoing, Ending, Running,
       Registration, Wanted, Install!Snapshot, Install!Goto, Install!Works, Install!Fails,
       Install!Refused, Install!Current, Install!Hosts
<1>6. OwnRight(r)'
  BY <1>1, <1>2, LogAssumption, InstallAssumption DEF Install!TypeOK, RunRight, FlagsRight,
       FoundRight, OwnRight, Preparing, Between, Undoing, Ending, Running, Registration,
       Wanted, Install!Snapshot, Install!Goto, Install!Works, Install!Fails,
       Install!Refused, Install!Current, Install!Hosts
<1>7. AloneRight(r)'
  BY <1>1, <1>2, LogAssumption, InstallAssumption DEF Install!TypeOK, RunRight, FlagsRight,
       FoundRight, OwnRight, AloneRight, HostsRight, Preparing, Between, Undoing, Ending,
       Running, Registration, Wanted, Install!Snapshot, Install!Goto, Install!Works,
       Install!Fails, Install!Refused, Install!Current, Install!Hosts
<1>8. HostsRight'
  BY <1>1, <1>2, LogAssumption, InstallAssumption DEF Install!TypeOK, RunRight, FlagsRight,
       FoundRight, OwnRight, AloneRight, HostsRight, Preparing, Between, Undoing, Ending,
       Running, Registration, Wanted, Install!Snapshot, Install!Goto, Install!Works,
       Install!Fails, Install!Refused, Install!Current, Install!Hosts
<1>9. BirthsRight'
  BY <1>1, <1>2 DEF Install!TypeOK, BirthsRight, Install!Snapshot, Install!Goto,
       Install!Works, Install!Fails, Install!Refused, Install!Current, Install!Hosts
<1>10. outside' \in Nat /\ (settings' = {} \/ \E x \in Records \cup {Other} : settings' = {x})
  BY <1>1 DEF InstallInv, Install!Snapshot, Install!Goto, Install!Works, Install!Fails,
       Install!Refused, Install!Current, Install!Hosts
<1>11. \A q \in Records : RunRight(q)'
  BY <1>3, <1>4, <1>5, <1>6, <1>7, OthersStay DEF RunRight
<1>. QED
  BY <1>2, <1>8, <1>9, <1>10, <1>11 DEF InstallInv

LEMMA MakeGenerationHolds ==
  ASSUME InstallInv, NEW r \in Records, Install!MakeGeneration(r)
  PROVE  InstallInv'
<1>1. Install!TypeOK /\ RunRight(r) /\ HostsRight /\ BirthsRight /\ host[r] \in Install!Hosts
      /\ step[r] \notin {"idle", "done", "dead"} /\ lock[host[r]] = r
  BY InstallAssumption DEF InstallInv, Install!TypeOK, RunRight, FoundRight, Running, Install!MakeGeneration, Install!Goto, Install!Hosts
<1>2. Install!TypeOK'
  BY <1>1 DEF Install!TypeOK, Install!MakeGeneration, Install!Goto, Install!Hosts
<1>3. Apart(r)
  BY <1>1 DEF Install!TypeOK, Apart, Install!MakeGeneration, Install!Goto, Install!Hosts
<1>4. FlagsRight(r)'
  BY <1>1, <1>2, LogAssumption, InstallAssumption DEF Install!TypeOK, RunRight, FlagsRight,
       FoundRight, Preparing, Between, Undoing, Ending, Running, Registration, Wanted,
       Install!MakeGeneration, Install!Goto, Install!Hosts
<1>5. FoundRight(r)'
  BY <1>1, <1>2, LogAssumption, InstallAssumption DEF Install!TypeOK, RunRight, FlagsRight,
       FoundRight, OwnRight, HostsRight, Preparing, Between, Undoing, Ending, Running,
       Registration, Wanted, Install!MakeGeneration, Install!Goto, Install!Hosts
<1>6. OwnRight(r)'
  BY <1>1, <1>2, LogAssumption, InstallAssumption DEF Install!TypeOK, RunRight, FlagsRight,
       FoundRight, OwnRight, Preparing, Between, Undoing, Ending, Running, Registration,
       Wanted, Install!MakeGeneration, Install!Goto, Install!Hosts
<1>7. AloneRight(r)'
  BY <1>1, <1>2, LogAssumption, InstallAssumption DEF Install!TypeOK, RunRight, FlagsRight,
       FoundRight, OwnRight, AloneRight, HostsRight, Preparing, Between, Undoing, Ending,
       Running, Registration, Wanted, Install!MakeGeneration, Install!Goto, Install!Hosts
<1>8. HostsRight'
  BY <1>1, <1>2, LogAssumption, InstallAssumption DEF Install!TypeOK, RunRight, FlagsRight,
       FoundRight, OwnRight, AloneRight, HostsRight, Preparing, Between, Undoing, Ending,
       Running, Registration, Wanted, Install!MakeGeneration, Install!Goto, Install!Hosts
<1>9. BirthsRight'
  BY <1>1, <1>2 DEF Install!TypeOK, BirthsRight, Install!MakeGeneration, Install!Goto,
       Install!Hosts
<1>10. outside' \in Nat /\ (settings' = {} \/ \E x \in Records \cup {Other} : settings' = {x})
  BY <1>1 DEF InstallInv, Install!MakeGeneration, Install!Goto, Install!Hosts
<1>11. \A q \in Records : RunRight(q)'
  BY <1>3, <1>4, <1>5, <1>6, <1>7, OthersStay DEF RunRight
<1>. QED
  BY <1>2, <1>8, <1>9, <1>10, <1>11 DEF InstallInv

LEMMA BuildHolds ==
  ASSUME InstallInv, NEW r \in Records, Install!Build(r)
  PROVE  InstallInv'
<1>1. Install!TypeOK /\ RunRight(r) /\ HostsRight /\ BirthsRight /\ host[r] \in Install!Hosts
      /\ step[r] \notin {"idle", "done", "dead"} /\ lock[host[r]] = r
  BY InstallAssumption DEF InstallInv, Install!TypeOK, RunRight, FoundRight, Running, Install!Build, Install!Goto, Install!Works, Install!Fails, Install!Hosts
<1>2. Install!TypeOK'
  BY <1>1 DEF Install!TypeOK, Install!Build, Install!Goto, Install!Works, Install!Fails,
       Install!Hosts
<1>3. Apart(r)
  BY <1>1 DEF Install!TypeOK, Apart, Install!Build, Install!Goto, Install!Works,
       Install!Fails, Install!Hosts
<1>4. FlagsRight(r)'
  BY <1>1, <1>2, LogAssumption, InstallAssumption DEF Install!TypeOK, RunRight, FlagsRight,
       FoundRight, Preparing, Between, Undoing, Ending, Running, Registration, Wanted,
       Install!Build, Install!Goto, Install!Works, Install!Fails, Install!Hosts
<1>5. FoundRight(r)'
  BY <1>1, <1>2, LogAssumption, InstallAssumption DEF Install!TypeOK, RunRight, FlagsRight,
       FoundRight, OwnRight, HostsRight, Preparing, Between, Undoing, Ending, Running,
       Registration, Wanted, Install!Build, Install!Goto, Install!Works, Install!Fails,
       Install!Hosts
<1>6. OwnRight(r)'
  BY <1>1, <1>2, LogAssumption, InstallAssumption DEF Install!TypeOK, RunRight, FlagsRight,
       FoundRight, OwnRight, Preparing, Between, Undoing, Ending, Running, Registration,
       Wanted, Install!Build, Install!Goto, Install!Works, Install!Fails, Install!Hosts
<1>7. AloneRight(r)'
  BY <1>1, <1>2, LogAssumption, InstallAssumption DEF Install!TypeOK, RunRight, FlagsRight,
       FoundRight, OwnRight, AloneRight, HostsRight, Preparing, Between, Undoing, Ending,
       Running, Registration, Wanted, Install!Build, Install!Goto, Install!Works,
       Install!Fails, Install!Hosts
<1>8. HostsRight'
  BY <1>1, <1>2, LogAssumption, InstallAssumption DEF Install!TypeOK, RunRight, FlagsRight,
       FoundRight, OwnRight, AloneRight, HostsRight, Preparing, Between, Undoing, Ending,
       Running, Registration, Wanted, Install!Build, Install!Goto, Install!Works,
       Install!Fails, Install!Hosts
<1>9. BirthsRight'
  BY <1>1, <1>2 DEF Install!TypeOK, BirthsRight, RunRight, FlagsRight, Install!Build
<1>10. outside' \in Nat /\ (settings' = {} \/ \E x \in Records \cup {Other} : settings' = {x})
  BY <1>1 DEF InstallInv, Install!Build, Install!Goto, Install!Works, Install!Fails,
       Install!Hosts
<1>11. \A q \in Records : RunRight(q)'
  BY <1>3, <1>4, <1>5, <1>6, <1>7, OthersStay DEF RunRight
<1>. QED
  BY <1>2, <1>8, <1>9, <1>10, <1>11 DEF InstallInv

LEMMA LookForSettingsHolds ==
  ASSUME InstallInv, NEW r \in Records, Install!LookForSettings(r)
  PROVE  InstallInv'
<1>1. Install!TypeOK /\ RunRight(r) /\ HostsRight /\ BirthsRight /\ host[r] \in Install!Hosts
      /\ step[r] \notin {"idle", "done", "dead"} /\ lock[host[r]] = r
  BY InstallAssumption DEF InstallInv, Install!TypeOK, RunRight, FoundRight, Running, Install!LookForSettings, Install!Switch, Install!Goto, Install!Hosts
<1>2. Install!TypeOK'
  BY <1>1 DEF Install!TypeOK, Install!LookForSettings, Install!Switch, Install!Goto,
       Install!Hosts
<1>3. Apart(r)
  BY <1>1 DEF Install!TypeOK, Apart, Install!LookForSettings, Install!Switch, Install!Goto,
       Install!Hosts
<1>4. FlagsRight(r)'
  BY <1>1, <1>2, LogAssumption, InstallAssumption DEF Install!TypeOK, RunRight, FlagsRight,
       FoundRight, Preparing, Between, Undoing, Ending, Running, Registration, Wanted,
       Install!LookForSettings, Install!Switch, Install!Goto, Install!Hosts
<1>5. FoundRight(r)'
  BY <1>1, <1>2, LogAssumption, InstallAssumption DEF Install!TypeOK, RunRight, FlagsRight,
       FoundRight, OwnRight, HostsRight, Preparing, Between, Undoing, Ending, Running,
       Registration, Wanted, Install!LookForSettings, Install!Switch, Install!Goto,
       Install!Hosts
<1>6. OwnRight(r)'
  BY <1>1, <1>2, LogAssumption, InstallAssumption DEF Install!TypeOK, RunRight, FlagsRight,
       FoundRight, OwnRight, Preparing, Between, Undoing, Ending, Running, Registration,
       Wanted, Install!LookForSettings, Install!Switch, Install!Goto, Install!Hosts
<1>7. AloneRight(r)'
  BY <1>1, <1>2, LogAssumption, InstallAssumption DEF Install!TypeOK, RunRight, FlagsRight,
       FoundRight, OwnRight, AloneRight, HostsRight, Preparing, Between, Undoing, Ending,
       Running, Registration, Wanted, Install!LookForSettings, Install!Switch, Install!Goto,
       Install!Hosts
<1>8. HostsRight'
  BY <1>1, <1>2, LogAssumption, InstallAssumption DEF Install!TypeOK, RunRight, FlagsRight,
       FoundRight, OwnRight, AloneRight, HostsRight, Preparing, Between, Undoing, Ending,
       Running, Registration, Wanted, Install!LookForSettings, Install!Switch, Install!Goto,
       Install!Hosts
<1>9. BirthsRight'
  BY <1>1, <1>2 DEF Install!TypeOK, BirthsRight, Install!LookForSettings, Install!Switch,
       Install!Goto, Install!Hosts
<1>10. outside' \in Nat /\ (settings' = {} \/ \E x \in Records \cup {Other} : settings' = {x})
  BY <1>1 DEF InstallInv, Install!LookForSettings, Install!Switch, Install!Goto,
       Install!Hosts
<1>11. \A q \in Records : RunRight(q)'
  BY <1>3, <1>4, <1>5, <1>6, <1>7, OthersStay DEF RunRight
<1>. QED
  BY <1>2, <1>8, <1>9, <1>10, <1>11 DEF InstallInv

LEMMA PublishHolds ==
  ASSUME InstallInv, NEW r \in Records, Install!Publish(r)
  PROVE  InstallInv'
<1>1. Install!TypeOK /\ RunRight(r) /\ HostsRight /\ BirthsRight /\ host[r] \in Install!Hosts
      /\ step[r] \notin {"idle", "done", "dead"} /\ lock[host[r]] = r
  BY InstallAssumption DEF InstallInv, Install!TypeOK, RunRight, FoundRight, Running, Install!Publish, Install!Switch, Install!Goto, Install!Works, Install!Fails, Install!Refused, Install!Hosts
<1>2. Install!TypeOK'
  BY <1>1 DEF Install!TypeOK, Install!Publish, Install!Switch, Install!Goto, Install!Works,
       Install!Fails, Install!Refused, Install!Hosts
<1>3. Apart(r)
  BY <1>1 DEF Install!TypeOK, Apart, Install!Publish, Install!Switch, Install!Goto,
       Install!Works, Install!Fails, Install!Refused, Install!Hosts
<1>4. FlagsRight(r)'
  BY <1>1, <1>2, LogAssumption, InstallAssumption DEF Install!TypeOK, RunRight, FlagsRight,
       FoundRight, Preparing, Between, Undoing, Ending, Running, Registration, Wanted,
       Install!Publish, Install!Switch, Install!Goto, Install!Works, Install!Fails,
       Install!Refused, Install!Hosts
<1>5. FoundRight(r)'
  BY <1>1, <1>2, LogAssumption, InstallAssumption DEF Install!TypeOK, RunRight, FlagsRight,
       FoundRight, OwnRight, HostsRight, Preparing, Between, Undoing, Ending, Running,
       Registration, Wanted, Install!Publish, Install!Switch, Install!Goto, Install!Works,
       Install!Fails, Install!Refused, Install!Hosts
<1>6. OwnRight(r)'
  BY <1>1, <1>2, LogAssumption, InstallAssumption DEF Install!TypeOK, RunRight, FlagsRight,
       FoundRight, OwnRight, Preparing, Between, Undoing, Ending, Running, Registration,
       Wanted, Install!Publish, Install!Switch, Install!Goto, Install!Works, Install!Fails,
       Install!Refused, Install!Hosts
<1>7. AloneRight(r)'
  BY <1>1, <1>2, LogAssumption, InstallAssumption DEF Install!TypeOK, RunRight, FlagsRight,
       FoundRight, OwnRight, AloneRight, HostsRight, Preparing, Between, Undoing, Ending,
       Running, Registration, Wanted, Install!Publish, Install!Switch, Install!Goto,
       Install!Works, Install!Fails, Install!Refused, Install!Hosts
<1>8. HostsRight'
  BY <1>1, <1>2, LogAssumption, InstallAssumption DEF Install!TypeOK, RunRight, FlagsRight,
       FoundRight, OwnRight, AloneRight, HostsRight, Preparing, Between, Undoing, Ending,
       Running, Registration, Wanted, Install!Publish, Install!Switch, Install!Goto,
       Install!Works, Install!Fails, Install!Refused, Install!Hosts
<1>9. BirthsRight'
  BY <1>1, <1>2 DEF Install!TypeOK, BirthsRight, Install!Publish, Install!Switch,
       Install!Goto, Install!Works, Install!Fails, Install!Refused, Install!Hosts
<1>10. outside' \in Nat /\ (settings' = {} \/ \E x \in Records \cup {Other} : settings' = {x})
  BY <1>1 DEF InstallInv, Install!Publish, Install!Switch, Install!Goto, Install!Works,
       Install!Fails, Install!Refused, Install!Hosts
<1>11. \A q \in Records : RunRight(q)'
  BY <1>3, <1>4, <1>5, <1>6, <1>7, OthersStay DEF RunRight
<1>. QED
  BY <1>2, <1>8, <1>9, <1>10, <1>11 DEF InstallInv

LEMMA CheckHolds ==
  ASSUME InstallInv, NEW r \in Records, Install!Check(r)
  PROVE  InstallInv'
<1>1. Install!TypeOK /\ RunRight(r) /\ HostsRight /\ BirthsRight /\ host[r] \in Install!Hosts
      /\ step[r] \notin {"idle", "done", "dead"} /\ lock[host[r]] = r
  BY InstallAssumption DEF InstallInv, Install!TypeOK, RunRight, FoundRight, Running, Install!Check, Install!Goto, Install!Works, Install!Fails, Install!Refused, Install!Current, Install!Hosts
<1>2. Install!TypeOK'
  BY <1>1 DEF Install!TypeOK, Install!Check, Install!Goto, Install!Works, Install!Fails,
       Install!Refused, Install!Current, Install!Hosts
<1>3. Apart(r)
  BY <1>1 DEF Install!TypeOK, Apart, Install!Check, Install!Goto, Install!Works,
       Install!Fails, Install!Refused, Install!Current, Install!Hosts
<1>4. FlagsRight(r)'
  BY <1>1, <1>2, LogAssumption, InstallAssumption DEF Install!TypeOK, RunRight, FlagsRight,
       FoundRight, Preparing, Between, Undoing, Ending, Running, Registration, Wanted,
       Install!Check, Install!Goto, Install!Works, Install!Fails, Install!Refused,
       Install!Current, Install!Hosts
<1>5. FoundRight(r)'
  BY <1>1, <1>2, LogAssumption, InstallAssumption DEF Install!TypeOK, RunRight, FlagsRight,
       FoundRight, OwnRight, HostsRight, Preparing, Between, Undoing, Ending, Running,
       Registration, Wanted, Install!Check, Install!Goto, Install!Works, Install!Fails,
       Install!Refused, Install!Current, Install!Hosts
<1>6. OwnRight(r)'
  BY <1>1, <1>2, LogAssumption, InstallAssumption DEF Install!TypeOK, RunRight, FlagsRight,
       FoundRight, OwnRight, Preparing, Between, Undoing, Ending, Running, Registration,
       Wanted, Install!Check, Install!Goto, Install!Works, Install!Fails, Install!Refused,
       Install!Current, Install!Hosts
<1>7. AloneRight(r)'
  BY <1>1, <1>2, LogAssumption, InstallAssumption DEF Install!TypeOK, RunRight, FlagsRight,
       FoundRight, OwnRight, AloneRight, HostsRight, Preparing, Between, Undoing, Ending,
       Running, Registration, Wanted, Install!Check, Install!Goto, Install!Works,
       Install!Fails, Install!Refused, Install!Current, Install!Hosts
<1>8. HostsRight'
  BY <1>1, <1>2, LogAssumption, InstallAssumption DEF Install!TypeOK, RunRight, FlagsRight,
       FoundRight, OwnRight, AloneRight, HostsRight, Preparing, Between, Undoing, Ending,
       Running, Registration, Wanted, Install!Check, Install!Goto, Install!Works,
       Install!Fails, Install!Refused, Install!Current, Install!Hosts
<1>9. BirthsRight'
  BY <1>1, <1>2 DEF Install!TypeOK, BirthsRight, Install!Check, Install!Goto, Install!Works,
       Install!Fails, Install!Refused, Install!Current, Install!Hosts
<1>10. outside' \in Nat /\ (settings' = {} \/ \E x \in Records \cup {Other} : settings' = {x})
  BY <1>1 DEF InstallInv, Install!Check, Install!Goto, Install!Works, Install!Fails,
       Install!Refused, Install!Current, Install!Hosts
<1>11. \A q \in Records : RunRight(q)'
  BY <1>3, <1>4, <1>5, <1>6, <1>7, OthersStay DEF RunRight
<1>. QED
  BY <1>2, <1>8, <1>9, <1>10, <1>11 DEF InstallInv

LEMMA RemoveHolds ==
  ASSUME InstallInv, NEW r \in Records, Install!Remove(r)
  PROVE  InstallInv'
<1>1. Install!TypeOK /\ RunRight(r) /\ HostsRight /\ BirthsRight /\ host[r] \in Install!Hosts
      /\ step[r] \notin {"idle", "done", "dead"} /\ lock[host[r]] = r
  BY InstallAssumption DEF InstallInv, Install!TypeOK, RunRight, FoundRight, Running, Install!Remove, Install!Goto, Install!Works, Install!Fails, Install!Refused, Install!Current, Install!Register, Install!Command, Install!Hosts
<1>2. Install!TypeOK'
  BY <1>1 DEF Install!TypeOK, Install!Remove, Install!Goto, Install!Works, Install!Fails,
       Install!Refused, Install!Current, Install!Register, Install!Command, Install!Hosts
<1>3. Apart(r)
  BY <1>1 DEF Install!TypeOK, Apart, Install!Remove, Install!Goto, Install!Works,
       Install!Fails, Install!Refused, Install!Current, Install!Register, Install!Command,
       Install!Hosts
<1>4. FlagsRight(r)'
  BY <1>1, <1>2, LogAssumption, InstallAssumption DEF Install!TypeOK, RunRight, FlagsRight,
       FoundRight, Preparing, Between, Undoing, Ending, Running, Registration, Wanted,
       Install!Remove, Install!Goto, Install!Works, Install!Fails, Install!Refused,
       Install!Current, Install!Register, Install!Command, Install!Hosts
<1>5. FoundRight(r)'
  BY <1>1, <1>2, LogAssumption, InstallAssumption DEF Install!TypeOK, RunRight, FlagsRight,
       FoundRight, OwnRight, HostsRight, Preparing, Between, Undoing, Ending, Running,
       Registration, Wanted, Install!Remove, Install!Goto, Install!Works, Install!Fails,
       Install!Refused, Install!Current, Install!Register, Install!Command, Install!Hosts
<1>6. OwnRight(r)'
  BY <1>1, <1>2, LogAssumption, InstallAssumption DEF Install!TypeOK, RunRight, FlagsRight,
       FoundRight, OwnRight, Preparing, Between, Undoing, Ending, Running, Registration,
       Wanted, Install!Remove, Install!Goto, Install!Works, Install!Fails, Install!Refused,
       Install!Current, Install!Register, Install!Command, Install!Hosts
<1>7. AloneRight(r)'
  BY <1>1, <1>2, LogAssumption, InstallAssumption DEF Install!TypeOK, RunRight, FlagsRight,
       FoundRight, OwnRight, AloneRight, HostsRight, Preparing, Between, Undoing, Ending,
       Running, Registration, Wanted, Install!Remove, Install!Goto, Install!Works,
       Install!Fails, Install!Refused, Install!Current, Install!Register, Install!Command,
       Install!Hosts
<1>8. HostsRight'
  BY <1>1, <1>2, LogAssumption, InstallAssumption DEF Install!TypeOK, RunRight, FlagsRight,
       FoundRight, OwnRight, AloneRight, HostsRight, Preparing, Between, Undoing, Ending,
       Running, Registration, Wanted, Install!Remove, Install!Goto, Install!Works,
       Install!Fails, Install!Refused, Install!Current, Install!Register, Install!Command,
       Install!Hosts
<1>9. BirthsRight'
  BY <1>1, <1>2 DEF Install!TypeOK, BirthsRight, Install!Remove, Install!Goto,
       Install!Works, Install!Fails, Install!Refused, Install!Current, Install!Register,
       Install!Command, Install!Hosts
<1>10. outside' \in Nat /\ (settings' = {} \/ \E x \in Records \cup {Other} : settings' = {x})
  BY <1>1 DEF InstallInv, Install!Remove, Install!Goto, Install!Works, Install!Fails,
       Install!Refused, Install!Current, Install!Register, Install!Command, Install!Hosts
<1>11. \A q \in Records : RunRight(q)'
  BY <1>3, <1>4, <1>5, <1>6, <1>7, OthersStay DEF RunRight
<1>. QED
  BY <1>2, <1>8, <1>9, <1>10, <1>11 DEF InstallInv

LEMMA VerifyGoneHolds ==
  ASSUME InstallInv, NEW r \in Records, Install!VerifyGone(r)
  PROVE  InstallInv'
<1>1. Install!TypeOK /\ RunRight(r) /\ HostsRight /\ BirthsRight /\ host[r] \in Install!Hosts
      /\ step[r] \notin {"idle", "done", "dead"} /\ lock[host[r]] = r
  BY InstallAssumption DEF InstallInv, Install!TypeOK, RunRight, FoundRight, Running, Install!VerifyGone, Install!Goto, Install!Works, Install!Fails, Install!Refused, Install!Current, Install!Hosts
<1>2. Install!TypeOK'
  BY <1>1 DEF Install!TypeOK, Install!VerifyGone, Install!Goto, Install!Works,
       Install!Fails, Install!Refused, Install!Current, Install!Hosts
<1>3. Apart(r)
  BY <1>1 DEF Install!TypeOK, Apart, Install!VerifyGone, Install!Goto, Install!Works,
       Install!Fails, Install!Refused, Install!Current, Install!Hosts
<1>4. FlagsRight(r)'
  BY <1>1, <1>2, LogAssumption, InstallAssumption DEF Install!TypeOK, RunRight, FlagsRight,
       FoundRight, Preparing, Between, Undoing, Ending, Running, Registration, Wanted,
       Install!VerifyGone, Install!Goto, Install!Works, Install!Fails, Install!Refused,
       Install!Current, Install!Hosts
<1>5. FoundRight(r)'
  BY <1>1, <1>2, LogAssumption, InstallAssumption DEF Install!TypeOK, RunRight, FlagsRight,
       FoundRight, OwnRight, HostsRight, Preparing, Between, Undoing, Ending, Running,
       Registration, Wanted, Install!VerifyGone, Install!Goto, Install!Works, Install!Fails,
       Install!Refused, Install!Current, Install!Hosts
<1>6. OwnRight(r)'
  BY <1>1, <1>2, LogAssumption, InstallAssumption DEF Install!TypeOK, RunRight, FlagsRight,
       FoundRight, OwnRight, Preparing, Between, Undoing, Ending, Running, Registration,
       Wanted, Install!VerifyGone, Install!Goto, Install!Works, Install!Fails,
       Install!Refused, Install!Current, Install!Hosts
<1>7. AloneRight(r)'
  BY <1>1, <1>2, LogAssumption, InstallAssumption DEF Install!TypeOK, RunRight, FlagsRight,
       FoundRight, OwnRight, AloneRight, HostsRight, Preparing, Between, Undoing, Ending,
       Running, Registration, Wanted, Install!VerifyGone, Install!Goto, Install!Works,
       Install!Fails, Install!Refused, Install!Current, Install!Hosts
<1>8. HostsRight'
  BY <1>1, <1>2, LogAssumption, InstallAssumption DEF Install!TypeOK, RunRight, FlagsRight,
       FoundRight, OwnRight, AloneRight, HostsRight, Preparing, Between, Undoing, Ending,
       Running, Registration, Wanted, Install!VerifyGone, Install!Goto, Install!Works,
       Install!Fails, Install!Refused, Install!Current, Install!Hosts
<1>9. BirthsRight'
  BY <1>1, <1>2 DEF Install!TypeOK, BirthsRight, Install!VerifyGone, Install!Goto,
       Install!Works, Install!Fails, Install!Refused, Install!Current, Install!Hosts
<1>10. outside' \in Nat /\ (settings' = {} \/ \E x \in Records \cup {Other} : settings' = {x})
  BY <1>1 DEF InstallInv, Install!VerifyGone, Install!Goto, Install!Works, Install!Fails,
       Install!Refused, Install!Current, Install!Hosts
<1>11. \A q \in Records : RunRight(q)'
  BY <1>3, <1>4, <1>5, <1>6, <1>7, OthersStay DEF RunRight
<1>. QED
  BY <1>2, <1>8, <1>9, <1>10, <1>11 DEF InstallInv

LEMMA AddHolds ==
  ASSUME InstallInv, NEW r \in Records, Install!Add(r)
  PROVE  InstallInv'
<1>1. Install!TypeOK /\ RunRight(r) /\ HostsRight /\ BirthsRight /\ host[r] \in Install!Hosts
      /\ step[r] \notin {"idle", "done", "dead"} /\ lock[host[r]] = r
  BY InstallAssumption DEF InstallInv, Install!TypeOK, RunRight, FoundRight, Running, Install!Add, Install!Goto, Install!Works, Install!Fails, Install!Refused, Install!Current, Install!Register, Install!Command, Install!Hosts
<1>2. Install!TypeOK'
  BY <1>1 DEF Install!TypeOK, Install!Add, Install!Goto, Install!Works, Install!Fails,
       Install!Refused, Install!Current, Install!Register, Install!Command, Install!Hosts
<1>3. Apart(r)
  BY <1>1 DEF Install!TypeOK, Apart, Install!Add, Install!Goto, Install!Works,
       Install!Fails, Install!Refused, Install!Current, Install!Register, Install!Command,
       Install!Hosts
<1>4. FlagsRight(r)'
  BY <1>1, <1>2, LogAssumption, InstallAssumption DEF Install!TypeOK, RunRight, FlagsRight,
       FoundRight, Preparing, Between, Undoing, Ending, Running, Registration, Wanted,
       Install!Add, Install!Goto, Install!Works, Install!Fails, Install!Refused,
       Install!Current, Install!Register, Install!Command, Install!Hosts
<1>5. FoundRight(r)'
  BY <1>1, <1>2, LogAssumption, InstallAssumption DEF Install!TypeOK, RunRight, FlagsRight,
       FoundRight, OwnRight, HostsRight, Preparing, Between, Undoing, Ending, Running,
       Registration, Wanted, Install!Add, Install!Goto, Install!Works, Install!Fails,
       Install!Refused, Install!Current, Install!Register, Install!Command, Install!Hosts
<1>6. OwnRight(r)'
  BY <1>1, <1>2, LogAssumption, InstallAssumption DEF Install!TypeOK, RunRight, FlagsRight,
       FoundRight, OwnRight, Preparing, Between, Undoing, Ending, Running, Registration,
       Wanted, Install!Add, Install!Goto, Install!Works, Install!Fails, Install!Refused,
       Install!Current, Install!Register, Install!Command, Install!Hosts
<1>7. AloneRight(r)'
  BY <1>1, <1>2, LogAssumption, InstallAssumption DEF Install!TypeOK, RunRight, FlagsRight,
       FoundRight, OwnRight, AloneRight, HostsRight, Preparing, Between, Undoing, Ending,
       Running, Registration, Wanted, Install!Add, Install!Goto, Install!Works,
       Install!Fails, Install!Refused, Install!Current, Install!Register, Install!Command,
       Install!Hosts
<1>8. HostsRight'
  BY <1>1, <1>2, LogAssumption, InstallAssumption DEF Install!TypeOK, RunRight, FlagsRight,
       FoundRight, OwnRight, AloneRight, HostsRight, Preparing, Between, Undoing, Ending,
       Running, Registration, Wanted, Install!Add, Install!Goto, Install!Works,
       Install!Fails, Install!Refused, Install!Current, Install!Register, Install!Command,
       Install!Hosts
<1>9. BirthsRight'
  BY <1>1, <1>2 DEF Install!TypeOK, BirthsRight, Install!Add, Install!Goto, Install!Works,
       Install!Fails, Install!Refused, Install!Current, Install!Register, Install!Command,
       Install!Hosts
<1>10. outside' \in Nat /\ (settings' = {} \/ \E x \in Records \cup {Other} : settings' = {x})
  BY <1>1 DEF InstallInv, Install!Add, Install!Goto, Install!Works, Install!Fails,
       Install!Refused, Install!Current, Install!Register, Install!Command, Install!Hosts
<1>11. \A q \in Records : RunRight(q)'
  BY <1>3, <1>4, <1>5, <1>6, <1>7, OthersStay DEF RunRight
<1>. QED
  BY <1>2, <1>8, <1>9, <1>10, <1>11 DEF InstallInv

LEMMA ConfigureHolds ==
  ASSUME InstallInv, NEW r \in Records, Install!Configure(r)
  PROVE  InstallInv'
<1>1. Install!TypeOK /\ RunRight(r) /\ HostsRight /\ BirthsRight /\ host[r] \in Install!Hosts
      /\ step[r] \notin {"idle", "done", "dead"} /\ lock[host[r]] = r
  BY InstallAssumption DEF InstallInv, Install!TypeOK, RunRight, FoundRight, Running, Install!Configure, Install!Goto, Install!Works, Install!Fails, Install!Refused, Install!Current, Install!Register, Install!Hosts
<1>2. Install!TypeOK'
  <2>1. before' \in [Records -> Records \cup {None, Other}]
    BY <1>1 DEF Install!TypeOK, Install!Configure,
       Install!Goto, Install!Works, Install!Fails, Install!Refused, Install!Current, Install!Register, 
       Install!Preserve, Install!Gone, Install!Command, Install!Hosts
  <2>2. registered' \in [Install!Hosts -> Records \cup {None, Other}]
    BY <1>1 DEF Install!TypeOK, Install!Configure,
       Install!Goto, Install!Works, Install!Fails, Install!Refused, Install!Current, Install!Register, 
       Install!Preserve, Install!Gone, Install!Command, Install!Hosts
  <2>3. switching' \in [Records -> BOOLEAN]
    BY <1>1 DEF Install!TypeOK, Install!Configure,
       Install!Goto, Install!Works, Install!Fails, Install!Refused, Install!Current, Install!Register, 
       Install!Preserve, Install!Gone, Install!Command, Install!Hosts
  <2>4. step' \in [Records -> {"idle", "snapshot", "make", "build", "look", "publish",
                        "check", "remove", "gone", "add", "configure", "verify", "finish",
                        "prune", "exit", "restore", "again", "cleanup", "unlock", "done",
                        "dead"}]
    BY <1>1 DEF Install!TypeOK, Install!Configure,
       Install!Goto, Install!Works, Install!Fails, Install!Refused, Install!Current, Install!Register, 
       Install!Preserve, Install!Gone, Install!Command, Install!Hosts
  <2>. QED
    BY <1>1, <2>1, <2>2, <2>3, <2>4 DEF Install!TypeOK, Install!Configure,
       Install!Goto, Install!Works, Install!Fails, Install!Refused, Install!Current, Install!Register, 
       Install!Preserve, Install!Gone, Install!Command, Install!Hosts
<1>3. Apart(r)
  BY <1>1 DEF Install!TypeOK, Apart, Install!Configure, Install!Goto, Install!Works,
       Install!Fails, Install!Refused, Install!Current, Install!Register, Install!Hosts
<1>4. FlagsRight(r)'
  BY <1>1, <1>2, LogAssumption, InstallAssumption DEF Install!TypeOK, RunRight, FlagsRight,
       FoundRight, Preparing, Between, Undoing, Ending, Running, Registration, Wanted,
       Install!Configure, Install!Goto, Install!Works, Install!Fails, Install!Refused,
       Install!Current, Install!Register, Install!Hosts
<1>5. FoundRight(r)'
  BY <1>1, <1>2, LogAssumption, InstallAssumption DEF Install!TypeOK, RunRight, FlagsRight,
       FoundRight, OwnRight, HostsRight, Preparing, Between, Undoing, Ending, Running,
       Registration, Wanted, Install!Configure, Install!Goto, Install!Works, Install!Fails,
       Install!Refused, Install!Current, Install!Register, Install!Hosts
<1>6. OwnRight(r)'
  BY <1>1, <1>2, LogAssumption, InstallAssumption DEF Install!TypeOK, RunRight, FlagsRight,
       FoundRight, OwnRight, Preparing, Between, Undoing, Ending, Running, Registration,
       Wanted, Install!Configure, Install!Goto, Install!Works, Install!Fails,
       Install!Refused, Install!Current, Install!Register, Install!Hosts
<1>7. AloneRight(r)'
  BY <1>1, <1>2, LogAssumption, InstallAssumption DEF Install!TypeOK, RunRight, FlagsRight,
       FoundRight, OwnRight, AloneRight, HostsRight, Preparing, Between, Undoing, Ending,
       Running, Registration, Wanted, Install!Configure, Install!Goto, Install!Works,
       Install!Fails, Install!Refused, Install!Current, Install!Register, Install!Hosts
<1>8. HostsRight'
  BY <1>1, <1>2, LogAssumption, InstallAssumption DEF Install!TypeOK, RunRight, FlagsRight,
       FoundRight, OwnRight, AloneRight, HostsRight, Preparing, Between, Undoing, Ending,
       Running, Registration, Wanted, Install!Configure, Install!Goto, Install!Works,
       Install!Fails, Install!Refused, Install!Current, Install!Register, Install!Hosts
<1>9. BirthsRight'
  BY <1>1, <1>2 DEF Install!TypeOK, BirthsRight, Install!Configure, Install!Goto,
       Install!Works, Install!Fails, Install!Refused, Install!Current, Install!Register,
       Install!Hosts
<1>10. outside' \in Nat /\ (settings' = {} \/ \E x \in Records \cup {Other} : settings' = {x})
  BY <1>1 DEF InstallInv, Install!Configure, Install!Goto, Install!Works, Install!Fails,
       Install!Refused, Install!Current, Install!Register, Install!Hosts
<1>11. \A q \in Records : RunRight(q)'
  BY <1>3, <1>4, <1>5, <1>6, <1>7, OthersStay DEF RunRight
<1>. QED
  BY <1>2, <1>8, <1>9, <1>10, <1>11 DEF InstallInv

LEMMA VerifyHolds ==
  ASSUME InstallInv, NEW r \in Records, Install!Verify(r)
  PROVE  InstallInv'
<1>1. Install!TypeOK /\ RunRight(r) /\ HostsRight /\ BirthsRight /\ host[r] \in Install!Hosts
      /\ step[r] \notin {"idle", "done", "dead"} /\ lock[host[r]] = r
  BY InstallAssumption DEF InstallInv, Install!TypeOK, RunRight, FoundRight, Running, Install!Verify, Install!Goto, Install!Works, Install!Fails, Install!Refused, Install!Current, Install!Hosts
<1>2. Install!TypeOK'
  BY <1>1 DEF Install!TypeOK, Install!Verify, Install!Goto, Install!Works, Install!Fails,
       Install!Refused, Install!Current, Install!Hosts
<1>3. Apart(r)
  BY <1>1 DEF Install!TypeOK, Apart, Install!Verify, Install!Goto, Install!Works,
       Install!Fails, Install!Refused, Install!Current, Install!Hosts
<1>4. FlagsRight(r)'
  BY <1>1, <1>2, LogAssumption, InstallAssumption DEF Install!TypeOK, RunRight, FlagsRight,
       FoundRight, Preparing, Between, Undoing, Ending, Running, Registration, Wanted,
       Install!Verify, Install!Goto, Install!Works, Install!Fails, Install!Refused,
       Install!Current, Install!Hosts
<1>5. FoundRight(r)'
  BY <1>1, <1>2, LogAssumption, InstallAssumption DEF Install!TypeOK, RunRight, FlagsRight,
       FoundRight, OwnRight, HostsRight, Preparing, Between, Undoing, Ending, Running,
       Registration, Wanted, Install!Verify, Install!Goto, Install!Works, Install!Fails,
       Install!Refused, Install!Current, Install!Hosts
<1>6. OwnRight(r)'
  BY <1>1, <1>2, LogAssumption, InstallAssumption DEF Install!TypeOK, RunRight, FlagsRight,
       FoundRight, OwnRight, Preparing, Between, Undoing, Ending, Running, Registration,
       Wanted, Install!Verify, Install!Goto, Install!Works, Install!Fails, Install!Refused,
       Install!Current, Install!Hosts
<1>7. AloneRight(r)'
  BY <1>1, <1>2, LogAssumption, InstallAssumption DEF Install!TypeOK, RunRight, FlagsRight,
       FoundRight, OwnRight, AloneRight, HostsRight, Preparing, Between, Undoing, Ending,
       Running, Registration, Wanted, Install!Verify, Install!Goto, Install!Works,
       Install!Fails, Install!Refused, Install!Current, Install!Hosts
<1>8. HostsRight'
  BY <1>1, <1>2, LogAssumption, InstallAssumption DEF Install!TypeOK, RunRight, FlagsRight,
       FoundRight, OwnRight, AloneRight, HostsRight, Preparing, Between, Undoing, Ending,
       Running, Registration, Wanted, Install!Verify, Install!Goto, Install!Works,
       Install!Fails, Install!Refused, Install!Current, Install!Hosts
<1>9. BirthsRight'
  BY <1>1, <1>2 DEF Install!TypeOK, BirthsRight, Install!Verify, Install!Goto,
       Install!Works, Install!Fails, Install!Refused, Install!Current, Install!Hosts
<1>10. outside' \in Nat /\ (settings' = {} \/ \E x \in Records \cup {Other} : settings' = {x})
  BY <1>1 DEF InstallInv, Install!Verify, Install!Goto, Install!Works, Install!Fails,
       Install!Refused, Install!Current, Install!Hosts
<1>11. \A q \in Records : RunRight(q)'
  BY <1>3, <1>4, <1>5, <1>6, <1>7, OthersStay DEF RunRight
<1>. QED
  BY <1>2, <1>8, <1>9, <1>10, <1>11 DEF InstallInv

LEMMA FinishHolds ==
  ASSUME InstallInv, NEW r \in Records, Install!Finish(r)
  PROVE  InstallInv'
<1>1. Install!TypeOK /\ RunRight(r) /\ HostsRight /\ BirthsRight /\ host[r] \in Install!Hosts
      /\ step[r] \notin {"idle", "done", "dead"} /\ lock[host[r]] = r
  BY InstallAssumption DEF InstallInv, Install!TypeOK, RunRight, FoundRight, Running, Install!Finish, Install!Goto, Install!Hosts
<1>2. Install!TypeOK'
  BY <1>1 DEF Install!TypeOK, Install!Finish, Install!Goto, Install!Hosts
<1>3. Apart(r)
  BY <1>1 DEF Install!TypeOK, Apart, Install!Finish, Install!Goto, Install!Hosts
<1>4. FlagsRight(r)'
  BY <1>1, <1>2, LogAssumption, InstallAssumption DEF Install!TypeOK, RunRight, FlagsRight,
       FoundRight, Preparing, Between, Undoing, Ending, Running, Registration, Wanted,
       Install!Finish, Install!Goto, Install!Hosts
<1>5. FoundRight(r)'
  BY <1>1, <1>2, LogAssumption, InstallAssumption DEF Install!TypeOK, RunRight, FlagsRight,
       FoundRight, OwnRight, HostsRight, Preparing, Between, Undoing, Ending, Running,
       Registration, Wanted, Install!Finish, Install!Goto, Install!Hosts
<1>6. OwnRight(r)'
  BY <1>1, <1>2, LogAssumption, InstallAssumption DEF Install!TypeOK, RunRight, FlagsRight,
       FoundRight, OwnRight, Preparing, Between, Undoing, Ending, Running, Registration,
       Wanted, Install!Finish, Install!Goto, Install!Hosts
<1>7. AloneRight(r)'
  BY <1>1, <1>2, LogAssumption, InstallAssumption DEF Install!TypeOK, RunRight, FlagsRight,
       FoundRight, OwnRight, AloneRight, HostsRight, Preparing, Between, Undoing, Ending,
       Running, Registration, Wanted, Install!Finish, Install!Goto, Install!Hosts
<1>8. HostsRight'
  BY <1>1, <1>2, LogAssumption, InstallAssumption DEF Install!TypeOK, RunRight, FlagsRight,
       FoundRight, OwnRight, AloneRight, HostsRight, Preparing, Between, Undoing, Ending,
       Running, Registration, Wanted, Install!Finish, Install!Goto, Install!Hosts
<1>9. BirthsRight'
  BY <1>1, <1>2 DEF Install!TypeOK, BirthsRight, Install!Finish, Install!Goto, Install!Hosts
<1>10. outside' \in Nat /\ (settings' = {} \/ \E x \in Records \cup {Other} : settings' = {x})
  BY <1>1 DEF InstallInv, Install!Finish, Install!Goto, Install!Hosts
<1>11. \A q \in Records : RunRight(q)'
  BY <1>3, <1>4, <1>5, <1>6, <1>7, OthersStay DEF RunRight
<1>. QED
  BY <1>2, <1>8, <1>9, <1>10, <1>11 DEF InstallInv

LEMMA PruneHolds ==
  ASSUME InstallInv, NEW r \in Records, Install!Prune(r)
  PROVE  InstallInv'
<1>1. Install!TypeOK /\ RunRight(r) /\ HostsRight /\ BirthsRight /\ host[r] \in Install!Hosts
      /\ step[r] \notin {"idle", "done", "dead"} /\ lock[host[r]] = r
  BY InstallAssumption DEF InstallInv, Install!TypeOK, RunRight, FoundRight, Running, Install!Prune, Install!Superfluous, Install!Siblings, Install!Goto, Install!Works, Install!Fails, Install!Hosts
<1>2. Install!TypeOK'
  BY <1>1 DEF Install!TypeOK, Install!Prune, Install!Superfluous, Install!Siblings,
       Install!Goto, Install!Works, Install!Fails, Install!Hosts
<1>3. Apart(r)
  BY <1>1 DEF Install!TypeOK, Apart, Install!Prune, Install!Superfluous, Install!Siblings,
       Install!Goto, Install!Works, Install!Fails, Install!Hosts
<1>4. FlagsRight(r)'
  BY <1>1, <1>2, LogAssumption, InstallAssumption DEF Install!TypeOK, RunRight, FlagsRight,
       FoundRight, Preparing, Between, Undoing, Ending, Running, Registration, Wanted,
       Install!Prune, Install!Superfluous, Install!Siblings, Install!Goto, Install!Works,
       Install!Fails, Install!Hosts
<1>5. FoundRight(r)'
  BY <1>1, <1>2, LogAssumption, InstallAssumption DEF Install!TypeOK, RunRight, FlagsRight,
       FoundRight, OwnRight, HostsRight, Preparing, Between, Undoing, Ending, Running,
       Registration, Wanted, Install!Prune, Install!Superfluous, Install!Siblings,
       Install!Goto, Install!Works, Install!Fails, Install!Hosts
<1>6. OwnRight(r)'
  <2>1. /\ step'[r] = "exit" /\ succeeded'[r] /\ host' = host /\ registered' = registered
        /\ before' = before /\ what' = what
    BY <1>1 DEF RunRight, FlagsRight, Install!TypeOK, Install!Prune, Install!Goto
  <2>2. PICK S \in SUBSET Install!Superfluous(r), left \in {"none", "partial"} :
           runtime' = [g \in Records |-> IF g \in S THEN left ELSE runtime[g]]
    BY DEF Install!Prune
  <2>3. runtime'[r] = runtime[r]
    BY <2>2 DEF Install!Superfluous
  <2>4. ASSUME runtime[r] # "none" /\ \E g \in Records \ {r} : host[g] = host[r] /\ runtime[g] # "none"
        PROVE  \E g \in Records \ {r} : host'[g] = host'[r] /\ runtime'[g] # "none"
    <3>1. PICK g \in Install!Siblings(r) \ {r} : g \in Install!Newest(Install!Siblings(r) \ {r})
      <4>. DEFINE T == Install!Siblings(r) \ {r}
      <4>1. T # {} /\ T \subseteq Records /\ \A g \in T : runtime[g] # "none"
        BY <2>4 DEF Install!Siblings
      <4>. QED
        BY <1>1, <4>1, NewestIs DEF Install!Newest
    <3>2. runtime'[g] = runtime[g]
      BY <2>2, <3>1 DEF Install!Superfluous, Install!Siblings
    <3>. QED
      BY <2>1, <3>1, <3>2 DEF Install!Siblings
  <2>5. Registration(r)' = Registration(r) /\ step[r] = "prune"
    BY <2>1 DEF Registration, Install!Prune
  <2>. QED
    BY <1>1, <2>1, <2>3, <2>4, <2>5 DEF RunRight, OwnRight, FlagsRight
<1>7. AloneRight(r)'
  BY <1>1, <1>2, LogAssumption, InstallAssumption DEF Install!TypeOK, RunRight, FlagsRight,
       FoundRight, OwnRight, AloneRight, HostsRight, Preparing, Between, Undoing, Ending,
       Running, Registration, Wanted, Install!Prune, Install!Superfluous, Install!Siblings,
       Install!Goto, Install!Works, Install!Fails, Install!Hosts
<1>8. HostsRight'
  <2>1. registered' = registered /\ host' = host /\ outside' = outside /\ origin' = origin
    BY DEF Install!Prune
  <2>2. PICK S \in SUBSET Install!Superfluous(r), left \in {"none", "partial"} :
           runtime' = [g \in Records |-> IF g \in S THEN left ELSE runtime[g]]
    BY DEF Install!Prune
  <2>3. \A g \in S : g \in Records /\ host[g] = host[r] /\ g # r
    BY DEF Install!Superfluous, Install!Siblings
  <2>4. ASSUME NEW h \in Install!Hosts, registered[h] \in Records
        PROVE  registered[h] \notin S
    BY <1>1, <2>3, <2>4 DEF RunRight, OwnRight, HostsRight, Registration, Install!Prune
  <2>8. ASSUME NEW h \in Install!Hosts, registered'[h] \in Records
        PROVE  runtime'[registered'[h]] = "complete" /\ host'[registered'[h]] = h
    BY <1>1, <2>1, <2>2, <2>4, <2>8, LogAssumption, InstallAssumption DEF Install!TypeOK, HostsRight
  <2>9. ASSUME NEW h \in Install!Hosts, outside' = 0
        PROVE  registered'[h] # Other /\ origin'[h] # Other
    BY <1>1, <2>1, <2>9, LogAssumption, InstallAssumption DEF Install!TypeOK, HostsRight
  <2>. QED
    BY <2>8, <2>9 DEF HostsRight
<1>9. BirthsRight'
  BY <1>1, <1>2 DEF Install!TypeOK, BirthsRight, Install!Prune, Install!Superfluous,
       Install!Siblings, Install!Goto, Install!Works, Install!Fails, Install!Hosts
<1>10. outside' \in Nat /\ (settings' = {} \/ \E x \in Records \cup {Other} : settings' = {x})
  BY <1>1 DEF InstallInv, Install!Prune, Install!Superfluous, Install!Siblings,
       Install!Goto, Install!Works, Install!Fails, Install!Hosts
<1>11. \A q \in Records : RunRight(q)'
  BY <1>3, <1>4, <1>5, <1>6, <1>7, OthersStay DEF RunRight
<1>. QED
  BY <1>2, <1>8, <1>9, <1>10, <1>11 DEF InstallInv

LEMMA ExitHolds ==
  ASSUME InstallInv, NEW r \in Records, Install!Exit(r)
  PROVE  InstallInv'
<1>1. Install!TypeOK /\ RunRight(r) /\ HostsRight /\ BirthsRight /\ host[r] \in Install!Hosts
      /\ step[r] \notin {"idle", "done", "dead"} /\ lock[host[r]] = r
  BY InstallAssumption DEF InstallInv, Install!TypeOK, RunRight, FoundRight, Running, Install!Exit, Install!Goto, Install!Hosts
<1>2. Install!TypeOK'
  BY <1>1 DEF Install!TypeOK, Install!Exit, Install!Goto, Install!Hosts
<1>3. Apart(r)
  BY <1>1 DEF Install!TypeOK, Apart, Install!Exit, Install!Goto, Install!Hosts
<1>4. FlagsRight(r)'
  BY <1>1, <1>2, LogAssumption, InstallAssumption DEF Install!TypeOK, RunRight, FlagsRight,
       FoundRight, Preparing, Between, Undoing, Ending, Running, Registration, Wanted,
       Install!Exit, Install!Goto, Install!Hosts
<1>5. FoundRight(r)'
  BY <1>1, <1>2, LogAssumption, InstallAssumption DEF Install!TypeOK, RunRight, FlagsRight,
       FoundRight, OwnRight, HostsRight, Preparing, Between, Undoing, Ending, Running,
       Registration, Wanted, Install!Exit, Install!Goto, Install!Hosts
<1>6. OwnRight(r)'
  BY <1>1, <1>2, LogAssumption, InstallAssumption DEF Install!TypeOK, RunRight, FlagsRight,
       FoundRight, OwnRight, Preparing, Between, Undoing, Ending, Running, Registration,
       Wanted, Install!Exit, Install!Goto, Install!Hosts
<1>7. AloneRight(r)'
  BY <1>1, <1>2, LogAssumption, InstallAssumption DEF Install!TypeOK, RunRight, FlagsRight,
       FoundRight, OwnRight, AloneRight, HostsRight, Preparing, Between, Undoing, Ending,
       Running, Registration, Wanted, Install!Exit, Install!Goto, Install!Hosts
<1>8. HostsRight'
  BY <1>1, <1>2, LogAssumption, InstallAssumption DEF Install!TypeOK, RunRight, FlagsRight,
       FoundRight, OwnRight, AloneRight, HostsRight, Preparing, Between, Undoing, Ending,
       Running, Registration, Wanted, Install!Exit, Install!Goto, Install!Hosts
<1>9. BirthsRight'
  BY <1>1, <1>2 DEF Install!TypeOK, BirthsRight, Install!Exit, Install!Goto, Install!Hosts
<1>10. outside' \in Nat /\ (settings' = {} \/ \E x \in Records \cup {Other} : settings' = {x})
  BY <1>1 DEF InstallInv, Install!Exit, Install!Goto, Install!Hosts
<1>11. \A q \in Records : RunRight(q)'
  BY <1>3, <1>4, <1>5, <1>6, <1>7, OthersStay DEF RunRight
<1>. QED
  BY <1>2, <1>8, <1>9, <1>10, <1>11 DEF InstallInv

LEMMA RestoreHolds ==
  ASSUME InstallInv, NEW r \in Records, Install!Restore(r)
  PROVE  InstallInv'
<1>1. Install!TypeOK /\ RunRight(r) /\ HostsRight /\ BirthsRight /\ host[r] \in Install!Hosts
      /\ step[r] \notin {"idle", "done", "dead"} /\ lock[host[r]] = r
  BY InstallAssumption DEF InstallInv, Install!TypeOK, RunRight, FoundRight, Running, Install!Restore, Install!Goto, Install!Works, Install!Fails, Install!Current, Install!Register, Install!Preserve, Install!Hosts
<1>2. Install!TypeOK'
  <2>1. registered' \in [Install!Hosts -> Records \cup {None, Other}]
    BY <1>1 DEF Install!TypeOK, Install!Restore,
       Install!Goto, Install!Works, Install!Fails, Install!Refused, Install!Current, Install!Register, 
       Install!Preserve, Install!Gone, Install!Command, Install!Hosts
  <2>2. preserve' \in [Records -> BOOLEAN]
    BY <1>1 DEF Install!TypeOK, Install!Restore,
       Install!Goto, Install!Works, Install!Fails, Install!Refused, Install!Current, Install!Register, 
       Install!Preserve, Install!Gone, Install!Command, Install!Hosts
  <2>3. step' \in [Records -> {"idle", "snapshot", "make", "build", "look", "publish",
                        "check", "remove", "gone", "add", "configure", "verify", "finish",
                        "prune", "exit", "restore", "again", "cleanup", "unlock", "done",
                        "dead"}]
    BY <1>1 DEF Install!TypeOK, Install!Restore,
       Install!Goto, Install!Works, Install!Fails, Install!Refused, Install!Current, Install!Register, 
       Install!Preserve, Install!Gone, Install!Command, Install!Hosts
  <2>. QED
    BY <1>1, <2>1, <2>2, <2>3 DEF Install!TypeOK, Install!Restore,
       Install!Goto, Install!Works, Install!Fails, Install!Refused, Install!Current, Install!Register, 
       Install!Preserve, Install!Gone, Install!Command, Install!Hosts
<1>3. Apart(r)
  BY <1>1 DEF Install!TypeOK, Apart, Install!Restore, Install!Goto, Install!Works,
       Install!Fails, Install!Current, Install!Register, Install!Preserve, Install!Hosts
<1>4. FlagsRight(r)'
  BY <1>1, <1>2, LogAssumption, InstallAssumption DEF Install!TypeOK, RunRight, FlagsRight,
       FoundRight, Preparing, Between, Undoing, Ending, Running, Registration, Wanted,
       Install!Restore, Install!Goto, Install!Works, Install!Fails, Install!Current,
       Install!Register, Install!Preserve, Install!Hosts
<1>5. FoundRight(r)'
  BY <1>1, <1>2, LogAssumption, InstallAssumption DEF Install!TypeOK, RunRight, FlagsRight,
       FoundRight, OwnRight, HostsRight, Preparing, Between, Undoing, Ending, Running,
       Registration, Wanted, Install!Restore, Install!Goto, Install!Works, Install!Fails,
       Install!Current, Install!Register, Install!Preserve, Install!Hosts
<1>6. OwnRight(r)'
  BY <1>1, <1>2, LogAssumption, InstallAssumption DEF Install!TypeOK, RunRight, FlagsRight,
       FoundRight, OwnRight, Preparing, Between, Undoing, Ending, Running, Registration,
       Wanted, Install!Restore, Install!Goto, Install!Works, Install!Fails, Install!Current,
       Install!Register, Install!Preserve, Install!Hosts
<1>7. AloneRight(r)'
  BY <1>1, <1>2, LogAssumption, InstallAssumption DEF Install!TypeOK, RunRight, FlagsRight,
       FoundRight, OwnRight, AloneRight, HostsRight, Preparing, Between, Undoing, Ending,
       Running, Registration, Wanted, Install!Restore, Install!Goto, Install!Works,
       Install!Fails, Install!Current, Install!Register, Install!Preserve, Install!Hosts
<1>8. HostsRight'
  <2>1. runtime' = runtime /\ host' = host /\ outside' = outside /\ origin' = origin
    BY DEF Install!Restore
  <2>2. registered' = registered \/ registered' = [registered EXCEPT ![host[r]] = None]
          \/ registered' = [registered EXCEPT ![host[r]] = before[r]]
    BY DEF Install!Restore, Install!Register
  <2>3. ~succeeded[r] /\ Running(r)
    BY <1>1 DEF RunRight, FlagsRight, Running, Ending, Install!Restore
  <2>4. before[r] \in Records => runtime[before[r]] = "complete" /\ host[before[r]] = host[r]
    BY <1>1, <2>3 DEF RunRight, FoundRight
  <2>5. outside = 0 => before[r] # Other
    BY <1>1, <2>3 DEF RunRight, AloneRight, HostsRight, Undoing, Install!Restore
  <2>8. ASSUME NEW h \in Install!Hosts, registered'[h] \in Records
        PROVE  runtime'[registered'[h]] = "complete" /\ host'[registered'[h]] = h
    BY <1>1, <2>1, <2>2, <2>4, <2>8, LogAssumption, InstallAssumption DEF Install!TypeOK, HostsRight
  <2>9. ASSUME NEW h \in Install!Hosts, outside' = 0
        PROVE  registered'[h] # Other /\ origin'[h] # Other
    BY <1>1, <2>1, <2>2, <2>5, <2>9, LogAssumption, InstallAssumption DEF Install!TypeOK, HostsRight
  <2>. QED
    BY <2>8, <2>9 DEF HostsRight
<1>9. BirthsRight'
  BY <1>1, <1>2 DEF Install!TypeOK, BirthsRight, Install!Restore, Install!Goto,
       Install!Works, Install!Fails, Install!Current, Install!Register, Install!Preserve,
       Install!Hosts
<1>10. outside' \in Nat /\ (settings' = {} \/ \E x \in Records \cup {Other} : settings' = {x})
  BY <1>1 DEF InstallInv, Install!Restore, Install!Goto, Install!Works, Install!Fails,
       Install!Current, Install!Register, Install!Preserve, Install!Hosts
<1>11. \A q \in Records : RunRight(q)'
  BY <1>3, <1>4, <1>5, <1>6, <1>7, OthersStay DEF RunRight
<1>. QED
  BY <1>2, <1>8, <1>9, <1>10, <1>11 DEF InstallInv

LEMMA AddAgainHolds ==
  ASSUME InstallInv, NEW r \in Records, Install!AddAgain(r)
  PROVE  InstallInv'
<1>1. Install!TypeOK /\ RunRight(r) /\ HostsRight /\ BirthsRight /\ host[r] \in Install!Hosts
      /\ step[r] \notin {"idle", "done", "dead"} /\ lock[host[r]] = r
  BY InstallAssumption DEF InstallInv, Install!TypeOK, RunRight, FoundRight, Running, Install!AddAgain, Install!Goto, Install!Works, Install!Fails, Install!Refused, Install!Current, Install!Register, Install!Preserve, Install!Hosts
<1>2. Install!TypeOK'
  <2>1. registered' \in [Install!Hosts -> Records \cup {None, Other}]
    BY <1>1 DEF Install!TypeOK, Install!AddAgain,
       Install!Goto, Install!Works, Install!Fails, Install!Refused, Install!Current, Install!Register, 
       Install!Preserve, Install!Gone, Install!Command, Install!Hosts
  <2>2. preserve' \in [Records -> BOOLEAN]
    BY <1>1 DEF Install!TypeOK, Install!AddAgain,
       Install!Goto, Install!Works, Install!Fails, Install!Refused, Install!Current, Install!Register, 
       Install!Preserve, Install!Gone, Install!Command, Install!Hosts
  <2>3. step' \in [Records -> {"idle", "snapshot", "make", "build", "look", "publish",
                        "check", "remove", "gone", "add", "configure", "verify", "finish",
                        "prune", "exit", "restore", "again", "cleanup", "unlock", "done",
                        "dead"}]
    BY <1>1 DEF Install!TypeOK, Install!AddAgain,
       Install!Goto, Install!Works, Install!Fails, Install!Refused, Install!Current, Install!Register, 
       Install!Preserve, Install!Gone, Install!Command, Install!Hosts
  <2>. QED
    BY <1>1, <2>1, <2>2, <2>3 DEF Install!TypeOK, Install!AddAgain,
       Install!Goto, Install!Works, Install!Fails, Install!Refused, Install!Current, Install!Register, 
       Install!Preserve, Install!Gone, Install!Command, Install!Hosts
<1>3. Apart(r)
  BY <1>1 DEF Install!TypeOK, Apart, Install!AddAgain, Install!Goto, Install!Works,
       Install!Fails, Install!Refused, Install!Current, Install!Register, Install!Preserve,
       Install!Hosts
<1>4. FlagsRight(r)'
  BY <1>1, <1>2, LogAssumption, InstallAssumption DEF Install!TypeOK, RunRight, FlagsRight,
       FoundRight, Preparing, Between, Undoing, Ending, Running, Registration, Wanted,
       Install!AddAgain, Install!Goto, Install!Works, Install!Fails, Install!Refused,
       Install!Current, Install!Register, Install!Preserve, Install!Hosts
<1>5. FoundRight(r)'
  BY <1>1, <1>2, LogAssumption, InstallAssumption DEF Install!TypeOK, RunRight, FlagsRight,
       FoundRight, OwnRight, HostsRight, Preparing, Between, Undoing, Ending, Running,
       Registration, Wanted, Install!AddAgain, Install!Goto, Install!Works, Install!Fails,
       Install!Refused, Install!Current, Install!Register, Install!Preserve, Install!Hosts
<1>6. OwnRight(r)'
  BY <1>1, <1>2, LogAssumption, InstallAssumption DEF Install!TypeOK, RunRight, FlagsRight,
       FoundRight, OwnRight, Preparing, Between, Undoing, Ending, Running, Registration,
       Wanted, Install!AddAgain, Install!Goto, Install!Works, Install!Fails,
       Install!Refused, Install!Current, Install!Register, Install!Preserve, Install!Hosts
<1>7. AloneRight(r)'
  BY <1>1, <1>2, LogAssumption, InstallAssumption DEF Install!TypeOK, RunRight, FlagsRight,
       FoundRight, OwnRight, AloneRight, HostsRight, Preparing, Between, Undoing, Ending,
       Running, Registration, Wanted, Install!AddAgain, Install!Goto, Install!Works,
       Install!Fails, Install!Refused, Install!Current, Install!Register, Install!Preserve,
       Install!Hosts
<1>8. HostsRight'
  <2>1. runtime' = runtime /\ host' = host /\ outside' = outside /\ origin' = origin
    BY DEF Install!AddAgain
  <2>2. registered' = registered \/ registered' = [registered EXCEPT ![host[r]] = None]
          \/ registered' = [registered EXCEPT ![host[r]] = before[r]]
    BY DEF Install!AddAgain, Install!Register
  <2>3. ~succeeded[r] /\ Running(r)
    BY <1>1 DEF RunRight, FlagsRight, Running, Ending, Install!AddAgain
  <2>4. before[r] \in Records => runtime[before[r]] = "complete" /\ host[before[r]] = host[r]
    BY <1>1, <2>3 DEF RunRight, FoundRight
  <2>5. outside = 0 => before[r] # Other
    BY <1>1, <2>3 DEF RunRight, AloneRight, HostsRight, Undoing, Install!AddAgain
  <2>8. ASSUME NEW h \in Install!Hosts, registered'[h] \in Records
        PROVE  runtime'[registered'[h]] = "complete" /\ host'[registered'[h]] = h
    BY <1>1, <2>1, <2>2, <2>4, <2>8, LogAssumption, InstallAssumption DEF Install!TypeOK, HostsRight
  <2>9. ASSUME NEW h \in Install!Hosts, outside' = 0
        PROVE  registered'[h] # Other /\ origin'[h] # Other
    BY <1>1, <2>1, <2>2, <2>5, <2>9, LogAssumption, InstallAssumption DEF Install!TypeOK, HostsRight
  <2>. QED
    BY <2>8, <2>9 DEF HostsRight
<1>9. BirthsRight'
  BY <1>1, <1>2 DEF Install!TypeOK, BirthsRight, Install!AddAgain, Install!Goto,
       Install!Works, Install!Fails, Install!Refused, Install!Current, Install!Register,
       Install!Preserve, Install!Hosts
<1>10. outside' \in Nat /\ (settings' = {} \/ \E x \in Records \cup {Other} : settings' = {x})
  BY <1>1 DEF InstallInv, Install!AddAgain, Install!Goto, Install!Works, Install!Fails,
       Install!Refused, Install!Current, Install!Register, Install!Preserve, Install!Hosts
<1>11. \A q \in Records : RunRight(q)'
  BY <1>3, <1>4, <1>5, <1>6, <1>7, OthersStay DEF RunRight
<1>. QED
  BY <1>2, <1>8, <1>9, <1>10, <1>11 DEF InstallInv

LEMMA CleanUpHolds ==
  ASSUME InstallInv, NEW r \in Records, Install!CleanUp(r)
  PROVE  InstallInv'
<1>1. Install!TypeOK /\ RunRight(r) /\ HostsRight /\ BirthsRight /\ host[r] \in Install!Hosts
      /\ step[r] \notin {"idle", "done", "dead"} /\ lock[host[r]] = r
  BY InstallAssumption DEF InstallInv, Install!TypeOK, RunRight, FoundRight, Running, Install!CleanUp, Install!Goto, Install!Works, Install!Fails, Install!Hosts
<1>2. Install!TypeOK'
  BY <1>1 DEF Install!TypeOK, Install!CleanUp, Install!Goto, Install!Works, Install!Fails,
       Install!Hosts
<1>3. Apart(r)
  BY <1>1 DEF Install!TypeOK, Apart, Install!CleanUp, Install!Goto, Install!Works,
       Install!Fails, Install!Hosts
<1>4. FlagsRight(r)'
  BY <1>1, <1>2, LogAssumption, InstallAssumption DEF Install!TypeOK, RunRight, FlagsRight,
       FoundRight, Preparing, Between, Undoing, Ending, Running, Registration, Wanted,
       Install!CleanUp, Install!Goto, Install!Works, Install!Fails, Install!Hosts
<1>5. FoundRight(r)'
  BY <1>1, <1>2, LogAssumption, InstallAssumption DEF Install!TypeOK, RunRight, FlagsRight,
       FoundRight, OwnRight, HostsRight, Preparing, Between, Undoing, Ending, Running,
       Registration, Wanted, Install!CleanUp, Install!Goto, Install!Works, Install!Fails,
       Install!Hosts
<1>6. OwnRight(r)'
  BY <1>1, <1>2, LogAssumption, InstallAssumption DEF Install!TypeOK, RunRight, FlagsRight,
       FoundRight, OwnRight, Preparing, Between, Undoing, Ending, Running, Registration,
       Wanted, Install!CleanUp, Install!Goto, Install!Works, Install!Fails, Install!Hosts
<1>7. AloneRight(r)'
  BY <1>1, <1>2, LogAssumption, InstallAssumption DEF Install!TypeOK, RunRight, FlagsRight,
       FoundRight, OwnRight, AloneRight, HostsRight, Preparing, Between, Undoing, Ending,
       Running, Registration, Wanted, Install!CleanUp, Install!Goto, Install!Works,
       Install!Fails, Install!Hosts
<1>8. HostsRight'
  BY <1>1, <1>2, LogAssumption, InstallAssumption DEF Install!TypeOK, RunRight, FlagsRight,
       FoundRight, OwnRight, AloneRight, HostsRight, Preparing, Between, Undoing, Ending,
       Running, Registration, Wanted, Install!CleanUp, Install!Goto, Install!Works,
       Install!Fails, Install!Hosts
<1>9. BirthsRight'
  BY <1>1, <1>2 DEF Install!TypeOK, BirthsRight, Install!CleanUp, Install!Goto,
       Install!Works, Install!Fails, Install!Hosts
<1>10. outside' \in Nat /\ (settings' = {} \/ \E x \in Records \cup {Other} : settings' = {x})
  BY <1>1 DEF InstallInv, Install!CleanUp, Install!Goto, Install!Works, Install!Fails,
       Install!Hosts
<1>11. \A q \in Records : RunRight(q)'
  BY <1>3, <1>4, <1>5, <1>6, <1>7, OthersStay DEF RunRight
<1>. QED
  BY <1>2, <1>8, <1>9, <1>10, <1>11 DEF InstallInv

LEMMA UnlockHolds ==
  ASSUME InstallInv, NEW r \in Records, Install!Unlock(r)
  PROVE  InstallInv'
<1>1. Install!TypeOK /\ RunRight(r) /\ HostsRight /\ BirthsRight /\ host[r] \in Install!Hosts
      /\ step[r] \notin {"idle", "done", "dead"} /\ lock[host[r]] = r
  BY InstallAssumption DEF InstallInv, Install!TypeOK, RunRight, FoundRight, Running, Install!Unlock, Install!Goto, Install!Gone, Install!Hosts
<1>2. Install!TypeOK'
  BY <1>1 DEF Install!TypeOK, Install!Unlock, Install!Goto, Install!Gone, Install!Hosts
<1>3. Apart(r)
  BY <1>1 DEF Install!TypeOK, Apart, Install!Unlock, Install!Goto, Install!Gone,
       Install!Hosts
<1>4. FlagsRight(r)'
  BY <1>1, <1>2, LogAssumption, InstallAssumption DEF Install!TypeOK, RunRight, FlagsRight,
       FoundRight, Preparing, Between, Undoing, Ending, Running, Registration, Wanted,
       Install!Unlock, Install!Goto, Install!Gone, Install!Hosts
<1>5. FoundRight(r)'
  BY <1>1, <1>2, LogAssumption, InstallAssumption DEF Install!TypeOK, RunRight, FlagsRight,
       FoundRight, OwnRight, HostsRight, Preparing, Between, Undoing, Ending, Running,
       Registration, Wanted, Install!Unlock, Install!Goto, Install!Gone, Install!Hosts
<1>6. OwnRight(r)'
  BY <1>1, <1>2, LogAssumption, InstallAssumption DEF Install!TypeOK, RunRight, FlagsRight,
       FoundRight, OwnRight, Preparing, Between, Undoing, Ending, Running, Registration,
       Wanted, Install!Unlock, Install!Goto, Install!Gone, Install!Hosts
<1>7. AloneRight(r)'
  BY <1>1, <1>2, LogAssumption, InstallAssumption DEF Install!TypeOK, RunRight, FlagsRight,
       FoundRight, OwnRight, AloneRight, HostsRight, Preparing, Between, Undoing, Ending,
       Running, Registration, Wanted, Install!Unlock, Install!Goto, Install!Gone,
       Install!Hosts
<1>8. HostsRight'
  BY <1>1, <1>2, LogAssumption, InstallAssumption DEF Install!TypeOK, RunRight, FlagsRight,
       FoundRight, OwnRight, AloneRight, HostsRight, Preparing, Between, Undoing, Ending,
       Running, Registration, Wanted, Install!Unlock, Install!Goto, Install!Gone,
       Install!Hosts
<1>9. BirthsRight'
  BY <1>1, <1>2 DEF Install!TypeOK, BirthsRight, Install!Unlock, Install!Goto, Install!Gone,
       Install!Hosts
<1>10. outside' \in Nat /\ (settings' = {} \/ \E x \in Records \cup {Other} : settings' = {x})
  BY <1>1 DEF InstallInv, Install!Unlock, Install!Goto, Install!Gone, Install!Hosts
<1>11. \A q \in Records : RunRight(q)'
  BY <1>3, <1>4, <1>5, <1>6, <1>7, OthersStay DEF RunRight
<1>. QED
  BY <1>2, <1>8, <1>9, <1>10, <1>11 DEF InstallInv

LEMMA SignalHolds ==
  ASSUME InstallInv, NEW r \in Records, Install!Signal(r)
  PROVE  InstallInv'
<1>1. Install!TypeOK /\ RunRight(r) /\ HostsRight /\ BirthsRight /\ host[r] \in Install!Hosts
      /\ step[r] \notin {"idle", "done", "dead"} /\ lock[host[r]] = r
  BY InstallAssumption DEF InstallInv, Install!TypeOK, RunRight, FoundRight, Running, Install!Signal, Install!Interrupted, Install!Goto, Install!Fails, Install!Gone, Install!Hosts
<1>2. Install!TypeOK'
  <2>1. host' \in [Records -> Install!Hosts]
    BY <1>1 DEF Install!TypeOK, Install!Signal, Install!Interrupted,
       Install!Goto, Install!Works, Install!Fails, Install!Refused, Install!Current, Install!Register, 
       Install!Preserve, Install!Gone, Install!Command, Install!Hosts
  <2>2. what' \in [Records -> {"install", "uninstall"}]
    BY <1>1 DEF Install!TypeOK, Install!Signal, Install!Interrupted,
       Install!Goto, Install!Works, Install!Fails, Install!Refused, Install!Current, Install!Register, 
       Install!Preserve, Install!Gone, Install!Command, Install!Hosts
  <2>3. step' \in [Records -> {"idle", "snapshot", "make", "build", "look", "publish",
                        "check", "remove", "gone", "add", "configure", "verify", "finish",
                        "prune", "exit", "restore", "again", "cleanup", "unlock", "done",
                        "dead"}]
    BY <1>1 DEF Install!TypeOK, Install!Signal, Install!Interrupted,
       Install!Goto, Install!Works, Install!Fails, Install!Refused, Install!Current, Install!Register, 
       Install!Preserve, Install!Gone, Install!Command, Install!Hosts
  <2>4. before' \in [Records -> Records \cup {None, Other}]
    BY <1>1 DEF Install!TypeOK, Install!Signal, Install!Interrupted,
       Install!Goto, Install!Works, Install!Fails, Install!Refused, Install!Current, Install!Register, 
       Install!Preserve, Install!Gone, Install!Command, Install!Hosts
  <2>5. switching' \in [Records -> BOOLEAN]
    BY <1>1 DEF Install!TypeOK, Install!Signal, Install!Interrupted,
       Install!Goto, Install!Works, Install!Fails, Install!Refused, Install!Current, Install!Register, 
       Install!Preserve, Install!Gone, Install!Command, Install!Hosts
  <2>6. preserve' \in [Records -> BOOLEAN]
    BY <1>1 DEF Install!TypeOK, Install!Signal, Install!Interrupted,
       Install!Goto, Install!Works, Install!Fails, Install!Refused, Install!Current, Install!Register, 
       Install!Preserve, Install!Gone, Install!Command, Install!Hosts
  <2>7. succeeded' \in [Records -> BOOLEAN]
    BY <1>1 DEF Install!TypeOK, Install!Signal, Install!Interrupted,
       Install!Goto, Install!Works, Install!Fails, Install!Refused, Install!Current, Install!Register, 
       Install!Preserve, Install!Gone, Install!Command, Install!Hosts
  <2>8. deaf' \in [Records -> BOOLEAN]
    BY <1>1 DEF Install!TypeOK, Install!Signal, Install!Interrupted,
       Install!Goto, Install!Works, Install!Fails, Install!Refused, Install!Current, Install!Register, 
       Install!Preserve, Install!Gone, Install!Command, Install!Hosts
  <2>. QED
    BY <1>1, <2>1, <2>2, <2>3, <2>4, <2>5, <2>6, <2>7, <2>8 DEF Install!TypeOK, Install!Signal, Install!Interrupted,
       Install!Goto, Install!Works, Install!Fails, Install!Refused, Install!Current, Install!Register, 
       Install!Preserve, Install!Gone, Install!Command, Install!Hosts
<1>3. Apart(r)
  BY <1>1 DEF Install!TypeOK, Apart, Install!Signal, Install!Interrupted, Install!Goto,
       Install!Fails, Install!Gone, Install!Hosts
<1>4. FlagsRight(r)'
  BY <1>1, <1>2, LogAssumption, InstallAssumption DEF Install!TypeOK, RunRight, FlagsRight,
       FoundRight, Preparing, Between, Undoing, Ending, Running, Registration, Wanted,
       Install!Signal, Install!Interrupted, Install!Goto, Install!Fails, Install!Gone,
       Install!Hosts
<1>5. FoundRight(r)'
  BY <1>1, <1>2, LogAssumption, InstallAssumption DEF Install!TypeOK, RunRight, FlagsRight,
       FoundRight, OwnRight, HostsRight, Preparing, Between, Undoing, Ending, Running,
       Registration, Wanted, Install!Signal, Install!Interrupted, Install!Goto,
       Install!Fails, Install!Gone, Install!Hosts
<1>6. OwnRight(r)'
  BY <1>1, <1>2, LogAssumption, InstallAssumption DEF Install!TypeOK, RunRight, FlagsRight,
       FoundRight, OwnRight, Preparing, Between, Undoing, Ending, Running, Registration,
       Wanted, Install!Signal, Install!Interrupted, Install!Goto, Install!Fails,
       Install!Gone, Install!Hosts
<1>7. AloneRight(r)'
  BY <1>1, <1>2, LogAssumption, InstallAssumption DEF Install!TypeOK, RunRight, FlagsRight,
       FoundRight, OwnRight, AloneRight, HostsRight, Preparing, Between, Undoing, Ending,
       Running, Registration, Wanted, Install!Signal, Install!Interrupted, Install!Goto,
       Install!Fails, Install!Gone, Install!Hosts
<1>8. HostsRight'
  BY <1>1, <1>2, LogAssumption, InstallAssumption DEF Install!TypeOK, RunRight, FlagsRight,
       FoundRight, OwnRight, AloneRight, HostsRight, Preparing, Between, Undoing, Ending,
       Running, Registration, Wanted, Install!Signal, Install!Interrupted, Install!Goto,
       Install!Fails, Install!Gone, Install!Hosts
<1>9. BirthsRight'
  BY <1>1, <1>2 DEF Install!TypeOK, BirthsRight, Install!Signal, Install!Interrupted,
       Install!Goto, Install!Fails, Install!Gone, Install!Hosts
<1>10. outside' \in Nat /\ (settings' = {} \/ \E x \in Records \cup {Other} : settings' = {x})
  BY <1>1 DEF InstallInv, Install!Signal, Install!Interrupted, Install!Goto, Install!Fails,
       Install!Gone, Install!Hosts
<1>11. \A q \in Records : RunRight(q)'
  BY <1>3, <1>4, <1>5, <1>6, <1>7, OthersStay DEF RunRight
<1>. QED
  BY <1>2, <1>8, <1>9, <1>10, <1>11 DEF InstallInv

LEMMA KillHolds ==
  ASSUME InstallInv, NEW r \in Records, Install!Kill(r)
  PROVE  InstallInv'
<1>1. Install!TypeOK /\ RunRight(r) /\ HostsRight /\ BirthsRight /\ host[r] \in Install!Hosts
      /\ step[r] \notin {"idle", "done", "dead"} /\ lock[host[r]] = r
  BY InstallAssumption DEF InstallInv, Install!TypeOK, RunRight, FoundRight, Running, Install!Kill, Install!Interrupted, Install!Goto, Install!Fails, Install!Gone, Install!Hosts
<1>2. Install!TypeOK'
  BY <1>1 DEF Install!TypeOK, Install!Kill, Install!Interrupted, Install!Goto,
       Install!Fails, Install!Gone, Install!Hosts
<1>3. Apart(r)
  BY <1>1 DEF Install!TypeOK, Apart, Install!Kill, Install!Interrupted, Install!Goto,
       Install!Fails, Install!Gone, Install!Hosts
<1>4. FlagsRight(r)'
  BY <1>1, <1>2, LogAssumption, InstallAssumption DEF Install!TypeOK, RunRight, FlagsRight,
       FoundRight, Preparing, Between, Undoing, Ending, Running, Registration, Wanted,
       Install!Kill, Install!Interrupted, Install!Goto, Install!Fails, Install!Gone,
       Install!Hosts
<1>5. FoundRight(r)'
  BY <1>1, <1>2, LogAssumption, InstallAssumption DEF Install!TypeOK, RunRight, FlagsRight,
       FoundRight, OwnRight, HostsRight, Preparing, Between, Undoing, Ending, Running,
       Registration, Wanted, Install!Kill, Install!Interrupted, Install!Goto, Install!Fails,
       Install!Gone, Install!Hosts
<1>6. OwnRight(r)'
  BY <1>1, <1>2, LogAssumption, InstallAssumption DEF Install!TypeOK, RunRight, FlagsRight,
       FoundRight, OwnRight, Preparing, Between, Undoing, Ending, Running, Registration,
       Wanted, Install!Kill, Install!Interrupted, Install!Goto, Install!Fails, Install!Gone,
       Install!Hosts
<1>7. AloneRight(r)'
  BY <1>1, <1>2, LogAssumption, InstallAssumption DEF Install!TypeOK, RunRight, FlagsRight,
       FoundRight, OwnRight, AloneRight, HostsRight, Preparing, Between, Undoing, Ending,
       Running, Registration, Wanted, Install!Kill, Install!Interrupted, Install!Goto,
       Install!Fails, Install!Gone, Install!Hosts
<1>8. HostsRight'
  BY <1>1, <1>2, LogAssumption, InstallAssumption DEF Install!TypeOK, RunRight, FlagsRight,
       FoundRight, OwnRight, AloneRight, HostsRight, Preparing, Between, Undoing, Ending,
       Running, Registration, Wanted, Install!Kill, Install!Interrupted, Install!Goto,
       Install!Fails, Install!Gone, Install!Hosts
<1>9. BirthsRight'
  BY <1>1, <1>2 DEF Install!TypeOK, BirthsRight, Install!Kill, Install!Interrupted,
       Install!Goto, Install!Fails, Install!Gone, Install!Hosts
<1>10. outside' \in Nat /\ (settings' = {} \/ \E x \in Records \cup {Other} : settings' = {x})
  BY <1>1 DEF InstallInv, Install!Kill, Install!Interrupted, Install!Goto, Install!Fails,
       Install!Gone, Install!Hosts
<1>11. \A q \in Records : RunRight(q)'
  BY <1>3, <1>4, <1>5, <1>6, <1>7, OthersStay DEF RunRight
<1>. QED
  BY <1>2, <1>8, <1>9, <1>10, <1>11 DEF InstallInv

(* What others do that run on no host: they refuse, take or free a lock    *)
(* that is not another run's, or change what is registered.                *)
LEMMA BystanderStays ==
  ASSUME InstallInv, NEW q \in Records, runtime' = runtime,
         host'[q] = host[q] /\ what'[q] = what[q] /\ step'[q] = step[q],
         before'[q] = before[q] /\ switching'[q] = switching[q],
         preserve'[q] = preserve[q] /\ succeeded'[q] = succeeded[q] /\ deaf'[q] = deaf[q],
         \A g \in Records : runtime[g] # "none" => host'[g] = host[g],
         Running(q) => lock'[host[q]] = lock[host[q]] /\ origin'[host[q]] = origin[host[q]],
         \/ registered'[host[q]] = registered[host[q]] /\ outside' = outside
         \/ registered'[host[q]] \in {None, Other, registered[host[q]]} /\ outside' # 0
  PROVE  RunRight(q)'
<1>1. RunRight(q)
  BY DEF InstallInv
<1>2. FlagsRight(q)'
  BY <1>1 DEF RunRight, FlagsRight, Running
<1>3. FoundRight(q)'
  BY <1>1 DEF RunRight, FoundRight, Running
<1>4. OwnRight(q)'
  <2>1. Running(q)' <=> Running(q)
    BY DEF Running
  <2>2. Registration(q)' \in {None, Other, Registration(q)}
    BY DEF Registration
  <2>3. (\E g \in Records \ {q} : host[g] = host[q] /\ runtime[g] # "none") =>
           \E g \in Records \ {q} : host'[g] = host'[q] /\ runtime'[g] # "none"
    OBVIOUS
  <2>. QED
    BY <1>1, <2>1, <2>2, <2>3, LogAssumption, InstallAssumption DEF RunRight, OwnRight
<1>5. AloneRight(q)'
  BY <1>1 DEF RunRight, AloneRight, Running, Registration, Wanted
<1>. QED
  BY <1>2, <1>3, <1>4, <1>5 DEF RunRight

LEMMA RefuseHolds ==
  ASSUME InstallInv, NEW r \in Records, Install!Refuse(r)
  PROVE  InstallInv'
<1>1. Install!TypeOK /\ HostsRight /\ BirthsRight /\ outside \in Nat
  BY DEF InstallInv
<1>2. Install!TypeOK'
  <2>1. host' \in [Records -> Install!Hosts]
    BY <1>1 DEF Install!TypeOK, Install!Refuse,
       Install!Goto, Install!Works, Install!Fails, Install!Refused, Install!Current, Install!Register, 
       Install!Preserve, Install!Gone, Install!Command, Install!Hosts
  <2>2. what' \in [Records -> {"install", "uninstall"}]
    BY <1>1 DEF Install!TypeOK, Install!Refuse,
       Install!Goto, Install!Works, Install!Fails, Install!Refused, Install!Current, Install!Register, 
       Install!Preserve, Install!Gone, Install!Command, Install!Hosts
  <2>3. step' \in [Records -> {"idle", "snapshot", "make", "build", "look", "publish",
                        "check", "remove", "gone", "add", "configure", "verify", "finish",
                        "prune", "exit", "restore", "again", "cleanup", "unlock", "done",
                        "dead"}]
    BY <1>1 DEF Install!TypeOK, Install!Refuse,
       Install!Goto, Install!Works, Install!Fails, Install!Refused, Install!Current, Install!Register, 
       Install!Preserve, Install!Gone, Install!Command, Install!Hosts
  <2>4. before' \in [Records -> Records \cup {None, Other}]
    BY <1>1 DEF Install!TypeOK, Install!Refuse,
       Install!Goto, Install!Works, Install!Fails, Install!Refused, Install!Current, Install!Register, 
       Install!Preserve, Install!Gone, Install!Command, Install!Hosts
  <2>5. switching' \in [Records -> BOOLEAN]
    BY <1>1 DEF Install!TypeOK, Install!Refuse,
       Install!Goto, Install!Works, Install!Fails, Install!Refused, Install!Current, Install!Register, 
       Install!Preserve, Install!Gone, Install!Command, Install!Hosts
  <2>6. preserve' \in [Records -> BOOLEAN]
    BY <1>1 DEF Install!TypeOK, Install!Refuse,
       Install!Goto, Install!Works, Install!Fails, Install!Refused, Install!Current, Install!Register, 
       Install!Preserve, Install!Gone, Install!Command, Install!Hosts
  <2>7. succeeded' \in [Records -> BOOLEAN]
    BY <1>1 DEF Install!TypeOK, Install!Refuse,
       Install!Goto, Install!Works, Install!Fails, Install!Refused, Install!Current, Install!Register, 
       Install!Preserve, Install!Gone, Install!Command, Install!Hosts
  <2>8. deaf' \in [Records -> BOOLEAN]
    BY <1>1 DEF Install!TypeOK, Install!Refuse,
       Install!Goto, Install!Works, Install!Fails, Install!Refused, Install!Current, Install!Register, 
       Install!Preserve, Install!Gone, Install!Command, Install!Hosts
  <2>. QED
    BY <1>1, <2>1, <2>2, <2>3, <2>4, <2>5, <2>6, <2>7, <2>8 DEF Install!TypeOK, Install!Refuse,
       Install!Goto, Install!Works, Install!Fails, Install!Refused, Install!Current, Install!Register, 
       Install!Preserve, Install!Gone, Install!Command, Install!Hosts
<1>3. \A q \in Records \ {r} : RunRight(q)'
  <2>1. TAKE q \in Records \ {r}
  <2>. QED
    BY <1>1, BystanderStays DEF Install!TypeOK, Install!Refuse, Install!Gone, Install!Goto
<1>4. RunRight(r)'
  BY <1>1 DEF Install!TypeOK, RunRight, FlagsRight, FoundRight, OwnRight, AloneRight, Running,
     Preparing, Between, Undoing, Ending, Install!Refuse, Install!Gone, Install!Goto
<1>5. /\ HostsRight' /\ BirthsRight' /\ outside' \in Nat
      /\ settings' = settings
  BY <1>1 DEF HostsRight, BirthsRight, Install!Refuse
<1>. QED
  BY <1>2, <1>3, <1>4, <1>5 DEF InstallInv

LEMMA LockHolds ==
  ASSUME InstallInv, NEW r \in Records, Install!Lock(r)
  PROVE  InstallInv'
<1>1. /\ Install!TypeOK /\ HostsRight /\ BirthsRight /\ outside \in Nat /\ RunRight(r)
      /\ step[r] = "idle" /\ runtime[r] = "none"
  BY DEF InstallInv, RunRight, FlagsRight, Install!Lock
<1>2. PICK h \in Install!Hosts, w \in {"install", "uninstall"} :
        /\ host' = [host EXCEPT ![r] = h]
        /\ IF lock[h] = None
           THEN /\ lock' = [lock EXCEPT ![h] = r] /\ what' = [what EXCEPT ![r] = w]
                /\ origin' = [origin EXCEPT ![h] = registered[h]]
                /\ step' = [step EXCEPT ![r] = IF h = "claude" THEN "snapshot"
                              ELSE IF w = "install" THEN "make" ELSE "configure"]
           ELSE step' = [step EXCEPT ![r] = "done"] /\ UNCHANGED <<what, lock, origin>>
  BY DEF Install!Lock, Install!Goto
<1>3. UNCHANGED <<before, switching, preserve, succeeded, deaf, registered,
                  runtime, born, settings, faults, outside>>
  BY DEF Install!Lock
<1>4. Install!TypeOK'
  BY <1>1, <1>2, <1>3 DEF Install!TypeOK
<1>5. \A q \in Records \ {r} : RunRight(q)'
  <2>1. TAKE q \in Records \ {r}
  <2>2. Running(q) => lock[host[q]] = q /\ q # None
    BY LogAssumption DEF InstallInv, RunRight, FoundRight
  <2>3. Running(q) => lock'[host[q]] = lock[host[q]] /\ origin'[host[q]] = origin[host[q]]
    BY <1>1, <1>2, <2>2 DEF Install!TypeOK
  <2>. QED
    BY <1>1, <1>2, <1>3, <2>3, BystanderStays DEF Install!TypeOK
<1>6. RunRight(r)'
  BY <1>1, <1>2, <1>3, LogAssumption, InstallAssumption DEF Install!TypeOK, RunRight, FlagsRight, FoundRight, OwnRight, AloneRight, HostsRight,
     Running, Registration, Wanted, Install!Hosts, Preparing, Between, Undoing, Ending
<1>7. HostsRight'
  BY <1>1, <1>2, <1>3 DEF HostsRight, Install!TypeOK
<1>8. BirthsRight' /\ outside' \in Nat /\ settings' = settings
  BY <1>1, <1>3 DEF BirthsRight
<1>. QED
  BY <1>4, <1>5, <1>6, <1>7, <1>8 DEF InstallInv

LEMMA RemoveLockHolds ==
  ASSUME InstallInv, NEW h \in Install!Hosts, Install!RemoveLock(h)
  PROVE  InstallInv'
<1>1. /\ Install!TypeOK /\ HostsRight /\ BirthsRight
      /\ UNCHANGED <<Install!runVars, registered, runtime, born, settings, origin, outside>>
      /\ lock' = [lock EXCEPT ![h] = None] /\ step[lock[h]] = "dead"
  BY DEF InstallInv, Install!RemoveLock
<1>2. Install!TypeOK'
  BY <1>1 DEF Install!TypeOK, Install!runVars
<1>3. \A q \in Records : RunRight(q)'
  <2>1. TAKE q \in Records
  <2>2. Running(q) => lock[host[q]] = q /\ step[q] # "dead"
    BY DEF InstallInv, RunRight, FoundRight, Running
  <2>. QED
    BY <1>1, <2>2, BystanderStays DEF Install!TypeOK, Install!runVars
<1>4. HostsRight' /\ BirthsRight'
  BY <1>1 DEF HostsRight, BirthsRight, Install!runVars
<1>. QED
  BY <1>1, <1>2, <1>3, <1>4 DEF InstallInv

LEMMA OutsideHolds ==
  ASSUME InstallInv, NEW h \in Install!Hosts, Install!Outside(h)
  PROVE  InstallInv'
<1>1. /\ Install!TypeOK /\ HostsRight /\ BirthsRight
      /\ UNCHANGED <<Install!runVars, lock, runtime, born, origin>>
  BY DEF InstallInv, Install!Outside
<1>2. PICK g \in {None, Other, registered[h]} : registered' = [registered EXCEPT ![h] = g]
  BY <1>1 DEF Install!Outside, Install!TypeOK
<1>3. /\ settings' = {} \/ \E x \in Records \cup {Other} : settings' = {x}
      /\ outside' \in Nat /\ outside' # 0
  BY DEF InstallInv, Install!Outside
<1>4. Install!TypeOK'
  <2>1. settings' \subseteq Records \cup {Other}
    BY <1>3
  <2>. QED
    BY <1>1, <1>2, <2>1 DEF Install!TypeOK, Install!runVars
<1>5. \A q \in Records : RunRight(q)'
  <2>1. TAKE q \in Records
  <2>2. registered'[host[q]] \in {None, Other, registered[host[q]]}
    BY <1>1, <1>2 DEF Install!TypeOK
  <2>. QED
    BY <1>1, <1>3, <2>2, BystanderStays DEF Install!runVars
<1>6. HostsRight' /\ BirthsRight'
  BY <1>1, <1>2, <1>3, LogAssumption, InstallAssumption DEF Install!TypeOK, HostsRight, BirthsRight,
     Install!runVars
<1>. QED
  BY <1>3, <1>4, <1>5, <1>6 DEF InstallInv

LEMMA InstallStart == Install!Init => InstallInv
<1>. SUFFICES ASSUME Install!Init PROVE InstallInv
  OBVIOUS
<1>1. Install!TypeOK /\ outside \in Nat /\ settings = {}
  BY DEF Install!Init, Install!TypeOK, Install!Hosts
<1>2. HostsRight /\ BirthsRight
  BY LogAssumption, InstallAssumption DEF Install!Init, HostsRight, BirthsRight
<1>3. \A r \in Records : RunRight(r)
  BY DEF Install!Init, RunRight, FlagsRight, FoundRight, OwnRight, AloneRight, Running, Preparing,
     Between, Undoing, Ending
<1>. QED
  BY <1>1, <1>2, <1>3 DEF InstallInv

LEMMA InstallStep ==
  ASSUME InstallInv, [Install!Next]_Install!vars
  PROVE  InstallInv'
<1>1. CASE UNCHANGED Install!vars
  <2>1. \A q \in Records : RunRight(q)'
    <3>1. TAKE q \in Records
    <3>. QED
      BY <1>1, BystanderStays DEF Install!vars, Install!runVars
  <2>2. Install!TypeOK' /\ HostsRight' /\ BirthsRight'
    BY <1>1 DEF InstallInv, Install!TypeOK, HostsRight, BirthsRight, Install!vars, Install!runVars
  <2>. QED
    BY <1>1, <2>1, <2>2 DEF InstallInv, Install!vars
<1>2. CASE \E r \in Records : Install!Step(r)
  <2>1. PICK r \in Records : Install!Step(r)
    BY <1>2
  <2>2. CASE Install!Refuse(r)
    BY <2>2, RefuseHolds
  <2>3. CASE Install!Lock(r)
    BY <2>3, LockHolds
  <2>4. CASE Install!Snapshot(r)
    BY <2>4, SnapshotHolds
  <2>5. CASE Install!MakeGeneration(r)
    BY <2>5, MakeGenerationHolds
  <2>6. CASE Install!Build(r)
    BY <2>6, BuildHolds
  <2>7. CASE Install!LookForSettings(r)
    BY <2>7, LookForSettingsHolds
  <2>8. CASE Install!Publish(r)
    BY <2>8, PublishHolds
  <2>9. CASE Install!Check(r)
    BY <2>9, CheckHolds
  <2>10. CASE Install!Remove(r)
    BY <2>10, RemoveHolds
  <2>11. CASE Install!VerifyGone(r)
    BY <2>11, VerifyGoneHolds
  <2>12. CASE Install!Add(r)
    BY <2>12, AddHolds
  <2>13. CASE Install!Configure(r)
    BY <2>13, ConfigureHolds
  <2>14. CASE Install!Verify(r)
    BY <2>14, VerifyHolds
  <2>15. CASE Install!Finish(r)
    BY <2>15, FinishHolds
  <2>16. CASE Install!Prune(r)
    BY <2>16, PruneHolds
  <2>17. CASE Install!Exit(r)
    BY <2>17, ExitHolds
  <2>18. CASE Install!Restore(r)
    BY <2>18, RestoreHolds
  <2>19. CASE Install!AddAgain(r)
    BY <2>19, AddAgainHolds
  <2>20. CASE Install!CleanUp(r)
    BY <2>20, CleanUpHolds
  <2>21. CASE Install!Unlock(r)
    BY <2>21, UnlockHolds
  <2>22. CASE Install!Signal(r)
    BY <2>22, SignalHolds
  <2>23. CASE Install!Kill(r)
    BY <2>23, KillHolds
  <2>. QED
    BY <2>1, <2>2, <2>3, <2>4, <2>5, <2>6, <2>7, <2>8, <2>9, <2>10, <2>11, <2>12, <2>13,
         <2>14, <2>15, <2>16, <2>17, <2>18, <2>19, <2>20, <2>21, <2>22, <2>23 DEF
         Install!Step
<1>3. CASE \E h \in Install!Hosts : Install!RemoveLock(h) \/ Install!Outside(h)
  BY <1>3, RemoveLockHolds, OutsideHolds
<1>. QED
  BY <1>1, <1>2, <1>3 DEF Install!Next

LEMMA InstallFollows ==
  ASSUME InstallInv
  PROVE  /\ Install!TypeOK /\ Install!RegistrationLive /\ Install!FailurePreserves
         /\ Install!SuccessIsReal /\ Install!SettingsWrittenOnce
<1>1. Install!TypeOK /\ Install!RegistrationLive
  BY DEF InstallInv, HostsRight, Install!RegistrationLive
<1>2. Install!FailurePreserves
  BY DEF InstallInv, RunRight, FlagsRight, AloneRight, Running, Registration, Install!FailurePreserves,
     Install!Current
<1>3. Install!SuccessIsReal
  <2>1. SUFFICES ASSUME NEW r \in Records, step[r] = "unlock", succeeded[r], outside = 0,
                        before[r] # Other
                 PROVE  /\ Install!Current(r) = IF what[r] = "install" THEN r ELSE None
                        /\ what[r] = "install" /\ before[r] \in Records =>
                             Install!Cardinality(Install!Siblings(r)) > 1
    BY DEF Install!SuccessIsReal
  <2>2. RunRight(r) /\ Running(r)
    BY <2>1 DEF InstallInv, Running
  <2>3. Install!Current(r) = IF what[r] = "install" THEN r ELSE None
    BY <2>1, <2>2 DEF RunRight, AloneRight, Registration, Wanted, Install!Current
  <2>4. ASSUME what[r] = "install" /\ before[r] \in Records
        PROVE  Install!Cardinality(Install!Siblings(r)) > 1
    <3>1. PICK g \in Records \ {r} : host[g] = host[r] /\ runtime[g] # "none"
      BY <2>1, <2>2, <2>4 DEF RunRight, OwnRight
    <3>2. r \in Install!Siblings(r) /\ g \in Install!Siblings(r)
      BY <2>1, <2>2, <2>4, <3>1 DEF RunRight, OwnRight, Install!Siblings
    <3>3. {r, g} \subseteq Install!Siblings(r) /\ Install!Siblings(r) \subseteq Records
      BY <3>2 DEF Install!Siblings
    <3>4. IsFiniteSet(Install!Siblings(r))
      BY <3>3, InstallAssumption, FS_Subset
    <3>5. Cardinality({r, g}) = 2
      <4>1. {r, g} = {r} \cup {g} /\ g \notin {r}
        BY <3>1
      <4>2. IsFiniteSet({r}) /\ Cardinality({r}) = 1
        BY FS_Singleton
      <4>. QED
        BY <4>1, <4>2, FS_AddElement
    <3>6. /\ Cardinality({r, g}) <= Cardinality(Install!Siblings(r))
          /\ Cardinality(Install!Siblings(r)) \in Nat
      BY <3>3, <3>4, FS_Subset, FS_CardinalityType
    <3>7. Cardinality(Install!Siblings(r)) = Install!Cardinality(Install!Siblings(r))
      BY DEF Cardinality, Install!Cardinality
    <3>. QED
      BY <3>5, <3>6, <3>7
  <2>. QED
    BY <2>3, <2>4
<1>4. Install!SettingsWrittenOnce
  <2>1. Cardinality(settings) \in {0, 1}
    BY FS_EmptySet, FS_Singleton DEF InstallInv
  <2>2. Cardinality(settings) = Install!Cardinality(settings)
    BY DEF Cardinality, Install!Cardinality
  <2>. QED
    BY <2>1, <2>2 DEF Install!SettingsWrittenOnce
<1>. QED
  BY <1>1, <1>2, <1>3, <1>4

-------------------------------------------------------------------------------
(* The parts together.                                                     *)

JournalInv == IInv /\ (part = "journalWindows" => disk = Directory(names, temps))

LogsInv == IF part = "server" THEN LogInv(FALSE) ELSE LogInv(TRUE)

(* What moves of POSIX need not keep is what is said of Windows.           *)
ConfigInv == CodexInv /\ (part # "codex" => NameInv)

PartsInv == JournalInv /\ LogsInv /\ PolicyInv /\ ConfigInv /\ InstallInv

LEMMA PartsStart == PartsInit => PartsInv
BY JournalInit, LogInit, PolicyInit, CodexInit, InstallStart
DEF PartsInit, PartsInv, JournalInv, LogsInv, WindowsInv, ConfigInv

LEMMA JournalMoves == ASSUME JournalInv, [PartsNext]_partVars PROVE JournalInv'
<1>1. CASE part = "journal" /\ Next /\ UNCHANGED part
  BY <1>1, PosixStep DEF JournalInv
<1>2. CASE part = "journalWindows" /\ NextWindows /\ UNCHANGED part
  BY <1>2, WindowsStep DEF JournalInv, WindowsInv
<1>3. CASE UNCHANGED <<part, vars>>
  <2>1. IInv'
    BY <1>3, StillStep DEF JournalInv
  <2> QED
    BY <1>3, <2>1 DEF JournalInv, vars, store, Directory
<1> QED
  BY <1>1, <1>2, <1>3 DEF PartsNext, partVars

LEMMA LogsMove ==
  ASSUME LogsInv, [PartsNext]_partVars
  PROVE  /\ LogsInv'
         /\ part = "usage" => Rightly(TRUE)
         /\ part = "server" => Rightly(FALSE)
<1>1. CASE part = "usage" /\ Usage!Next /\ UNCHANGED part
  <2>1. CASE Usage!RemoveLog
    BY <1>1, <2>1, UserStep DEF LogsInv
  <2>2. CASE ~Usage!RemoveLog
    <3>1. PICK s \in Servers : Common(s) \/ Usage!Fit(s)
      BY <1>1, <2>2 DEF Usage!Next, Common
    <3> QED
      BY <1>1, <3>1, CommonStep, UsageFits DEF LogsInv
  <2> QED
    BY <2>1, <2>2
<1>2. CASE part = "server" /\ Server!Next /\ UNCHANGED part
  <2>1. CASE Server!RemoveLog
    BY <1>2, <2>1, UserStep
    DEF LogsInv, Server!RemoveLog, Usage!RemoveLog, Server!server, Usage!server
  <2>2. CASE ~Server!RemoveLog
    <3>1. PICK s \in Servers : Common(s) \/ Server!Fit(s)
      <4>1. PICK s \in Servers :
              \/ \E r \in Records : Server!Write(s, r)
              \/ Server!Lock(s) \/ Server!Refresh(s) \/ Server!Rotate(s)
              \/ Server!Create(s) \/ Server!Fit(s) \/ Server!AppendChunk(s)
              \/ Server!Written(s) \/ Server!Fails(s) \/ Server!Unlock(s)
              \/ Server!Killed(s)
        BY <1>2, <2>2 DEF Server!Next
      <4>2. Common(s) \/ Server!Fit(s)
        BY <4>1, SameSteps DEF Common
      <4> QED
        BY <4>2
    <3> QED
      <4>1. CASE Common(s)
        <5>1. LogInv(FALSE)' /\ Rightly(FALSE)
          BY <1>2, <4>1, CommonStep DEF LogsInv
        <5> QED
          BY <1>2, <5>1 DEF LogsInv
      <4>2. CASE Server!Fit(s)
        BY <1>2, <4>2, ServerFits DEF LogsInv
      <4> QED
        BY <3>1, <4>1, <4>2
  <2> QED
    BY <2>1, <2>2
<1>3. CASE UNCHANGED <<part, logVars>>
  <2>1. IF part = "server" THEN LogInv(FALSE)' ELSE LogInv(TRUE)'
    BY <1>3, LogStill DEF LogsInv, logVars, Usage!vars, Usage!disk, Usage!server
  <2>2. Rightly(TRUE) /\ Rightly(FALSE)
    BY <1>3 DEF logVars, Rightly, Usage!ConfirmedInPlace
  <2> QED
    BY <1>3, <2>1, <2>2 DEF LogsInv
<1> QED
  BY <1>1, <1>2, <1>3 DEF PartsNext, partVars

LEMMA PolicyMoves == ASSUME PolicyInv, [PartsNext]_partVars PROVE PolicyInv'
<1>1. [Policy!Next]_Policy!policyVars
  BY DEF PartsNext, partVars, policyVars, Policy!policyVars
<1> QED
  BY <1>1, PolicyStep

LEMMA ConfigMoves == ASSUME ConfigInv, [PartsNext]_partVars PROVE ConfigInv'
<1>1. part' = part
  BY DEF PartsNext, partVars
<1>2. [Codex!Next]_Codex!vars \/ [Codex!WindowsNext]_Codex!vars
  BY DEF PartsNext, partVars, codexVars, Codex!vars, Codex!code, Codex!files, Codex!saved,
         Codex!editor
<1>3. part # "codex" => [Codex!WindowsNext]_Codex!vars
  BY DEF PartsNext, partVars, codexVars, Codex!vars, Codex!code, Codex!files, Codex!saved,
         Codex!editor
<1> QED
  BY <1>1, <1>2, <1>3, CodexStep, NameStep DEF ConfigInv

LEMMA InstallMoves == ASSUME InstallInv, [PartsNext]_partVars PROVE InstallInv'
<1>1. [Install!Next]_Install!vars
  BY DEF PartsNext, partVars, hostVars, Install!vars, Install!runVars
<1> QED
  BY <1>1, InstallStep

LEMMA PartsMove == ASSUME PartsInv, [PartsNext]_partVars PROVE PartsInv'
BY JournalMoves, LogsMove, PolicyMoves, ConfigMoves, InstallMoves DEF PartsInv

(* Over kills, failing calls and losses of power, the journal's records    *)
(* are whole, a confirmed intent and its warnings stay until they are      *)
(* acknowledged, what was reported as removed stays away, and a listing    *)
(* never meets more than it accepts (transaction_journal.py:217-495).      *)
THEOREM JournalStaysKept == PartsSpec => []JournalKept
<1>1. PartsInv => JournalKept
  BY JournalFollows DEF PartsInv, JournalInv, JournalKept, IInv
<1> QED
  BY <1>1, PartsStart, PartsMove, PTL DEF PartsSpec

(* A line that was confirmed is in the log once and in one piece, whoever  *)
(* else appends, is killed or fails half way through a line, and no log    *)
(* outgrows its limit (private_logging.py:142-165).                        *)
THEOREM LinesStayWhole == PartsSpec => []LinesWhole
<1>1. PartsInv => LinesWhole
  BY LogFollows DEF PartsInv, LogsInv, LinesWhole
<1> QED
  BY <1>1, PartsStart, PartsMove, PTL DEF PartsSpec

(* Wherever a transaction over the configuration of Codex or an installer  *)
(* is cut short, whatever fails and whoever else edits: no text of another *)
(* editor is lost unless a restore was forced, the replaced text can be    *)
(* restored, an installed entry is accepted, the host starts a complete    *)
(* runtime, a failure has put the registration back or says so, a success  *)
(* is real, and the settings are written once (configure.py:281-407,       *)
(* install.sh:178).                                                        *)
THEOREM ConfigurationStaysKept == PartsSpec => []ConfigurationKept
<1>1. PartsInv => ConfigurationKept
  <2> SUFFICES ASSUME PartsInv PROVE ConfigurationKept
    OBVIOUS
  <2>1. Codex!TypeOK /\ Codex!EditsKept /\ Codex!RollbackPossible /\ Codex!FailureUndone
    BY CodexFollows DEF PartsInv, ConfigInv
  <2>2. part = "windows" => Codex!NameKept
    BY NameFollows DEF PartsInv, ConfigInv
  <2>3. Policy!TypeOK /\ Policy!InstallSettles
    BY PolicyFollows DEF PartsInv
  <2>4. /\ Install!TypeOK /\ Install!RegistrationLive /\ Install!FailurePreserves
        /\ Install!SuccessIsReal /\ Install!SettingsWrittenOnce
    BY InstallFollows DEF PartsInv
  <2> QED
    BY <2>1, <2>2, <2>3, <2>4 DEF ConfigurationKept
<1> QED
  BY <1>1, PartsStart, PartsMove, PTL DEF PartsSpec

(* A line is confirmed in the file under the name, only a full log is      *)
(* rotated, and an installation that is not forced leaves what others      *)
(* wrote, and the user's tools and option in its own entry                 *)
(* (private_logging.py:97-125, configure_policy.py:212-269).               *)
THEOREM StepsAreRight == PartsSpec => StepsRight
<1> DEFINE Right ==
      /\ part = "usage"  => Usage!ConfirmedInPlace /\ Usage!FullIsRotated
      /\ part = "server" => Server!ConfirmedInPlace /\ Server!FullIsRotated
      /\ part = "policy" => Policy!ChoicesKept
<1>1. ASSUME PartsInv, [PartsNext]_partVars PROVE [Right]_partVars
  <2> SUFFICES ASSUME PartsNext PROVE Right
    BY <1>1
  <2>1. LogsInv /\ PolicyInv
    BY <1>1 DEF PartsInv
  <2>2. part = "usage" => Usage!ConfirmedInPlace /\ Usage!FullIsRotated
    BY <2>1, LogsMove DEF Rightly, Usage!FullIsRotated
  <2>3. part = "server" => Server!ConfirmedInPlace /\ Server!FullIsRotated
    BY <2>1, LogsMove
    DEF Rightly, Usage!ConfirmedInPlace, Server!ConfirmedInPlace,
        Server!FullIsRotated, Server!Size, Usage!Size
  <2>4. ASSUME part = "policy" PROVE Policy!ChoicesKept
    <3>1. Policy!Next
      BY <2>4 DEF PartsNext
    <3> QED
      BY <2>1, <3>1, ChoicesStay
  <2> QED
    BY <2>2, <2>3, <2>4
<1>2. StepsRight <=> [][Right]_partVars
  BY PTL DEF StepsRight
<1> QED
  BY <1>1, <1>2, PartsStart, PartsMove, PTL DEF PartsSpec
================================================================================
