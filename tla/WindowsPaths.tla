------------------------------ MODULE WindowsPaths ------------------------------
(***************************************************************************)
(* Opening a file on Windows, where a path can only be opened from its     *)
(* beginning: every directory on it is opened in turn and asked for its    *)
(* final path, beside processes that move files, directories and junctions *)
(* between any two calls.  Three modules of the code do it:                *)
(*   "private"   windows_file_io.py: the files of the home directory; a    *)
(*               directory may be moved while it is open;                  *)
(*   "lock"      the same, for a file that is created if it is missing,    *)
(*               opened for nobody else, and kept open;                    *)
(*   "adapter"   windows_file_io.py of the Codex adapter: it may not, and  *)
(*               every directory on the path stays open;                   *)
(*   "workspace" file_io.py: it may not, and a name is opened below where  *)
(*               its directory is at the time.                             *)
(* Windows does not move a directory in which anything is open.            *)
(***************************************************************************)
EXTENDS Integers, Sequences

Seqs == INSTANCE SequencesExt

CONSTANTS Root,       \* the drive, or the workspace; it is not moved
          Subdirs, Junctions, Files,
          Target(_),  \* the directory that a junction leads to
          New,        \* the one of Subdirs, and the one of Files, that
          NewFile,    \* the code creates
          None,
          Names, Path,\* Path: the names that are opened, the last of a file
          Trees,      \* the file systems at the beginning
          MaxMoves    \* moves of the other processes (a bound of the model)

VARIABLES tree, moves,
          was,      \* directory, name and object triples there ever were
          kind, pc,
          chain,    \* the objects that were opened, from Root on
          at,       \* where the last of them is expected to be
          child     \* what was opened last, and is not yet checked

vars == <<tree, moves, was, kind, pc, chain, at, child>>
others == <<tree, moves, was>>

Dirs    == {Root} \cup Subdirs
Objects == Subdirs \cup Junctions \cup Files
Slots   == Dirs \X Names
Parent  == chain[Len(chain)]
Depth   == Len(chain) - 1
Name    == Path[Len(chain)]
Last    == Len(chain) = Len(Path)

-------------------------------------------------------------------------------
(* The file system.                                                        *)

Through(o) == IF o \in Junctions THEN Target(o) ELSE o

(* CreateFileW: junctions on the way are followed, the last one is not.    *)
Entry(o, name) == IF Through(o) \in Dirs THEN tree[<<Through(o), name>>] ELSE None
Resolve(dir, path) == Seqs!FoldLeft(Entry, dir, path)

(* Where an object is: the directory that it is in, and its name there.    *)
Slot(o) == CHOOSE p \in Slots : tree[p] = o

(* GetFinalPathNameByHandleW: where an object is now, by real directories. *)
FinalPath(o) ==
  LET path[x \in Objects \cup {Root}] ==
        IF x = Root THEN <<>> ELSE Append(path[Slot(x)[1]], Slot(x)[2])
  IN path[o]

Attached(o) == o = Root \/ \E p \in Slots : tree[p] = o

Below(o, d) ==
  LET below[x \in Objects \cup {Root}] ==
        x # Root /\ (Slot(x)[1] = d \/ below[Slot(x)[1]])
  IN below[o]

-------------------------------------------------------------------------------
Init ==
  /\ tree \in Trees /\ moves = 0
  /\ was = {<<p[1], p[2], tree[p]>> : p \in Slots}
  /\ kind \in {"private", "lock", "adapter", "workspace"}
  /\ pc = "open" /\ chain = <<Root>> /\ at = <<>> /\ child = None

Keep(label) == pc' = label /\ UNCHANGED <<others, kind>>

(* Every handle is closed.                                                 *)
Refuse == Keep("refused") /\ UNCHANGED <<chain, at>> /\ child' = None

(* The directory is where it was when its last name was opened.            *)
InPlace == FinalPath(Parent) = at

(* _open_child looks at its directory before the file is opened; the       *)
(* workspace's handles are asked where they are, and followed there.       *)
Look ==
  /\ pc = "open" /\ UNCHANGED <<chain, child>> /\ Keep("create")
  /\ IF kind = "workspace" THEN at' = FinalPath(Parent)
     ELSE (Last /\ kind # "lock" => InPlace) /\ UNCHANGED at

LookRefused ==
  pc = "open" /\ kind \in {"private", "adapter"} /\ Last /\ ~InPlace /\ Refuse

Opened  == Resolve(Root, Append(at, Name))
Creates == (kind = "workspace" /\ ~Last) \/ (kind = "lock" /\ Last)

(* CreateFileW.                                                            *)
Open ==
  /\ pc = "create"
  /\ \/ Opened # None /\ child' = Opened /\ Keep("check") /\ UNCHANGED <<chain, at>>
     \/ Opened = None /\ ~Creates /\ Refuse

(* A missing directory is created for a tool that writes, and opened like  *)
(* one that was there (_win_open_directory); a missing lock is created as  *)
(* it is opened (OPEN_ALWAYS).                                             *)
Create ==
  /\ pc = "create" /\ Opened = None /\ Creates
  /\ LET d == Through(Resolve(Root, at))
         o == IF Last THEN NewFile ELSE New
     IN IF d \in Dirs /\ ~Attached(o)
        THEN /\ tree' = [tree EXCEPT ![<<d, Name>>] = o]
             /\ was' = was \cup {<<d, Name, o>>}
             /\ IF Last THEN pc' = "check" /\ child' = o
                ELSE pc' = "open" /\ UNCHANGED child
             /\ UNCHANGED <<moves, kind, chain, at>>
        ELSE Refuse

(* _validate_handle: no junction, of the right kind, and where the name    *)
(* was opened.                                                             *)
Valid ==
  /\ child \in IF Last THEN Files ELSE Subdirs
  /\ FinalPath(child) = Append(at, Name)

(* Fault: _open_child does not look at its directory again.                *)
Check_Once ==
  /\ pc = "check" /\ UNCHANGED <<chain, at, child>>
  /\ Keep(IF ~Valid THEN "refused" ELSE IF Last THEN "given" ELSE "enter")

(* The workspace's directory is asked first again, the file of the others  *)
(* before its directory.                                                   *)
Check ==
  /\ pc = "check" /\ UNCHANGED <<chain, at, child>>
  /\ IF kind = "workspace"
     THEN Keep(IF InPlace THEN "again" ELSE "refused")
     ELSE Keep(IF ~Valid THEN "refused" ELSE IF Last THEN "again" ELSE "enter")

CheckAgain ==
  /\ pc = "again" /\ UNCHANGED <<chain, at, child>>
  /\ Keep(IF ~(IF kind = "workspace" THEN Valid ELSE InPlace) THEN "refused"
          ELSE IF Last THEN "given" ELSE "enter")

(* The directory is the next to open a name in; the adapter also keeps the *)
(* one before it open.                                                     *)
Enter ==
  /\ pc = "enter" /\ Keep("open")
  /\ chain' = Append(chain, child) /\ at' = Append(at, Name) /\ child' = None

(* The file is read, and everything is closed; of a lock, the directory.   *)
Close ==
  /\ pc = "given" /\ Keep(IF kind = "lock" THEN "kept" ELSE "done")
  /\ UNCHANGED <<chain, at, child>>

-------------------------------------------------------------------------------
(* The other processes.                                                    *)

(* What is open: the last directory, for the adapter all of them, and what *)
(* was opened last.                                                        *)
Handles ==
  (IF pc \in {"refused", "done", "kept"} THEN {}
   ELSE {Parent} \cup (IF kind = "adapter" THEN {chain[i] : i \in DOMAIN chain} ELSE {}))
  \cup (IF pc = "done" THEN {} ELSE {child} \ {None})

(* Fault: directories are opened so that they may be moved.                *)
Fixed_Shared(o) == \E h \in Handles : Below(h, o)

(* What is open and not shared for deletion is not moved, nor is what has  *)
(* something open in it.                                                   *)
Fixed(o) == \/ kind \in {"adapter", "workspace"} /\ o \in Handles \cap Dirs
            \/ kind = "lock" /\ o = child /\ Last
            \/ \E h \in Handles : Below(h, o)

Move ==
  /\ moves < MaxMoves /\ pc \notin {"refused", "done"}
  /\ \E o \in Objects, p, q \in Slots :
       /\ tree[p] = o /\ tree[q] = None /\ Attached(q[1]) /\ ~Fixed(o)
       /\ q[1] # o /\ ~Below(q[1], o)
       /\ tree' = [tree EXCEPT ![p] = None, ![q] = o]
       /\ was' = was \cup {<<q[1], q[2], o>>}
  /\ moves' = moves + 1 /\ UNCHANGED <<kind, pc, chain, at, child>>

Next == \/ Look \/ LookRefused \/ Open \/ Create \/ Check \/ CheckAgain
        \/ Enter \/ Close \/ Move

Spec == Init /\ [][Next]_vars

-------------------------------------------------------------------------------
(* Properties.                                                             *)

TypeOK ==
  /\ tree \in [Slots -> Objects \cup {None}] /\ moves \in 0 .. MaxMoves
  /\ pc \in {"open", "create", "check", "again", "enter", "given", "done",
             "kept", "refused"}
  /\ chain \in Seq(Dirs) /\ chain[1] = Root
  /\ child \in Objects \cup {None}

(* Another process moved the object from one place to another.             *)
Displaced(o) == \E x, y \in was : x # y /\ x[3] = o /\ y[3] = o

(* The file that is given out was, under the last name, in the directory   *)
(* that was opened before it and whose access was checked; in the adapter  *)
(* and the workspace that directory was itself reached so.  No junction    *)
(* and no directory that was put in the place of one leads elsewhere       *)
(* (windows_file_io.py:194-209, file_io.py:392-411).  A private file may   *)
(* be moved while it is open: one that was is not spoken of, since a       *)
(* directory that takes another's place, gives that file and goes back     *)
(* between the two looks at the directory is not noticed by them.          *)
OpensTheChecked ==
  pc = "given" =>
    /\ \/ <<Parent, Path[Len(Path)], child>> \in was
       \/ kind = "private" /\ Displaced(child)
    /\ kind \in {"adapter", "workspace"} =>
         \A i \in 1 .. Depth : <<chain[i], Path[i], chain[i + 1]>> \in was

(* While a file of the adapter or of the workspace is open, the name of    *)
(* its directory leads there: what is then moved by name is in it          *)
(* (adapters/codex/windows_file_io.py:164-205).  And while a process keeps *)
(* a lock, its path leads to that file, so that whoever else opens the     *)
(* path is refused (windows_file_io.py:228-257).                           *)
PathHeld ==
  /\ pc = "given" /\ kind \in {"adapter", "workspace"} => FinalPath(Parent) = at
  /\ pc = "kept" => FinalPath(child) = Path
================================================================================
