---------------------------- MODULE MCWorkspaceFiles ----------------------------
(***************************************************************************)
(* How a file of the workspace is replaced, on POSIX (PosixCommit) and on  *)
(* Windows (WindowsCommit), which keep the same state, by the tools of two *)
(* agents at once (TwoCommits), how an edit is made from what was read     *)
(* (AgentEdits), how files are opened on Windows (WindowsPaths) and found  *)
(* (WorkspaceWalk).  In a behaviour, part says which of them moves: the    *)
(* states add up and do not multiply.                                      *)
(***************************************************************************)
EXTENDS PosixCommit, Sequences, TLC

CONSTANTS Parts, Large, Root, D, E, F, L,
          Nodes, Subdirs, Links, EntryNames, Hidden, Control, Unsafe, Deep, Patterns, Trees,
          MaxEntries, MaxDirectories, MaxDepth, MaxResults, MaxMoves

VARIABLES part, tree, moves, touched, was, system, tool, pattern, walk, stack,
          name, info, states, yielded, found, entries, directories, truncated,
          incomplete, open, answer,
          target, temp, recovery, at, base, gave, report, overwritten, faults,
          inodes, named, editing, req, fd, seen, copy, identity, edited, reserved,
          spent, calls, changed,
          disk, shifts, ever, opener, stage, chain, place, child

(* What the proofs rest on: identifiers are not numbers, a version that an *)
(* agent writes has the agent's name, and None is no number and no record. *)
TextCells == [id : Files \cup {None} \cup Nat, source : {"a", "b"}, ran : BOOLEAN]
Texts == Seq(TextCells)
Identified == [inode : Nat, stamp : Nat, digest : Texts \cup {Mine}]
ASSUME PartsAssumption ==
  Files \cap (Versions \cup Nat) = {} /\ None \notin Versions \cup Nat \cup Identified

Windows == INSTANCE WindowsCommit
Agents  == INSTANCE TwoCommits WITH Agents <- Files, Versions <- Versions \ Large,
                                    displaced <- gave, MaxFailures <- 1
Edits   == INSTANCE AgentEdits WITH Cells <- Files, Broken <- Mine, MaxCells <- 3,
                                    MaxBytes <- 4, MaxCalls <- 2, MaxUser <- 2,
                                    name <- named, pc <- editing, data <- copy, result <- edited,
                                    written <- spent, used <- reserved, changes <- changed

-------------------------------------------------------------------------------
(* The workspaces and patterns of the walk in the run: directories side by *)
(* side and one in the other, with a file, a link, a hidden name, which is *)
(* unsafe on Windows, and a protected one.                                 *)
Workspace(t) ==
  [s \in ({Root} \cup Subdirs) \X EntryNames |-> IF s \in DOMAIN t THEN t[s] ELSE None]
Workspaces ==
  {Workspace(<<Root, "a">> :> D @@ <<D, "g">> :> F
             @@ <<Root, "h">> :> E @@ <<E, "a">> :> L),
   Workspace(<<Root, "a">> :> D @@ <<D, "a">> :> E @@ <<E, "a">> :> F
             @@ <<Root, "h">> :> L),
   Workspace(<<Root, "a">> :> F @@ <<Root, "g">> :> D @@ <<D, "a">> :> E
             @@ <<Root, "h">> :> L)}
Globs == {<<Deep>>, <<Deep, {"a"}>>, <<{"a"}, {"a", "h"}>>, <<{"h"}, Deep>>,
          <<Deep, Deep, {"a"}>>}

Walk == INSTANCE WorkspaceWalk
  WITH Objects <- Nodes, Names <- EntryNames, pc <- walk, result <- answer

(* Directories are not links, and a workspace is a tree below its root.    *)
ASSUME WalkAssumption ==
  /\ {Root} \cup Subdirs \cup Links \subseteq Nodes /\ None \notin Nodes
  /\ Root \notin Subdirs /\ Links \cap ({Root} \cup Subdirs) = {}
  /\ Patterns \subseteq Seq({Deep} \cup SUBSET EntryNames)
  /\ \A t \in Trees : t \in [Walk!Slots -> Nodes \cup {None}] /\ Walk!Tree(t)
  /\ {MaxEntries, MaxDepth, MaxResults, MaxMoves} \subseteq Nat
  /\ MaxDirectories \in Nat \ {0}

(* A file in a directory, and another one where it could be taken for it.  *)
DiskNames == {"a", "f", "h"}
Disk(t) == [s \in {Root, D, E, New} \X DiskNames |-> IF s \in DOMAIN t THEN t[s] ELSE None]
Disks ==
  {Disk(<<Root, "a">> :> D @@ <<D, "f">> :> F @@ <<Root, "h">> :> E @@ <<E, "f">> :> Mine
        @@ <<E, "h">> :> L),
   Disk(<<Root, "h">> :> D @@ <<D, "f">> :> F)}
Beyond(junction) == E

Paths == INSTANCE WindowsPaths
  WITH Subdirs <- {D, E, New}, Junctions <- {L}, Files <- {F, Mine, Large},
       NewFile <- Large, Target <- Beyond,
       Names <- DiskNames, Path <- <<"a", "f">>, Trees <- Disks, MaxMoves <- 2,
       tree <- disk, moves <- shifts, was <- ever, kind <- opener, pc <- stage, at <- place

walkVars == <<tree, moves, touched, was, system, tool, pattern, walk, stack,
              name, info, states, yielded, found, entries, directories,
              truncated, incomplete, open, answer>>

agentVars == <<target, temp, recovery, at, base, gave, report, overwritten, faults>>
editVars == <<inodes, named, editing, req, fd, seen, copy, identity, edited, reserved,
              spent, calls, changed>>
pathVars == <<disk, shifts, ever, opener, stage, chain, place, child>>
partVars == <<part, vars, walkVars, agentVars, editVars, pathVars>>

PartsInit ==
  /\ part \in Parts
  /\ IF part = "windows" THEN Windows!Init ELSE Init
  /\ Walk!Init /\ Agents!Init /\ Edits!Init /\ Paths!Init
  /\ part # "agents" => target = None
  /\ part # "edits" => named = 0 /\ calls = 0
  /\ part # "paths" => opener = "private" /\ disk = CHOOSE t \in Disks : TRUE
  /\ part # "walk" => /\ tree = CHOOSE t \in Trees : TRUE
                      /\ system = "posix" /\ tool = "glob" /\ pattern = CHOOSE p \in Patterns : TRUE

PartsNext ==
  \/ /\ \/ part = "posix" /\ Next
        \/ part = "windows" /\ Windows!Next
     /\ UNCHANGED <<part, walkVars, agentVars, editVars, pathVars>>
  \/ part = "walk" /\ Walk!Next /\ UNCHANGED <<part, vars, agentVars, editVars, pathVars>>
  \/ part = "agents" /\ Agents!Next /\ UNCHANGED <<part, vars, walkVars, editVars, pathVars>>
  \/ part = "edits" /\ Edits!Next /\ UNCHANGED <<part, vars, walkVars, agentVars, pathVars>>
  \/ part = "paths" /\ Paths!Next /\ UNCHANGED <<part, vars, walkVars, agentVars, editVars>>

PartsSpec == PartsInit /\ [][PartsNext]_partVars

Symmetry == Permutations(Files) \cup Permutations(Versions \ Large)

-------------------------------------------------------------------------------
(* What other processes write to the target is kept until one of them      *)
(* replaces it, whatever fails and whenever the tool is killed             *)
(* (posix_atomic_commit.py:221, windows_workspace_write.py:45); and so is  *)
(* what an agent reported as written, when two edit the file at once.  The *)
(* bytes that an agent writes stay within its budget (resource_budget:27). *)
DataKept ==
  /\ part = "posix" => ForeignDataKept
  /\ part = "windows" => Windows!ForeignDataKept
  /\ Agents!TypeOK /\ Agents!NothingLost /\ Edits!TypeOK /\ Edits!WithinBudget

(* The report says whether the target was replaced, and of which version   *)
(* (file_io.py:189, windows_atomic_commit.py:52), and a call that ends by  *)
(* itself and meets no failing system call leaves no replacement behind    *)
(* under a hidden name (file_io.py:211); of two edits made from one        *)
(* version at most one is reported as done, and can be found.              *)
ReportsAreTrue ==
  /\ part = "posix" => TypeOK /\ ReportIsTrue /\ NothingLeft
  /\ part = "windows" => Windows!TypeOK /\ Windows!ReportIsTrue /\ Windows!NothingLeft
  /\ Agents!OneEditWins /\ Agents!DoneIsThere

(* No step of the tool takes the target's name away on POSIX: a reader     *)
(* finds a complete file at every moment.  What an agent puts in the place *)
(* of a version is that version with the edit, which touches the cell that *)
(* it names and no other (file_io.py:110, tools.py:133-336).               *)
ReplacementRight ==
  [][/\ part = "posix" /\ Tool => (dir["target"] # None => dir'["target"] # None)
     /\ part = "edits" => Edits!EditsTheCurrent /\ Edits!OnlyTheNamedCell]_<<vars, editVars>>

(* A walk finds what matches and is there, says when it may have missed    *)
(* something, and closes what it opened, whatever other processes move     *)
(* under it (workspace_walk.py:164, 348; tools.py:194).                    *)
WalkRight ==
  part = "walk" => Walk!TypeOK /\ Walk!Sound /\ Walk!Complete /\ Walk!AllClosed

(* A file that is opened on Windows is the one in the directory that was   *)
(* checked, and stays under its name where another process would take the  *)
(* name for the file (windows_file_io.py:194, file_io.py:392).             *)
OpeningRight ==
  part = "paths" => Paths!TypeOK /\ Paths!OpensTheChecked /\ Paths!PathHeld

(* On Windows, a displaced version that is not the one the edit was made   *)
(* from gets its name back (windows_atomic_commit.py:98).                  *)
DisplacementRestored == part = "windows" => Windows!DisplacementRestored
================================================================================
