------------------------------ MODULE AgentEdits ------------------------------
(***************************************************************************)
(* The calls Write, Edit and NotebookEdit of an agent, from the reading of *)
(* a file to the replacement of what was read, beside a user who changes   *)
(* the file in place or replaces it (tools.py, file_io.py).  A file is a   *)
(* sequence of cells; for Edit the text is that of its cells.              *)
(*                                                                         *)
(* The commit is one step here: PosixCommit and WindowsCommit are about    *)
(* what goes on in it.                                                     *)
(***************************************************************************)
EXTENDS Naturals, Sequences, SequencesExt

CONSTANTS Cells,     \* the identifiers of the user's cells
          None,      \* no file, no identifier
          Broken,    \* what a file holds in the middle of a change in place
          MaxCells,  \* the limit on the size of a file
          MaxBytes,  \* the mutation budget of a delegation
          MaxCalls,  \* bound: calls of the agent
          MaxUser    \* bound: changes by the user

VARIABLES inodes,  \* the files there are or were: [cells, stamp]
          name,    \* the file under the name, 0 if there is none
          pc, req, \* the call under way
          fd, seen,   \* the open file and its stamp before it was read
          data,       \* what was read
          identity,   \* the version that is to be replaced
          result,     \* of the last call
          used,       \* the bytes reserved from the budget
          written,    \* history: the bytes that calls have written
          calls, changes

vars == <<inodes, name, pc, req, fd, seen, data, identity, result, used, written,
          calls, changes>>

Anchors == {[id |-> c, index |-> 0] : c \in Cells}
             \cup {[id |-> None, index |-> i] : i \in 0 .. 2}  \* 0: none is given
Requests ==
  [tool : {"Write"}] \cup [tool : {"Edit"}, all : BOOLEAN]
    \cup [tool : {"Notebook"}, mode : {"replace", "insert", "delete"}, anchor : Anchors]

Cell(id, source) == [id |-> id, source |-> source, ran |-> FALSE]
Ran(id) == [id |-> id, source |-> "a", ran |-> TRUE]

Init ==
  /\ \/ inodes = <<>> /\ name = 0
     \/ \E c \in Cells, d \in Cells \cup {None} :
          /\ c # d /\ name = 1
          /\ inodes = <<[cells |-> <<Ran(c), Ran(d)>>, stamp |-> 0]>>
  /\ pc = "idle" /\ req = None /\ fd = 0 /\ seen = 0 /\ data = <<>> /\ identity = None
  /\ result = None /\ changes = 0
  /\ calls \in {0, 1}  \* a call on another file may have used the budget up to two
  /\ used = calls * (MaxBytes - 2) /\ written = used

-------------------------------------------------------------------------------
\* What an edit makes of what was read; None where the tool answers with an error.

\* Edit: the old string is "a", the new one "b".
Occurrences(cells) == {i \in DOMAIN cells : cells[i].source = "a"}
Replacement(all, cells) ==
  IF Occurrences(cells) = {} \/ (~all /\ \E i, j \in Occurrences(cells) : i # j) THEN None
  ELSE [i \in DOMAIN cells |-> [cells[i] EXCEPT !.source = "b"]]

\* The index of the cell that a request names, 0 if there is none.
FindCell(cells, anchor) ==
  IF anchor.id # None
  THEN LET hits == {i \in DOMAIN cells : cells[i].id = anchor.id}
       IN IF hits = {} THEN 0 ELSE CHOOSE i \in hits : \A j \in hits : i <= j
  ELSE IF anchor.index \in DOMAIN cells THEN anchor.index ELSE 0

\* A cell that is replaced loses its outputs.
ReplaceCell(cells, i) ==
  IF i = 0 THEN None ELSE [cells EXCEPT ![i] = Cell(cells[i].id, "b")]

\* Fault: a new cell goes before the one that is named.
InsertCell_Before(cells, i, id) ==
  IF i = 0 THEN Append(cells, Cell(id, "b")) ELSE InsertAt(cells, i, Cell(id, "b"))
InsertCell(cells, i, id) ==
  IF i = 0 THEN Append(cells, Cell(id, "b")) ELSE InsertAt(cells, i + 1, Cell(id, "b"))

NotebookEdit(mode, i, cells, id) ==
  CASE mode = "insert" -> InsertCell(cells, i, id)
    [] mode = "replace" -> ReplaceCell(cells, i)
    [] mode = "delete" -> IF i = 0 THEN None ELSE RemoveAt(cells, i)

\* Neither a notebook nor a text.
Decoded(cells) == cells # Broken

Apply(r, cells) ==
  IF r.tool = "Write" THEN <<Cell(calls, "b")>>
  ELSE IF ~Decoded(cells) THEN None
  ELSE IF r.tool = "Edit" THEN Replacement(r.all, cells)
  ELSE NotebookEdit(r.mode, FindCell(cells, r.anchor), cells, calls)

-------------------------------------------------------------------------------
Goto(label) == pc' = label
\* The call ends, and what it held with it.
Answer(answer) ==
  /\ Goto("idle") /\ result' = answer
  /\ req' = None /\ fd' = 0 /\ seen' = 0 /\ data' = <<>> /\ identity' = None
Goes(label) == Goto(label) /\ UNCHANGED <<req, result, data>>
File == inodes[fd]

\* A file that has no name is there while it is open.
Unnamed == [i \in DOMAIN inodes |-> IF i = fd THEN inodes[i]
                                   ELSE [cells |-> <<>>, stamp |-> 0]]
Replace(cells) == /\ inodes' = Append(Unnamed, [cells |-> cells, stamp |-> 0])
                  /\ name' = Len(inodes) + 1

Call(r) ==
  /\ pc = "idle" /\ calls < MaxCalls /\ calls' = calls + 1
  /\ req' = r /\ result' = None /\ Goto(IF r.tool = "Write" THEN "reserve" ELSE "open")
  /\ UNCHANGED <<inodes, name, fd, seen, data, identity, used, written, changes>>

\* A notebook that is not there is made by an insertion.
Open ==
  /\ pc = "open"
  /\ IF name # 0
     THEN fd' = name /\ seen' = inodes[name].stamp /\ Goes("first") /\ UNCHANGED identity
     ELSE IF req.tool = "Notebook" /\ req.mode = "insert"
     THEN Goes("reserve") /\ UNCHANGED <<fd, seen, identity>>
     ELSE Answer("error")
  /\ UNCHANGED <<inodes, name, used, written, calls, changes>>

\* The content is read in pieces: between them it may change.
ReadFirst ==
  /\ pc = "first" /\ Goto("rest")
  /\ data' = IF File.cells = Broken THEN Broken
             ELSE SubSeq(File.cells, 1, IF File.cells = <<>> THEN 0 ELSE 1)
  /\ UNCHANGED <<inodes, name, req, fd, seen, identity, result, used, written, calls,
                 changes>>

ReadRest ==
  /\ pc = "rest" /\ Goto("check")
  /\ data' = IF Broken \in {data, File.cells} THEN Broken
             ELSE data \o SubSeq(File.cells, 2, Len(File.cells))
  /\ UNCHANGED <<inodes, name, req, fd, seen, identity, result, used, written, calls,
                 changes>>

\* _checked_read: the file has not changed while it was read.
CheckRead ==
  /\ pc = "check"
  /\ IF File.stamp = seen THEN Goes("identify") /\ UNCHANGED <<fd, seen, identity>>
     ELSE Answer("error")
  /\ UNCHANGED <<inodes, name, used, written, calls, changes>>

\* A stat after the check, with the digest of what was read.
Identify ==
  /\ pc = "identify" /\ Goes("reserve")
  /\ identity' = [inode |-> fd, stamp |-> File.stamp, digest |-> data]
  /\ fd' = 0 /\ seen' = 0
  /\ UNCHANGED <<inodes, name, used, written, calls, changes>>

\* Fault: what the last call reserved is given back.
Allowed_Refunds(size) == size <= MaxBytes
\* What is reserved is never given back.
Allowed(size) == size <= MaxBytes - used

Reserve ==
  /\ pc = "reserve"
  /\ LET new == Apply(req, data)
     IN IF new = None \/ Len(new) > MaxCells THEN Answer("error") /\ UNCHANGED used
        ELSE IF ~Allowed(Len(new)) THEN Answer("budget") /\ UNCHANGED used
        ELSE /\ used' = used + Len(new)
             /\ Goes("validate") /\ UNCHANGED <<fd, seen, identity>>
  /\ UNCHANGED <<inodes, name, written, calls, changes>>

\* validate_target: by stat.
SameStat == IF identity = None THEN name = 0
            ELSE name = identity.inode /\ inodes[name].stamp = identity.stamp
Validate ==
  /\ pc = "validate"
  /\ IF SameStat THEN Goes("commit") /\ UNCHANGED <<fd, seen, identity>>
     ELSE Answer("error")
  /\ UNCHANGED <<inodes, name, used, written, calls, changes>>

\* Fault: what is replaced is compared by its stat alone.
Expected_Stat == SameStat
\* The version that is replaced has the stat and the content that were read.
Expected == SameStat /\ (identity # None => inodes[name].cells = identity.digest)

\* A warning about durability comes with the success.
Commit ==
  /\ pc = "commit"
  /\ IF Expected
     THEN /\ Replace(Apply(req, data)) /\ \E answer \in {"ok", "warned"} : Answer(answer)
          /\ written' = written + Len(Apply(req, data))
     ELSE Answer("error") /\ UNCHANGED <<inodes, name, written>>
  /\ UNCHANGED <<used, calls, changes>>

-------------------------------------------------------------------------------
\* The user.

Pairs == {p \in Cells \X Cells : p[1] # p[2]}
Saved == {<<>>} \cup {<<Ran(c)>> : c \in Cells}
              \cup {<<Ran(p[1]), Ran(p[2])>> : p \in Pairs}

UserReplaces ==
  /\ changes < MaxUser /\ changes' = changes + 1
  /\ \/ name # 0 /\ name' = 0 /\ inodes' = Unnamed
     \/ \E cells \in Saved : Replace(cells)
  /\ UNCHANGED <<pc, req, fd, seen, data, identity, result, used, written, calls>>

\* In place: the stamp is coarse, and may stay what it is if the size does.
UserWrites ==
  /\ name # 0 /\ changes < MaxUser /\ changes' = changes + 1
  /\ \E cells \in Saved \cup {Broken}, later \in {0, 1} :
       /\ later = 0 => /\ Broken \notin {cells, inodes[name].cells}
                       /\ Len(cells) = Len(inodes[name].cells)
       /\ inodes' = [inodes EXCEPT ![name] = [cells |-> cells, stamp |-> @.stamp + later]]
  /\ UNCHANGED <<name, pc, req, fd, seen, data, identity, result, used, written, calls>>

Next ==
  \/ \E r \in Requests : Call(r)
  \/ Open \/ ReadFirst \/ ReadRest \/ CheckRead \/ Identify \/ Reserve \/ Validate
  \/ Commit \/ UserReplaces \/ UserWrites

Spec == Init /\ [][Next]_vars

-------------------------------------------------------------------------------
\* The state is of the types that the code gives it.
TypeOK ==
  /\ name \in 0 .. Len(inodes) /\ fd \in 0 .. Len(inodes)
  /\ pc \in {"idle", "open", "first", "rest", "check", "identify", "reserve",
             "validate", "commit"}
  /\ req \in Requests \cup {None} /\ result \in {None, "ok", "warned", "error", "budget"}
  /\ used \in 0 .. MaxBytes

Content == IF name = 0 THEN None ELSE inodes[name].cells
Without(cells, k) == [i \in 1 .. Len(cells) - 1 |-> cells[IF i < k THEN i ELSE i + 1]]

(* What the agent puts in the place of a version is that version with the  *)
(* edit, and no edit of the user made while the call read, checked or      *)
(* identified the file goes away with it; a call that is to make a file    *)
(* replaces none (file_io.py:110, tools.py:153).                           *)
EditsTheCurrent ==
  pc = "commit" /\ pc' = "idle" /\ result' # "error" =>
    /\ Content' = Apply(req, IF name = 0 THEN <<>> ELSE Content)
    /\ req.tool = "Write" => name = 0

(* An edit touches one cell, the one that it names: without it, the cells  *)
(* are the same ones in the same order.  A new cell follows the one that   *)
(* is named, or comes last, under an identifier that no other cell has;    *)
(* and a text that is there twice is not replaced without replace_all      *)
(* (tools.py:263-336, 133).                                                *)
OnlyTheNamedCell ==
  pc = "commit" /\ pc' = "idle" /\ result' # "error" /\ name # 0 =>
    /\ req.tool = "Edit" /\ ~req.all =>
         \E k \in DOMAIN Content : \A i \in DOMAIN Content : Content[i] # Content'[i] <=> i = k
    /\ req.tool = "Notebook" /\ req.anchor.id # None =>
         LET at == {i \in DOMAIN Content : Content[i].id = req.anchor.id}
         IN \E k \in 1 .. Len(Content) + 1 :
              \/ /\ req.mode = "insert"
                 /\ Content = Without(Content', k) /\ Content'[k].id = calls
                 /\ \A i \in DOMAIN Content : Content[i].id # calls
                 /\ at = IF k = Len(Content') /\ at = {} THEN {} ELSE {k - 1}
              \/ req.mode = "delete" /\ at = {k} /\ Content' = Without(Content, k)
              \/ /\ req.mode = "replace" /\ at = {k} /\ Content'[k] = Cell(req.anchor.id, "b")
                 /\ Without(Content', k) = Without(Content, k)

(* What the calls of a delegation have written stays within its budget,    *)
(* however they ended (resource_budget.py:27).                             *)
WithinBudget == written <= used /\ used <= MaxBytes
================================================================================
