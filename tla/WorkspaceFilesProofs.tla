-------------------------- MODULE WorkspaceFilesProofs --------------------------
(***************************************************************************)
(* Proofs about how a file is replaced, for any files and versions of      *)
(* other processes, any number of failing system calls and any number of   *)
(* agents, and about the walks that find files.  In a commit, on POSIX and *)
(* on Windows, the place in the call says which names hold the tool's own  *)
(* file and which hold nothing; what other processes are owed is under a   *)
(* name throughout, because the file that is unlinked was compared, and no *)
(* version is written twice.  Of the agents that commit at once, each      *)
(* version made is under a name until it is superseded.  An edit is made   *)
(* from the version that it replaces, and every identifier is of one cell. *)
(* A walk's automaton is where the path led it, and every path that nobody *)
(* touched is found, about to be found, or ahead of a directory that is    *)
(* open.                                                                   *)
(***************************************************************************)
EXTENDS MCWorkspaceFiles, SequenceTheorems, WellFoundedInduction, TLAPS

-------------------------------------------------------------------------------
(* The commit on POSIX: its inductive invariant.                           *)

Early == {"begin", "prepare", "ready", "swap"}

(* The hidden names that are free wherever the tool stands.                *)
FreeNames ==
  /\ pc \in {"begin", "prepare", "audit", "unlink", "restore", "reclaim", "remove"}
       => dir["temp"] = None
  /\ pc \in Early \cup {"park", "unpark", "discard", "purge"} => dir["recovery"] = None

(* Where the replacement is not.                                           *)
OwnFile ==
  /\ pc \in Early \cup {"discard", "purge", "reclaim", "remove"} => dir["target"] # Mine
  /\ pc \in {"park", "unpark"} => dir["temp"] # Mine
  /\ pc \in {"audit", "unlink", "restore"} => dir["recovery"] # Mine
  /\ pc = "purge" => dir["temp"] \in {Mine, None}
  /\ pc = "remove" => dir["recovery"] \in {Mine, None}

(* What is reported, and when.                                             *)
Reporting ==
  /\ pc \notin {"done", "cleaned"} => result = "none"
  /\ pc \in Early => ~published
  /\ pc \in {"park", "unpark", "audit", "unlink", "restore"} => published

(* No version of another process is written twice.                         *)
Numbered ==
  /\ \A n \in Names : dir[n] \in Files => data[dir[n]] \in used
  /\ data[Mine] \in used \cup {New}
  /\ baseline # None => baseline[2] \in used

(* What the comparisons tell, although files are written after them.       *)
Compared ==
  /\ pc \in {"park", "audit", "unlink"} => baseline # None
  /\ pc = "park" /\ Ident("temp") = baseline => displaced = baseline
  /\ pc = "audit" /\ Ident("recovery") = baseline => displaced = baseline
  /\ pc = "unlink" =>
       /\ displaced = baseline
       /\ \A v \in Held("recovery") \cap owed : v = baseline[2]
  /\ pc \in {"purge", "remove"} => data[Mine] \notin owed

IInv == /\ TypeOK /\ FreeNames /\ OwnFile /\ Reporting /\ Numbered /\ Compared
        /\ ForeignDataKept /\ ReportIsTrue /\ NothingLeft

-------------------------------------------------------------------------------
(* Lemmas about single steps.                                              *)

USE FailuresAssumption DEF Names

(* The parts of the assumption that the steps need.                        *)
LEMMA Distinct == Mine \notin Files /\ New \notin Versions /\ None \notin Files \cup {Mine}
  BY DistinctAssumption

(* A version under a name is an identity, and is not nothing.              *)
LEMMA IdentType ==
  ASSUME TypeOK, NEW n \in Names
  PROVE  /\ dir[n] = None => Ident(n) = None
         /\ dir[n] # None => /\ Ident(n) = <<dir[n], data[dir[n]]>>
                             /\ Ident(n) \in Identities /\ Ident(n) # None
  BY DistinctAssumption DEF TypeOK, Ident, Identities

(* A name with the version that the tool wrote names the tool's file.      *)
LEMMA OwnIdent ==
  ASSUME TypeOK, NEW n \in Names, Ident(n) = <<Mine, New>>
  PROVE  dir[n] = Mine /\ data[Mine] = New
<1>1. dir[n] # None
  BY DistinctAssumption DEF TypeOK, Ident
<1> QED
  BY <1>1 DEF TypeOK, Ident

-------------------------------------------------------------------------------
(* One lemma for each part of the invariant.                               *)

(* Every variable keeps its type, and no file has two names.               *)
LEMMA TypeStep == IInv /\ [Next]_vars => TypeOK'
<1> SUFFICES ASSUME IInv, [Next]_vars PROVE TypeOK'
  OBVIOUS
<1> USE DEF IInv, TypeOK, toolVars, foreignVars, Goto, End, Works, Fails, Refused
<1>1. CASE Begin
  <2>1. Ident("target") \in Identities \cup {None}
    BY IdentType
  <2> QED
    BY <1>1, <2>1 DEF Begin
<1>2. CASE Prepare
  <2>1. CASE dir' = [dir EXCEPT !["temp"] = Mine] /\ data' = [data EXCEPT ![Mine] = New]
    <3>1. \A n \in Names : dir[n] # Mine
      BY <1>2, Distinct DEF Prepare, FreeNames, OwnFile, Early
    <3> QED
      BY <1>2, <2>1, <3>1 DEF Prepare
  <2>2. CASE UNCHANGED <<dir, data>>
    BY <1>2, <2>2 DEF Prepare
  <2> QED
    BY <1>2, <2>1, <2>2 DEF Prepare
<1>3. CASE Revalidate
  BY <1>3 DEF Revalidate
<1>4. CASE PublishMissing
  <2>1. Ident("target") \in Identities \cup {None}
    BY IdentType
  <2>2. published' \in BOOLEAN
    BY <1>4, Zenon DEF PublishMissing, Published
  <2>3. displaced' \in Identities \cup {None}
    BY <1>4, <2>1 DEF PublishMissing, Published
  <2> QED
    BY <1>4, <2>2, <2>3 DEF PublishMissing, Moved
<1>5. CASE Exchange
  <2>1. Ident("target") \in Identities \cup {None}
    BY IdentType
  <2>2. published' \in BOOLEAN
    BY <1>5, Zenon DEF Exchange, Published
  <2>3. displaced' \in Identities \cup {None}
    BY <1>5, <2>1 DEF Exchange, Published
  <2> QED
    BY <1>5, <2>2, <2>3 DEF Exchange, Exchanged
<1>6. CASE Park
  BY <1>6 DEF Park, Moved
<1>7. CASE Unpark
  BY <1>7 DEF Unpark, PutBack, Exchanged
<1>8. CASE Audit
  BY <1>8 DEF Audit
<1>9. CASE UnlinkDisplaced
  BY <1>9 DEF UnlinkDisplaced, Unlinked
<1>10. CASE Restore
  BY <1>10 DEF Restore, PutBack, Exchanged
<1>11. CASE Reclaim
  BY <1>11 DEF Reclaim, CheckOwned, RemoveOwned, Unlinked
<1>12. CASE Discard
  BY <1>12 DEF Discard, CheckOwned, RemoveOwned, Unlinked
<1>13. CASE Terminate \/ Kill \/ CleanUp
  BY <1>13 DEF Terminate, Kill, CleanUp
<1>14. CASE \E v \in Versions : ForeignStore(v)
  BY <1>14 DEF ForeignStore, Fresh
<1>15. CASE \E v \in Versions, f \in Files : ForeignReplace(f, v)
  BY <1>15 DEF ForeignReplace, Fresh, Linked, Held
<1>16. CASE ForeignOpen \/ ForeignClose
  BY <1>16 DEF ForeignOpen, ForeignClose
<1>17. CASE \E n \in Names : ForeignRemove(n)
  BY <1>17 DEF ForeignRemove, Unlinked, Held
<1>18. CASE UNCHANGED vars
  BY <1>18 DEF vars
<1> QED
  BY <1>1, <1>2, <1>3, <1>4, <1>5, <1>6, <1>7, <1>8, <1>9, <1>10, <1>11, <1>12,
     <1>13, <1>14, <1>15, <1>16, <1>17, <1>18
  DEF Next, Tool, Commit, Foreign
(* Where the tool stands says where its file is and which names are free.  *)
LEMMA PlaceStep == IInv /\ [Next]_vars => FreeNames' /\ OwnFile' /\ Reporting'
<1> SUFFICES ASSUME IInv, [Next]_vars PROVE FreeNames' /\ OwnFile' /\ Reporting'
  OBVIOUS
<1> USE Distinct DEF IInv, TypeOK, FreeNames, OwnFile, Reporting, Early,
        toolVars, foreignVars, Goto, End, Works, Fails, Refused
<1>1. CASE Begin
  BY <1>1 DEF Begin
<1>2. CASE Prepare
  BY <1>2 DEF Prepare
<1>3. CASE Revalidate
  BY <1>3 DEF Revalidate
<1>4. CASE PublishMissing
  BY <1>4 DEF PublishMissing, Published, Moved
<1>5. CASE Exchange
  BY <1>5 DEF Exchange, Published, Exchanged
<1>6. CASE Park
  BY <1>6 DEF Park, Moved
<1>7. CASE Unpark
  BY <1>7 DEF Unpark, PutBack, Exchanged
<1>8. CASE Audit
  BY <1>8 DEF Audit
<1>9. CASE UnlinkDisplaced
  BY <1>9 DEF UnlinkDisplaced, Unlinked
<1>10. CASE Restore
  BY <1>10 DEF Restore, PutBack, Exchanged
<1>11. CASE Reclaim
  <2>1. Ident("recovery") = <<Mine, New>> => dir["recovery"] = Mine
    BY OwnIdent
  <2> QED
    BY <1>11, <2>1 DEF Reclaim, CheckOwned, RemoveOwned, Unlinked
<1>12. CASE Discard
  <2>1. Ident("temp") = <<Mine, New>> => dir["temp"] = Mine
    BY OwnIdent
  <2> QED
    BY <1>12, <2>1 DEF Discard, CheckOwned, RemoveOwned, Unlinked
<1>13. CASE Terminate \/ Kill \/ CleanUp
  BY <1>13 DEF Terminate, Kill, CleanUp
<1>14. CASE \E v \in Versions : ForeignStore(v)
  BY <1>14 DEF ForeignStore, Fresh
<1>15. CASE \E v \in Versions, f \in Files : ForeignReplace(f, v)
  BY <1>15 DEF ForeignReplace, Fresh, Linked, Held
<1>16. CASE ForeignOpen \/ ForeignClose
  BY <1>16 DEF ForeignOpen, ForeignClose
<1>17. CASE \E n \in Names : ForeignRemove(n)
  BY <1>17 DEF ForeignRemove, Unlinked, Held
<1>18. CASE UNCHANGED vars
  BY <1>18 DEF vars
<1> QED
  BY <1>1, <1>2, <1>3, <1>4, <1>5, <1>6, <1>7, <1>8, <1>9, <1>10, <1>11, <1>12,
     <1>13, <1>14, <1>15, <1>16, <1>17, <1>18
  DEF Next, Tool, Commit, Foreign

(* What is written to the target, or was, is of a version that was used.   *)
LEMMA NumberedStep == IInv /\ [Next]_vars => Numbered'
<1> SUFFICES ASSUME IInv, [Next]_vars PROVE Numbered'
  OBVIOUS
<1> USE Distinct DEF IInv, TypeOK, Numbered, toolVars, foreignVars,
        Goto, End, Works, Fails, Refused
<1>1. CASE Begin
  <2>1. \/ baseline' = None \/ UNCHANGED baseline
        \/ /\ dir["target"] # None /\ baseline' = <<dir["target"], data[dir["target"]]>>
           /\ dir["target"] # Mine
    BY <1>1 DEF Begin, Ident, OwnFile, Early
  <2> QED
    BY <1>1, <2>1 DEF Begin
<1>2. CASE Prepare
  <2>1. CASE dir' = [dir EXCEPT !["temp"] = Mine] /\ data' = [data EXCEPT ![Mine] = New]
    BY <1>2, <2>1 DEF Prepare, FreeNames, OwnFile, Early
  <2>2. CASE UNCHANGED <<dir, data>>
    BY <1>2, <2>2 DEF Prepare
  <2> QED
    BY <1>2, <2>1, <2>2 DEF Prepare
<1>3. CASE Revalidate
  BY <1>3 DEF Revalidate
<1>4. CASE PublishMissing
  BY <1>4 DEF PublishMissing, Published, Moved
<1>5. CASE Exchange
  BY <1>5 DEF Exchange, Published, Exchanged
<1>6. CASE Park
  BY <1>6 DEF Park, Moved
<1>7. CASE Unpark
  BY <1>7 DEF Unpark, PutBack, Exchanged
<1>8. CASE Audit
  BY <1>8 DEF Audit
<1>9. CASE UnlinkDisplaced
  BY <1>9 DEF UnlinkDisplaced, Unlinked
<1>10. CASE Restore
  BY <1>10 DEF Restore, PutBack, Exchanged
<1>11. CASE Reclaim
  BY <1>11 DEF Reclaim, CheckOwned, RemoveOwned, Unlinked
<1>12. CASE Discard
  BY <1>12 DEF Discard, CheckOwned, RemoveOwned, Unlinked
<1>13. CASE Terminate \/ Kill \/ CleanUp
  BY <1>13 DEF Terminate, Kill, CleanUp
<1>14. CASE \E v \in Versions : ForeignStore(v)
  BY <1>14 DEF ForeignStore, Fresh
<1>15. CASE \E v \in Versions, f \in Files : ForeignReplace(f, v)
  BY <1>15 DEF ForeignReplace, Fresh, Linked, Held
<1>16. CASE ForeignOpen \/ ForeignClose
  BY <1>16 DEF ForeignOpen, ForeignClose
<1>17. CASE \E n \in Names : ForeignRemove(n)
  BY <1>17 DEF ForeignRemove, Unlinked, Held
<1>18. CASE UNCHANGED vars
  BY <1>18 DEF vars
<1> QED
  BY <1>1, <1>2, <1>3, <1>4, <1>5, <1>6, <1>7, <1>8, <1>9, <1>10, <1>11, <1>12,
     <1>13, <1>14, <1>15, <1>16, <1>17, <1>18
  DEF Next, Tool, Commit, Foreign

(* A comparison stays true: what it compared may only be written anew.     *)
LEMMA ComparedStep == IInv /\ [Next]_vars => Compared'
<1> SUFFICES ASSUME IInv, [Next]_vars PROVE Compared'
  OBVIOUS
<1> USE DEF IInv, TypeOK, Compared, toolVars, foreignVars, Goto, End, Works, Fails, Refused
<1>1. CASE Begin
  <2>1. pc' \notin {"park", "audit", "unlink", "purge", "remove"}
    BY <1>1 DEF Begin
  <2> QED
    BY <2>1
<1>2. CASE Prepare
  <2>1. pc' \notin {"park", "audit", "unlink", "purge", "remove"}
    BY <1>2 DEF Prepare
  <2> QED
    BY <2>1
<1>3. CASE Revalidate
  <2>1. pc' \notin {"park", "audit", "unlink", "purge", "remove"}
    BY <1>3 DEF Revalidate
  <2> QED
    BY <2>1
<1>4. CASE PublishMissing
  <2>1. pc' \notin {"park", "audit", "unlink", "purge", "remove"}
    BY <1>4 DEF PublishMissing, Published, Moved
  <2> QED
    BY <2>1
<1>5. CASE Exchange
  <2>1. CASE pc' = "park"
    <3>1. /\ baseline' = baseline /\ baseline # None
          /\ dir'["temp"] = dir["target"] /\ data' = data
          /\ displaced' = Ident("target")
      BY <1>5, <2>1 DEF Exchange, Published, Exchanged
    <3>2. Ident("temp")' = displaced'
      BY <3>1 DEF Ident
    <3> QED
      BY <2>1, <3>1, <3>2
  <2>2. CASE pc' = "discard"
    BY <2>2
  <2> QED
    BY <1>5, <2>1, <2>2 DEF Exchange
<1>6. CASE Park
  <2>1. CASE pc' = "audit"
    <3>1. /\ baseline' = baseline /\ displaced' = displaced
          /\ dir'["recovery"] = dir["temp"] /\ data' = data /\ pc = "park"
      BY <1>6, <2>1 DEF Park, Moved
    <3>2. Ident("recovery")' = Ident("temp")
      BY <3>1 DEF Ident
    <3> QED
      BY <2>1, <3>1, <3>2
  <2>2. CASE pc' = "unpark"
    BY <2>2
  <2> QED
    BY <1>6, <2>1, <2>2 DEF Park
<1>7. CASE Unpark
  <2>1. pc' \notin {"park", "audit", "unlink", "purge", "remove"}
    BY <1>7 DEF Unpark, PutBack, Exchanged
  <2> QED
    BY <2>1
<1>8. CASE Audit
  <2>1. CASE pc' = "unlink"
    <3>1. /\ pc = "audit" /\ Ident("recovery") = baseline
          /\ UNCHANGED <<baseline, displaced, dir, data, owed>>
      BY <1>8, <2>1 DEF Audit
    <3>2. Ident("recovery") = <<dir["recovery"], data[dir["recovery"]]>>
      BY <3>1, IdentType
    <3>3. \A v \in Held("recovery")' : v = baseline[2]
      BY <3>1, <3>2 DEF Held
    <3> QED
      BY <2>1, <3>1, <3>3
  <2>2. CASE pc' = "restore"
    BY <2>2
  <2> QED
    BY <1>8, <2>1, <2>2 DEF Audit
<1>9. CASE UnlinkDisplaced
  <2>1. pc' \notin {"park", "audit", "unlink", "purge", "remove"}
    BY <1>9 DEF UnlinkDisplaced, Unlinked
  <2> QED
    BY <2>1
<1>10. CASE Restore
  <2>1. pc' \notin {"park", "audit", "unlink", "purge", "remove"}
    BY <1>10 DEF Restore, PutBack, Exchanged
  <2> QED
    BY <2>1
<1>11. CASE Reclaim
  <2>1. CASE pc' = "remove"
    <3>1. Ident("recovery") = <<Mine, New>> /\ UNCHANGED <<data, owed>>
      BY <1>11, <2>1 DEF Reclaim, CheckOwned, RemoveOwned
    <3>2. data'[Mine] \notin owed'
      BY <3>1, OwnIdent, Distinct
    <3> QED
      BY <2>1, <3>2
  <2>2. CASE pc' = "done"
    BY <2>2
  <2> QED
    BY <1>11, <2>1, <2>2 DEF Reclaim, CheckOwned, RemoveOwned
<1>12. CASE Discard
  <2>1. CASE pc' = "purge"
    <3>1. Ident("temp") = <<Mine, New>> /\ UNCHANGED <<data, owed>>
      BY <1>12, <2>1 DEF Discard, CheckOwned, RemoveOwned
    <3>2. data'[Mine] \notin owed'
      BY <3>1, OwnIdent, Distinct
    <3> QED
      BY <2>1, <3>2
  <2>2. CASE pc' = "done"
    BY <2>2
  <2> QED
    BY <1>12, <2>1, <2>2 DEF Discard, CheckOwned, RemoveOwned
<1>13. CASE Terminate \/ Kill \/ CleanUp
  <2>1. pc' \notin {"park", "audit", "unlink", "purge", "remove"}
    BY <1>13 DEF Terminate, Kill, CleanUp
  <2> QED
    BY <2>1
<1>14. CASE \E v \in Versions : ForeignStore(v)
  <2> PICK v \in Versions : ForeignStore(v)
    BY <1>14
  <2>1. /\ writer # None /\ v \notin used /\ data' = [data EXCEPT ![writer] = v]
        /\ owed' = (owed \ {data[writer]}) \cup (IF dir["target"] = writer THEN {v} ELSE {})
        /\ UNCHANGED <<toolVars, dir>>
    BY DEF ForeignStore, Fresh
  <2>2. \A n \in Names : Ident(n)' = baseline /\ baseline # None => Ident(n) = baseline
    BY <2>1 DEF Ident, Numbered
  <2>3. \A u \in Held("recovery")' \cap owed' : pc = "unlink" => u \in Held("recovery") \cap owed
    BY <2>1, Distinct DEF Held, Numbered, OwnFile
  <2>4. pc \in {"purge", "remove"} => data'[Mine] \notin owed'
    BY <2>1, Distinct DEF Numbered, OwnFile
  <2> QED
    BY <2>1, <2>2, <2>3, <2>4
<1>15. CASE \E v \in Versions, f \in Files : ForeignReplace(f, v)
  <2> PICK v \in Versions, f \in Files : ForeignReplace(f, v)
    BY <1>15
  <2>1. /\ f \notin Linked /\ v \notin used /\ data' = [data EXCEPT ![f] = v]
        /\ dir' = [dir EXCEPT !["target"] = f]
        /\ owed' = (owed \ Held("target")) \cup {v}
        /\ UNCHANGED toolVars
    BY DEF ForeignReplace, Fresh
  <2>2. \A n \in Names \ {"target"} : Ident(n)' = Ident(n) /\ Held(n)' = Held(n)
    BY <2>1, Distinct DEF Ident, Held, Linked
  <2>3. pc = "unlink" => v \notin Held("recovery")
    BY <2>1, Distinct DEF Held, Numbered, OwnFile
  <2>4. pc \in {"purge", "remove"} => data'[Mine] \notin owed'
    BY <2>1, Distinct DEF Numbered
  <2> QED
    BY <2>1, <2>2, <2>3, <2>4
<1>16. CASE ForeignOpen \/ ForeignClose
  <2>1. UNCHANGED <<toolVars, dir, data, owed>>
    BY <1>16 DEF ForeignOpen, ForeignClose
  <2> QED
    BY <2>1 DEF Ident, Held
<1>17. CASE \E n \in Names : ForeignRemove(n)
  <2> PICK n \in Names : ForeignRemove(n)
    BY <1>17
  <2>1. /\ dir' = [dir EXCEPT ![n] = None] /\ owed' \subseteq owed
        /\ UNCHANGED <<toolVars, data>>
    BY DEF ForeignRemove, Unlinked
  <2>2. \A m \in Names : /\ Ident(m)' \in {Ident(m), None}
                         /\ Held(m)' \subseteq Held(m)
    BY <2>1 DEF Ident, Held
  <2> QED
    BY <2>1, <2>2
<1>18. CASE UNCHANGED vars
  <2>1. UNCHANGED <<toolVars, dir, data, owed>>
    BY <1>18 DEF vars, foreignVars
  <2> QED
    BY <2>1 DEF Ident, Held
<1> QED
  BY <1>1, <1>2, <1>3, <1>4, <1>5, <1>6, <1>7, <1>8, <1>9, <1>10, <1>11, <1>12,
     <1>13, <1>14, <1>15, <1>16, <1>17, <1>18
  DEF Next, Tool, Commit, Foreign

(* What is owed keeps a name.                                              *)
LEMMA DataStep == IInv /\ [Next]_vars => ForeignDataKept'
<1> SUFFICES ASSUME IInv, [Next]_vars PROVE ForeignDataKept'
  OBVIOUS
<1> USE DEF IInv, TypeOK, ForeignDataKept, toolVars, foreignVars, Goto, End, Works, Fails, Refused
<1>1. CASE Begin
  <2>1. ~published /\ UNCHANGED <<dir, data, owed>>
    BY <1>1 DEF Begin, Reporting, Early
  <2> QED
    BY <2>1 DEF Held
<1>2. CASE Prepare
  <2>1. UNCHANGED <<baseline, published, displaced, owed>>
    BY <1>2 DEF Prepare
  <2>2. \A n \in Names : Held(n) \subseteq Held(n)'
    <3>1. CASE dir' = [dir EXCEPT !["temp"] = Mine] /\ data' = [data EXCEPT ![Mine] = New]
      BY <1>2, <3>1 DEF Prepare, Held, FreeNames, OwnFile, Early
    <3>2. CASE UNCHANGED <<dir, data>>
      BY <3>2 DEF Held
    <3> QED
      BY <1>2, <3>1, <3>2 DEF Prepare
  <2> QED
    BY <2>1, <2>2
<1>3. CASE Revalidate
  <2>1. UNCHANGED <<baseline, published, displaced, dir, data, owed>>
    BY <1>3 DEF Revalidate
  <2> QED
    BY <2>1 DEF Held
<1>4. CASE PublishMissing
  <2>1. ~published /\ UNCHANGED <<data, owed>>
    BY <1>4 DEF PublishMissing, Reporting, Early
  <2>2. \A n \in Names : dir[n] # None => \E m \in Names : dir'[m] = dir[n]
    BY <1>4 DEF PublishMissing, Moved, FreeNames, Early
  <2> QED
    BY <2>1, <2>2 DEF Held
<1>5. CASE Exchange
  <2>1. ~published /\ UNCHANGED <<data, owed>>
    BY <1>5 DEF Exchange, Reporting, Early
  <2>2. \A n \in Names : dir[n] # None => \E m \in Names : dir'[m] = dir[n]
    BY <1>5 DEF Exchange, Exchanged, FreeNames, Early
  <2> QED
    BY <2>1, <2>2 DEF Held
<1>6. CASE Park
  <2>1. UNCHANGED <<baseline, published, displaced, data, owed>>
    BY <1>6 DEF Park
  <2>2. \A n \in Names : dir[n] # None => \E m \in Names : dir'[m] = dir[n]
    BY <1>6 DEF Park, Moved, FreeNames
  <2> QED
    BY <2>1, <2>2 DEF Held
<1>7. CASE Unpark
  <2>1. UNCHANGED <<baseline, published, displaced, data, owed>>
    BY <1>7 DEF Unpark, PutBack
  <2>2. \A n \in Names : dir[n] # None => \E m \in Names : dir'[m] = dir[n]
    BY <1>7 DEF Unpark, PutBack, Exchanged
  <2> QED
    BY <2>1, <2>2 DEF Held
<1>8. CASE Audit
  <2>1. UNCHANGED <<baseline, published, displaced, dir, data, owed>>
    BY <1>8 DEF Audit
  <2> QED
    BY <2>1 DEF Held
<1>9. CASE UnlinkDisplaced
  <2>1. /\ UNCHANGED <<baseline, published, displaced, data, owed>> /\ published
        /\ baseline # None /\ displaced = baseline
        /\ \A v \in Held("recovery") \cap owed : v = baseline[2]
    BY <1>9 DEF UnlinkDisplaced, Reporting, Compared
  <2>2. \A n \in Names \ {"recovery"} : Held(n)' = Held(n)
    BY <1>9 DEF UnlinkDisplaced, Unlinked, Held
  <2> QED
    BY <2>1, <2>2
<1>10. CASE Restore
  <2>1. UNCHANGED <<baseline, published, displaced, data, owed>>
    BY <1>10 DEF Restore, PutBack
  <2>2. \A n \in Names : dir[n] # None => \E m \in Names : dir'[m] = dir[n]
    BY <1>10 DEF Restore, PutBack, Exchanged
  <2> QED
    BY <2>1, <2>2 DEF Held
<1>11. CASE Reclaim
  <2>1. UNCHANGED <<baseline, published, displaced, data, owed>>
    BY <1>11 DEF Reclaim, CheckOwned, RemoveOwned
  <2>2. CASE UNCHANGED dir
    BY <2>1, <2>2 DEF Held
  <2>3. CASE pc = "remove" /\ dir' = [dir EXCEPT !["recovery"] = None]
    <3>1. Held("recovery") \cap owed = {}
      BY <2>3 DEF Held, OwnFile, Compared
    <3>2. \A n \in Names \ {"recovery"} : Held(n)' = Held(n)
      BY <2>1, <2>3 DEF Held
    <3> QED
      BY <2>1, <3>1, <3>2
  <2> QED
    BY <1>11, <2>2, <2>3 DEF Reclaim, CheckOwned, RemoveOwned, Unlinked
<1>12. CASE Discard
  <2>1. UNCHANGED <<baseline, published, displaced, data, owed>>
    BY <1>12 DEF Discard, CheckOwned, RemoveOwned
  <2>2. CASE UNCHANGED dir
    BY <2>1, <2>2 DEF Held
  <2>3. CASE pc = "purge" /\ dir' = [dir EXCEPT !["temp"] = None]
    <3>1. Held("temp") \cap owed = {}
      BY <2>3 DEF Held, OwnFile, Compared
    <3>2. \A n \in Names \ {"temp"} : Held(n)' = Held(n)
      BY <2>1, <2>3 DEF Held
    <3> QED
      BY <2>1, <3>1, <3>2
  <2> QED
    BY <1>12, <2>2, <2>3 DEF Discard, CheckOwned, RemoveOwned, Unlinked
<1>13. CASE Terminate \/ Kill \/ CleanUp
  <2>1. UNCHANGED <<baseline, published, displaced, dir, data, owed>>
    BY <1>13 DEF Terminate, Kill, CleanUp
  <2> QED
    BY <2>1 DEF Held
<1>14. CASE \E v \in Versions : ForeignStore(v)
  <2> PICK v \in Versions : ForeignStore(v)
    BY <1>14
  <2>1. /\ writer # None /\ data' = [data EXCEPT ![writer] = v]
        /\ owed' = (owed \ {data[writer]}) \cup (IF dir["target"] = writer THEN {v} ELSE {})
        /\ UNCHANGED <<baseline, published, displaced, dir>>
    BY DEF ForeignStore
  <2>2. \A u \in owed' : u = v \/ (u \in owed /\ u # data[writer])
    BY <2>1
  <2>3. v \in owed' => v \in Held("target")' \/ (v \in owed /\ v # data[writer])
    BY <2>1 DEF Held
  <2>4. \A u \in owed : u # data[writer] =>
          \/ \E n \in Names : u \in Held(n)'
          \/ (published /\ displaced = baseline /\ baseline # None /\ u = baseline[2])'
    BY <2>1 DEF Held
  <2> QED
    BY <2>2, <2>3, <2>4
<1>15. CASE \E v \in Versions, f \in Files : ForeignReplace(f, v)
  <2> PICK v \in Versions, f \in Files : ForeignReplace(f, v)
    BY <1>15
  <2>1. /\ f \notin Linked /\ data' = [data EXCEPT ![f] = v]
        /\ dir' = [dir EXCEPT !["target"] = f]
        /\ owed' = (owed \ Held("target")) \cup {v}
        /\ UNCHANGED <<baseline, published, displaced>>
    BY DEF ForeignReplace
  <2>2. \A n \in Names \ {"target"} : Held(n)' = Held(n)
    BY <2>1, Distinct DEF Held, Linked
  <2>3. v \in Held("target")'
    BY <2>1, Distinct DEF Held
  <2> QED
    BY <2>1, <2>2, <2>3
<1>16. CASE ForeignOpen \/ ForeignClose
  <2>1. UNCHANGED <<baseline, published, displaced, dir, data, owed>>
    BY <1>16 DEF ForeignOpen, ForeignClose
  <2> QED
    BY <2>1 DEF Held
<1>17. CASE \E n \in Names : ForeignRemove(n)
  <2> PICK n \in Names : ForeignRemove(n)
    BY <1>17
  <2>1. /\ dir' = [dir EXCEPT ![n] = None] /\ owed' = owed \ Held(n)
        /\ UNCHANGED <<baseline, published, displaced, data>>
    BY DEF ForeignRemove, Unlinked
  <2>2. \A m \in Names \ {n} : Held(m)' = Held(m)
    BY <2>1 DEF Held
  <2> QED
    BY <2>1, <2>2
<1>18. CASE UNCHANGED vars
  <2>1. UNCHANGED <<baseline, published, displaced, dir, data, owed>>
    BY <1>18 DEF vars
  <2> QED
    BY <2>1 DEF Held
<1> QED
  BY <1>1, <1>2, <1>3, <1>4, <1>5, <1>6, <1>7, <1>8, <1>9, <1>10, <1>11, <1>12,
     <1>13, <1>14, <1>15, <1>16, <1>17, <1>18
  DEF Next, Tool, Commit, Foreign

(* The report is true when it is made, and stays so.                       *)
LEMMA ReportStep == IInv /\ [Next]_vars => ReportIsTrue'
<1> SUFFICES ASSUME IInv, [Next]_vars PROVE ReportIsTrue'
  OBVIOUS
<1> USE DEF IInv, TypeOK, ReportIsTrue, toolVars, foreignVars, Goto, End, Works, Fails, Refused
<1>1. CASE Begin
  BY <1>1 DEF Begin, Reporting, OwnFile, Early
<1>2. CASE Prepare
  BY <1>2 DEF Prepare, Reporting, OwnFile, Early
<1>3. CASE Revalidate
  <2>1. result' = "none"
    BY <1>3 DEF Revalidate, Reporting
  <2> QED
    BY <2>1
<1>4. CASE PublishMissing
  <2>1. dir["target"] = None => Ident("target") = None
    BY IdentType
  <2> QED
    BY <1>4, <2>1 DEF PublishMissing, Published, Reporting
<1>5. CASE Exchange
  <2>1. result' = "none"
    BY <1>5 DEF Exchange, Published, Exchanged, Reporting
  <2> QED
    BY <2>1
<1>6. CASE Park
  <2>1. result' = "none"
    BY <1>6 DEF Park, Moved, Reporting
  <2> QED
    BY <2>1
<1>7. CASE Unpark
  BY <1>7 DEF Unpark, PutBack, Exchanged, Reporting
<1>8. CASE Audit
  <2>1. result' = "none"
    BY <1>8 DEF Audit, Reporting
  <2> QED
    BY <2>1
<1>9. CASE UnlinkDisplaced
  BY <1>9 DEF UnlinkDisplaced, Reporting, Compared
<1>10. CASE Restore
  BY <1>10 DEF Restore, PutBack, Exchanged, Reporting
<1>11. CASE Reclaim
  BY <1>11 DEF Reclaim, CheckOwned, RemoveOwned, Unlinked, Reporting, OwnFile
<1>12. CASE Discard
  BY <1>12 DEF Discard, CheckOwned, RemoveOwned, Unlinked, Reporting, OwnFile
<1>13. CASE Terminate \/ Kill \/ CleanUp
  BY <1>13 DEF Terminate, Kill, CleanUp, Reporting, OwnFile, Early
<1>14. CASE \E v \in Versions : ForeignStore(v)
  BY <1>14 DEF ForeignStore, Fresh
<1>15. CASE \E v \in Versions, f \in Files : ForeignReplace(f, v)
  BY <1>15, Distinct DEF ForeignReplace
<1>16. CASE ForeignOpen \/ ForeignClose
  BY <1>16 DEF ForeignOpen, ForeignClose
<1>17. CASE \E n \in Names : ForeignRemove(n)
  BY <1>17, Distinct DEF ForeignRemove, Unlinked
<1>18. CASE UNCHANGED vars
  BY <1>18 DEF vars
<1> QED
  BY <1>1, <1>2, <1>3, <1>4, <1>5, <1>6, <1>7, <1>8, <1>9, <1>10, <1>11, <1>12,
     <1>13, <1>14, <1>15, <1>16, <1>17, <1>18
  DEF Next, Tool, Commit, Foreign

(* What a call leaves when nothing failed is not its own.                  *)
LEMMA LeftStep == IInv /\ [Next]_vars => NothingLeft'
<1> SUFFICES ASSUME IInv, [Next]_vars PROVE NothingLeft'
  OBVIOUS
<1> USE DEF IInv, TypeOK, NothingLeft, toolVars, foreignVars, Goto, End, Works, Fails, Refused
<1>1. CASE Begin
  <2>1. \/ dir'["temp"] = None /\ dir'["recovery"] = None
        \/ result' = "none" \/ failures' # 0
    BY <1>1 DEF Begin, Reporting, FreeNames, Early
  <2> QED
    BY <2>1, DistinctAssumption DEF Ident
<1>2. CASE Prepare
  <2>1. \/ dir'["temp"] = None /\ dir'["recovery"] = None
        \/ result' = "none" \/ failures' # 0
    BY <1>2 DEF Prepare, Reporting, FreeNames, Early
  <2> QED
    BY <2>1, DistinctAssumption DEF Ident
<1>3. CASE Revalidate
  <2>1. result' = "none"
    BY <1>3 DEF Revalidate, Reporting
  <2> QED
    BY <2>1
<1>4. CASE PublishMissing
  <2>1. \/ dir'["temp"] = None /\ dir'["recovery"] = None
        \/ result' = "none" \/ failures' # 0
    BY <1>4 DEF PublishMissing, Published, Moved, Reporting, FreeNames, Early
  <2> QED
    BY <2>1, DistinctAssumption DEF Ident
<1>5. CASE Exchange
  <2>1. result' = "none"
    BY <1>5 DEF Exchange, Published, Exchanged, Reporting
  <2> QED
    BY <2>1
<1>6. CASE Park
  <2>1. result' = "none"
    BY <1>6 DEF Park, Moved, Reporting
  <2> QED
    BY <2>1
<1>7. CASE Unpark
  <2>1. result' \in {"none", "warning"}
    BY <1>7 DEF Unpark, PutBack, Exchanged, Reporting
  <2> QED
    BY <2>1
<1>8. CASE Audit
  <2>1. result' = "none"
    BY <1>8 DEF Audit, Reporting
  <2> QED
    BY <2>1
<1>9. CASE UnlinkDisplaced
  <2>1. \/ dir'["temp"] = None /\ dir'["recovery"] = None
        \/ result' = "none" \/ failures' # 0
    BY <1>9 DEF UnlinkDisplaced, Unlinked, Reporting, FreeNames, Early
  <2> QED
    BY <2>1, DistinctAssumption DEF Ident
<1>10. CASE Restore
  <2>1. result' \in {"none", "warning"}
    BY <1>10 DEF Restore, PutBack, Exchanged, Reporting
  <2> QED
    BY <2>1
<1>11. CASE Reclaim
  <2>1. dir["temp"] = None /\ UNCHANGED data
    BY <1>11 DEF Reclaim, CheckOwned, RemoveOwned, FreeNames
  <2>2. \/ result' = "none" \/ failures' # 0
        \/ UNCHANGED dir /\ Ident("recovery") # <<Mine, New>>
        \/ dir' = [dir EXCEPT !["recovery"] = None]
    BY <1>11 DEF Reclaim, CheckOwned, RemoveOwned, Unlinked, Reporting
  <2> QED
    BY <2>1, <2>2, DistinctAssumption DEF Ident
<1>12. CASE Discard
  <2>1. dir["recovery"] = None /\ UNCHANGED data
    BY <1>12 DEF Discard, CheckOwned, RemoveOwned, FreeNames
  <2>2. \/ result' = "none" \/ failures' # 0
        \/ UNCHANGED dir /\ Ident("temp") # <<Mine, New>>
        \/ dir' = [dir EXCEPT !["temp"] = None]
    BY <1>12 DEF Discard, CheckOwned, RemoveOwned, Unlinked, Reporting
  <2> QED
    BY <2>1, <2>2, DistinctAssumption DEF Ident
<1>13. CASE Terminate \/ Kill \/ CleanUp
  <2>1. UNCHANGED <<dir, data, failures>> /\ result' \in {result, "none", "stopped"}
    BY <1>13 DEF Terminate, Kill, CleanUp
  <2> QED
    BY <2>1 DEF Ident
<1>14. CASE \E v \in Versions : ForeignStore(v)
  <2> PICK v \in Versions : ForeignStore(v)
    BY <1>14
  <2>1. /\ writer # None /\ data' = [data EXCEPT ![writer] = v]
        /\ UNCHANGED <<dir, result, failures>>
    BY DEF ForeignStore
  <2>2. \A n \in Names : Ident(n)' = <<Mine, New>> => Ident(n) = <<Mine, New>>
    BY <2>1, DistinctAssumption DEF Ident
  <2> QED
    BY <2>1, <2>2
<1>15. CASE \E v \in Versions, f \in Files : ForeignReplace(f, v)
  <2> PICK v \in Versions, f \in Files : ForeignReplace(f, v)
    BY <1>15
  <2>1. /\ f \notin Linked /\ data' = [data EXCEPT ![f] = v]
        /\ dir' = [dir EXCEPT !["target"] = f]
        /\ UNCHANGED <<result, failures>>
    BY DEF ForeignReplace
  <2>2. \A n \in Names \ {"target"} : Ident(n)' = Ident(n)
    BY <2>1, Distinct DEF Ident, Linked
  <2> QED
    BY <2>1, <2>2
<1>16. CASE ForeignOpen \/ ForeignClose
  BY <1>16 DEF ForeignOpen, ForeignClose, Ident
<1>17. CASE \E n \in Names : ForeignRemove(n)
  <2> PICK n \in Names : ForeignRemove(n)
    BY <1>17
  <2>1. dir' = [dir EXCEPT ![n] = None] /\ UNCHANGED <<data, result, failures>>
    BY DEF ForeignRemove, Unlinked
  <2> QED
    BY <2>1, DistinctAssumption DEF Ident
<1>18. CASE UNCHANGED vars
  BY <1>18 DEF vars, Ident
<1> QED
  BY <1>1, <1>2, <1>3, <1>4, <1>5, <1>6, <1>7, <1>8, <1>9, <1>10, <1>11, <1>12,
     <1>13, <1>14, <1>15, <1>16, <1>17, <1>18
  DEF Next, Tool, Commit, Foreign

-------------------------------------------------------------------------------
(* The theorems.                                                           *)

(* The invariant holds initially.                                          *)
LEMMA InitInv == Init => IInv
<1> SUFFICES ASSUME Init PROVE IInv
  OBVIOUS
<1>1. TypeOK
  <2>1. published \in BOOLEAN
    BY Zenon DEF Init
  <2>2. owed \in SUBSET used /\ used \in SUBSET Versions
    BY DEF Init
  <2> QED
    BY <2>1, <2>2, Distinct DEF Init, TypeOK
<1>2. FreeNames /\ OwnFile /\ Reporting /\ Numbered
  BY Distinct DEF Init, FreeNames, OwnFile, Reporting, Numbered, Early
<1>3. Compared /\ ForeignDataKept /\ ReportIsTrue /\ NothingLeft
  BY DEF Init, Compared, ForeignDataKept, ReportIsTrue, NothingLeft
<1> QED
  BY <1>1, <1>2, <1>3 DEF IInv

LEMMA PosixStep == IInv /\ [Next]_vars => IInv'
  BY TypeStep, PlaceStep, NumberedStep, ComparedStep, DataStep, ReportStep, LeftStep DEF IInv

(* The invariant holds in every reachable state, whatever fails, whoever   *)
(* writes and whenever the tool is stopped or killed.                      *)
THEOREM Strengthening == Spec => []IInv
  BY InitInv, PosixStep, PTL DEF Spec

(* The variables of a commit keep their types, and no file ever has two    *)
(* of the three names.                                                     *)
THEOREM TypeCorrect == Spec => []TypeOK
<1>1. IInv => TypeOK
  BY DEF IInv
<1> QED
  BY <1>1, Strengthening, PTL

(* What other processes wrote to the target is under some name until one   *)
(* of them replaces it (posix_atomic_commit.py:221-259).                   *)
THEOREM ForeignDataIsKept == Spec => []ForeignDataKept
<1>1. IInv => ForeignDataKept
  BY DEF IInv
<1> QED
  BY <1>1, Strengthening, PTL

(* What the call reports of the target is true (file_io.py:189).           *)
THEOREM ReportsAreRight == Spec => []ReportIsTrue
<1>1. IInv => ReportIsTrue
  BY DEF IInv
<1> QED
  BY <1>1, Strengthening, PTL

(* A call in which nothing fails leaves no replacement behind under a      *)
(* hidden name (file_io.py:211).                                           *)
THEOREM NothingIsLeft == Spec => []NothingLeft
<1>1. IInv => NothingLeft
  BY DEF IInv
<1> QED
  BY <1>1, Strengthening, PTL

(* No step of the tool takes the target's name away.                       *)
LEMMA TargetKept ==
  ASSUME IInv, [Next]_vars, Tool, dir["target"] # None
  PROVE  dir'["target"] # None
<1> USE DEF IInv, TypeOK, toolVars, foreignVars
<1>1. CASE Begin \/ Revalidate \/ Audit \/ Terminate \/ Kill \/ CleanUp
  BY <1>1 DEF Begin, Revalidate, Audit, Terminate, Kill, CleanUp
<1>2. CASE Prepare
  BY <1>2 DEF Prepare
<1>3. CASE PublishMissing \/ Exchange \/ Park
  BY <1>3 DEF PublishMissing, Exchange, Park, Exchanged, Moved
<1>4. CASE Unpark \/ Restore
  BY <1>4 DEF Unpark, Restore, PutBack, Exchanged
<1>5. CASE UnlinkDisplaced \/ Reclaim \/ Discard
  BY <1>5 DEF UnlinkDisplaced, Reclaim, Discard, CheckOwned, RemoveOwned, Unlinked
<1> QED
  BY <1>1, <1>2, <1>3, <1>4, <1>5 DEF Tool, Commit

(* A reader finds a file under the target's name at every moment: no step  *)
(* of the tool takes the name away (posix_atomic_commit.py:228).           *)
THEOREM TargetAlwaysStays == Spec => TargetStays
<1>1. IInv /\ [Next]_vars => [Tool => (dir["target"] # None => dir'["target"] # None)]_vars
  BY TargetKept
<1> QED
  BY <1>1, Strengthening, PTL DEF Spec, TargetStays

-------------------------------------------------------------------------------
(* The commit on Windows: its inductive invariant.                         *)

(* The hidden names that are free wherever the tool stands.                *)
WindowsFreeNames ==
  /\ pc \in {"begin", "prepare", "audit", "drop", "restore", "unreplace", "reclaim", "remove"}
       => dir["temp"] = None
  /\ pc \in Early \cup {"reclaim", "remove"} => dir["backup"] = None
  /\ pc \in Early \cup {"putback", "audit", "drop", "restore", "discard", "purge"}
       => dir["recovery"] = None

(* Where the replacement is not.  Under its first name nobody has it open, *)
(* so that the cleanup may delete it there uncompared.                     *)
WindowsOwnFile ==
  /\ dir["temp"] # None => dir["temp"] = Mine /\ data[Mine] = New /\ writer # Mine
  /\ dir["backup"] # Mine
  /\ pc \in Early \cup {"putback", "discard", "purge", "unreplace", "reclaim", "remove"}
       => dir["target"] # Mine
  /\ pc \in Early => writer # Mine
  /\ pc = "remove" => dir["recovery"] \in {Mine, None}

(* What is reported, and when.                                             *)
WindowsReporting ==
  /\ pc \notin {"done", "cleaned"} => result = "none"
  /\ pc \in Early \cup {"putback"} => ~published
  /\ pc \in {"audit", "drop", "restore", "unreplace"} => published

(* No version of another process is written twice.                         *)
WindowsNumbered ==
  /\ \A n \in Windows!Names : dir[n] \in Files => data[dir[n]] \in used
  /\ data[Mine] \in used \cup {New}
  /\ baseline # None => baseline[2] \in used

(* What the comparisons tell, although files are written after them.       *)
WindowsCompared ==
  /\ pc \in {"audit", "drop"} => baseline # None
  /\ pc = "audit" /\ Windows!Ident("backup") = baseline => displaced = baseline
  /\ pc = "drop" =>
       /\ displaced = baseline
       /\ \A v \in Windows!Held("backup") \cap owed : v = baseline[2]
  /\ pc = "remove" => data[Mine] \notin owed

WindowsInv ==
  /\ Windows!TypeOK /\ WindowsFreeNames /\ WindowsOwnFile /\ WindowsReporting
  /\ WindowsNumbered /\ WindowsCompared
  /\ Windows!ForeignDataKept /\ Windows!ReportIsTrue /\ Windows!NothingLeft

-------------------------------------------------------------------------------
(* Lemmas about its single steps.                                          *)

USE DEF Windows!Names

(* A version under a name is an identity, and is not nothing.              *)
LEMMA WindowsIdentType ==
  ASSUME Windows!TypeOK, NEW n \in Windows!Names
  PROVE  /\ dir[n] = None => Windows!Ident(n) = None
         /\ dir[n] # None => /\ Windows!Ident(n) = <<dir[n], data[dir[n]]>>
                             /\ Windows!Ident(n) \in Windows!Identities
                             /\ Windows!Ident(n) # None
  BY DistinctAssumption DEF Windows!TypeOK, Windows!Ident, Windows!Identities

(* A name with the version that the tool wrote names the tool's file.      *)
LEMMA WindowsOwnIdent ==
  ASSUME Windows!TypeOK, NEW n \in Windows!Names, Windows!Ident(n) = <<Mine, New>>
  PROVE  dir[n] = Mine /\ data[Mine] = New
<1>1. dir[n] # None
  BY DistinctAssumption DEF Windows!TypeOK, Windows!Ident
<1> QED
  BY <1>1 DEF Windows!TypeOK, Windows!Ident

(* Every variable keeps its type, and no file has two names.               *)
LEMMA WindowsTypeStep == WindowsInv /\ [Windows!Next]_vars => Windows!TypeOK'
<1> SUFFICES ASSUME WindowsInv, [Windows!Next]_vars PROVE Windows!TypeOK'
  OBVIOUS
<1> USE DEF WindowsInv, Windows!TypeOK,
        toolVars, foreignVars, Windows!toolVars, Windows!foreignVars,
        Windows!Goto, Windows!End, Windows!Works, Windows!Fails, Windows!Refused
<1>1. CASE Windows!Begin
  <2>1. Windows!Ident("target") \in Windows!Identities \cup {None}
    BY WindowsIdentType
  <2> QED
    BY <1>1, <2>1 DEF Windows!Begin
<1>2. CASE Windows!Prepare
  <2>1. CASE dir' = [dir EXCEPT !["temp"] = Mine] /\ data' = [data EXCEPT ![Mine] = New]
    <3>1. \A n \in Windows!Names : dir[n] # Mine
      BY <1>2, Distinct DEF Windows!Prepare, WindowsFreeNames, WindowsOwnFile, Early
    <3> QED
      BY <1>2, <2>1, <3>1 DEF Windows!Prepare
  <2>2. CASE UNCHANGED <<dir, data>>
    BY <1>2, <2>2 DEF Windows!Prepare
  <2> QED
    BY <1>2, <2>1, <2>2 DEF Windows!Prepare
<1>3. CASE Windows!Revalidate
  BY <1>3 DEF Windows!Revalidate, Windows!Looks
<1>4. CASE Windows!PublishMissing
  <2>1. Windows!Ident("target") \in Windows!Identities \cup {None}
    BY WindowsIdentType
  <2>2. published' \in BOOLEAN
    BY <1>4, Zenon DEF Windows!PublishMissing, Windows!Published
  <2>3. displaced' \in Windows!Identities \cup {None}
    BY <1>4, <2>1 DEF Windows!PublishMissing, Windows!Published
  <2> QED
    BY <1>4, <2>2, <2>3 DEF Windows!PublishMissing, Windows!Published, Windows!CanPublish, Windows!PublishedAs
<1>5. CASE Windows!Replace
  <2>1. Windows!Ident("target") \in Windows!Identities \cup {None}
    BY WindowsIdentType
  <2>2. published' \in BOOLEAN
    BY <1>5, Zenon DEF Windows!Replace, Windows!Published
  <2>3. displaced' \in Windows!Identities \cup {None}
    BY <1>5, <2>1 DEF Windows!Replace, Windows!Published
  <2> QED
    BY <1>5, <2>2, <2>3 DEF Windows!Replace, Windows!Published, Windows!CanReplace, Windows!Replaced,
         Windows!HalfReplaced
<1>6. CASE Windows!RecoverPartial
  BY <1>6 DEF Windows!RecoverPartial, Windows!CanPublish, Windows!PublishedAs
<1>7. CASE Windows!Audit
  BY <1>7 DEF Windows!Audit, Windows!Looks
<1>8. CASE Windows!DropDisplaced
  BY <1>8 DEF Windows!DropDisplaced, Windows!Deleted
<1>9. CASE Windows!Restore
  BY <1>9 DEF Windows!Restore, Windows!CanReplace, Windows!Replaced, Windows!HalfReplaced
<1>10. CASE Windows!Unreplace
  BY <1>10 DEF Windows!Unreplace, Windows!CanPublish, Windows!PublishedAs
<1>11. CASE Windows!Reclaim
  BY <1>11 DEF Windows!Reclaim, Windows!CheckOwned, Windows!RemoveOwned, Windows!Deleted,
         Windows!Looks
<1>12. CASE Windows!Discard
  BY <1>12 DEF Windows!Discard, Windows!CheckOwned, Windows!RemoveOwned, Windows!Deleted,
         Windows!Looks
<1>13. CASE Windows!Kill
  BY <1>13 DEF Windows!Kill, Windows!CanReplace, Windows!HalfReplaced
<1>14. CASE Windows!CleanUp
  BY <1>14 DEF Windows!CleanUp, Windows!Deleted
<1>15. CASE \E v \in Versions : Windows!ForeignStore(v)
  BY <1>15 DEF Windows!ForeignStore, Windows!Fresh
<1>16. CASE \E v \in Versions, f \in Files : Windows!ForeignReplace(f, v)
  BY <1>16 DEF Windows!ForeignReplace, Windows!Fresh, Windows!Linked,
         Windows!Held
<1>17. CASE Windows!ForeignOpen \/ Windows!ForeignClose
  BY <1>17 DEF Windows!ForeignOpen, Windows!ForeignClose
<1>18. CASE \E n \in Windows!Names : Windows!ForeignRemove(n)
  BY <1>18 DEF Windows!ForeignRemove, Windows!Deleted, Windows!Held, Windows!Anchored
<1>19. CASE UNCHANGED vars
  BY <1>19 DEF vars
<1> QED
  BY <1>1, <1>2, <1>3, <1>4, <1>5, <1>6, <1>7, <1>8, <1>9, <1>10, <1>11, <1>12,
     <1>13, <1>14, <1>15, <1>16, <1>17, <1>18, <1>19
  DEF Windows!Next, Windows!Tool, Windows!Commit, Windows!Foreign

(* Where the tool stands says where its file is and which names are free.  *)
LEMMA WindowsPlaceStep == WindowsInv /\ [Windows!Next]_vars => WindowsFreeNames' /\ WindowsOwnFile'
<1> SUFFICES ASSUME WindowsInv, [Windows!Next]_vars PROVE WindowsFreeNames' /\ WindowsOwnFile'
  OBVIOUS
<1> USE Distinct DEF WindowsInv, Windows!TypeOK, WindowsFreeNames, WindowsOwnFile, Early,
        toolVars, foreignVars, Windows!toolVars, Windows!foreignVars,
        Windows!Goto, Windows!End, Windows!Works, Windows!Fails, Windows!Refused
<1>1. CASE Windows!Begin
  BY <1>1 DEF Windows!Begin
<1>2. CASE Windows!Prepare
  BY <1>2 DEF Windows!Prepare
<1>3. CASE Windows!Revalidate
  BY <1>3 DEF Windows!Revalidate, Windows!Looks
<1>4. CASE Windows!PublishMissing
  BY <1>4 DEF Windows!PublishMissing, Windows!Published, Windows!CanPublish, Windows!PublishedAs
<1>5. CASE Windows!Replace
  BY <1>5 DEF Windows!Replace, Windows!Published, Windows!CanReplace, Windows!Replaced,
         Windows!HalfReplaced
<1>6. CASE Windows!RecoverPartial
  BY <1>6 DEF Windows!RecoverPartial, Windows!CanPublish, Windows!PublishedAs
<1>7. CASE Windows!Audit
  BY <1>7 DEF Windows!Audit, Windows!Looks
<1>8. CASE Windows!DropDisplaced
  BY <1>8 DEF Windows!DropDisplaced, Windows!Deleted
<1>9. CASE Windows!Restore
  BY <1>9 DEF Windows!Restore, Windows!CanReplace, Windows!Replaced, Windows!HalfReplaced
<1>10. CASE Windows!Unreplace
  BY <1>10 DEF Windows!Unreplace, Windows!CanPublish, Windows!PublishedAs
<1>11. CASE Windows!Reclaim
  <2>1. Windows!Ident("recovery") = <<Mine, New>> => dir["recovery"] = Mine
    BY WindowsOwnIdent
  <2> QED
    BY <1>11, <2>1 DEF Windows!Reclaim, Windows!CheckOwned, Windows!RemoveOwned, Windows!Deleted,
         Windows!Looks
<1>12. CASE Windows!Discard
  BY <1>12 DEF Windows!Discard, Windows!CheckOwned, Windows!RemoveOwned, Windows!Deleted,
         Windows!Looks
<1>13. CASE Windows!Kill
  BY <1>13 DEF Windows!Kill, Windows!CanReplace, Windows!HalfReplaced
<1>14. CASE Windows!CleanUp
  BY <1>14 DEF Windows!CleanUp, Windows!Deleted
<1>15. CASE \E v \in Versions : Windows!ForeignStore(v)
  BY <1>15 DEF Windows!ForeignStore, Windows!Fresh
<1>16. CASE \E v \in Versions, f \in Files : Windows!ForeignReplace(f, v)
  BY <1>16 DEF Windows!ForeignReplace, Windows!Fresh, Windows!Linked,
         Windows!Held
<1>17. CASE Windows!ForeignOpen \/ Windows!ForeignClose
  BY <1>17 DEF Windows!ForeignOpen, Windows!ForeignClose
<1>18. CASE \E n \in Windows!Names : Windows!ForeignRemove(n)
  BY <1>18 DEF Windows!ForeignRemove, Windows!Deleted, Windows!Held, Windows!Anchored
<1>19. CASE UNCHANGED vars
  BY <1>19 DEF vars
<1> QED
  BY <1>1, <1>2, <1>3, <1>4, <1>5, <1>6, <1>7, <1>8, <1>9, <1>10, <1>11, <1>12,
     <1>13, <1>14, <1>15, <1>16, <1>17, <1>18, <1>19
  DEF Windows!Next, Windows!Tool, Windows!Commit, Windows!Foreign

(* Nothing is reported before the end.                                     *)
LEMMA WindowsReportingStep == WindowsInv /\ [Windows!Next]_vars => WindowsReporting'
<1> SUFFICES ASSUME WindowsInv, [Windows!Next]_vars PROVE WindowsReporting'
  OBVIOUS
<1> USE DEF WindowsInv, Windows!TypeOK, WindowsReporting, Early,
        toolVars, foreignVars, Windows!toolVars, Windows!foreignVars,
        Windows!Goto, Windows!End, Windows!Works, Windows!Fails, Windows!Refused
<1>1. CASE Windows!Begin
  BY <1>1 DEF Windows!Begin
<1>2. CASE Windows!Prepare
  BY <1>2 DEF Windows!Prepare
<1>3. CASE Windows!Revalidate
  BY <1>3 DEF Windows!Revalidate, Windows!Looks
<1>4. CASE Windows!PublishMissing
  BY <1>4 DEF Windows!PublishMissing, Windows!Published, Windows!CanPublish, Windows!PublishedAs
<1>5. CASE Windows!Replace
  BY <1>5 DEF Windows!Replace, Windows!Published, Windows!CanReplace, Windows!Replaced,
         Windows!HalfReplaced
<1>6. CASE Windows!RecoverPartial
  BY <1>6 DEF Windows!RecoverPartial, Windows!CanPublish, Windows!PublishedAs
<1>7. CASE Windows!Audit
  BY <1>7 DEF Windows!Audit, Windows!Looks
<1>8. CASE Windows!DropDisplaced
  BY <1>8 DEF Windows!DropDisplaced, Windows!Deleted
<1>9. CASE Windows!Restore
  BY <1>9 DEF Windows!Restore, Windows!CanReplace, Windows!Replaced, Windows!HalfReplaced
<1>10. CASE Windows!Unreplace
  BY <1>10 DEF Windows!Unreplace, Windows!CanPublish, Windows!PublishedAs
<1>11. CASE Windows!Reclaim
  BY <1>11 DEF Windows!Reclaim, Windows!CheckOwned, Windows!RemoveOwned, Windows!Deleted,
         Windows!Looks
<1>12. CASE Windows!Discard
  BY <1>12 DEF Windows!Discard, Windows!CheckOwned, Windows!RemoveOwned, Windows!Deleted,
         Windows!Looks
<1>13. CASE Windows!Kill
  BY <1>13 DEF Windows!Kill, Windows!CanReplace, Windows!HalfReplaced
<1>14. CASE Windows!CleanUp
  BY <1>14 DEF Windows!CleanUp, Windows!Deleted
<1>15. CASE \E v \in Versions : Windows!ForeignStore(v)
  BY <1>15 DEF Windows!ForeignStore, Windows!Fresh
<1>16. CASE \E v \in Versions, f \in Files : Windows!ForeignReplace(f, v)
  BY <1>16 DEF Windows!ForeignReplace, Windows!Fresh, Windows!Linked,
         Windows!Held
<1>17. CASE Windows!ForeignOpen \/ Windows!ForeignClose
  BY <1>17 DEF Windows!ForeignOpen, Windows!ForeignClose
<1>18. CASE \E n \in Windows!Names : Windows!ForeignRemove(n)
  BY <1>18 DEF Windows!ForeignRemove, Windows!Deleted, Windows!Held, Windows!Anchored
<1>19. CASE UNCHANGED vars
  BY <1>19 DEF vars
<1> QED
  BY <1>1, <1>2, <1>3, <1>4, <1>5, <1>6, <1>7, <1>8, <1>9, <1>10, <1>11, <1>12,
     <1>13, <1>14, <1>15, <1>16, <1>17, <1>18, <1>19
  DEF Windows!Next, Windows!Tool, Windows!Commit, Windows!Foreign

(* What is written to the target, or was, is of a version that was used.   *)
LEMMA WindowsNumberedStep == WindowsInv /\ [Windows!Next]_vars => WindowsNumbered'
<1> SUFFICES ASSUME WindowsInv, [Windows!Next]_vars PROVE WindowsNumbered'
  OBVIOUS
<1> USE Distinct DEF WindowsInv, Windows!TypeOK, WindowsNumbered,
        toolVars, foreignVars, Windows!toolVars, Windows!foreignVars,
        Windows!Goto, Windows!End, Windows!Works, Windows!Fails, Windows!Refused
<1>1. CASE Windows!Begin
  <2>1. \/ baseline' = None \/ UNCHANGED baseline
        \/ /\ dir["target"] # None /\ baseline' = <<dir["target"], data[dir["target"]]>>
           /\ dir["target"] # Mine
    BY <1>1 DEF Windows!Begin, Windows!Ident, WindowsOwnFile, Early
  <2> QED
    BY <1>1, <2>1 DEF Windows!Begin
<1>2. CASE Windows!Prepare
  <2>1. CASE dir' = [dir EXCEPT !["temp"] = Mine] /\ data' = [data EXCEPT ![Mine] = New]
    BY <1>2, <2>1 DEF Windows!Prepare, WindowsFreeNames, WindowsOwnFile, Early
  <2>2. CASE UNCHANGED <<dir, data>>
    BY <1>2, <2>2 DEF Windows!Prepare
  <2> QED
    BY <1>2, <2>1, <2>2 DEF Windows!Prepare
<1>3. CASE Windows!Revalidate
  BY <1>3 DEF Windows!Revalidate, Windows!Looks
<1>4. CASE Windows!PublishMissing
  BY <1>4 DEF Windows!PublishMissing, Windows!Published, Windows!CanPublish, Windows!PublishedAs
<1>5. CASE Windows!Replace
  BY <1>5 DEF Windows!Replace, Windows!Published, Windows!CanReplace, Windows!Replaced,
         Windows!HalfReplaced
<1>6. CASE Windows!RecoverPartial
  BY <1>6 DEF Windows!RecoverPartial, Windows!CanPublish, Windows!PublishedAs
<1>7. CASE Windows!Audit
  BY <1>7 DEF Windows!Audit, Windows!Looks
<1>8. CASE Windows!DropDisplaced
  BY <1>8 DEF Windows!DropDisplaced, Windows!Deleted
<1>9. CASE Windows!Restore
  BY <1>9 DEF Windows!Restore, Windows!CanReplace, Windows!Replaced, Windows!HalfReplaced
<1>10. CASE Windows!Unreplace
  BY <1>10 DEF Windows!Unreplace, Windows!CanPublish, Windows!PublishedAs
<1>11. CASE Windows!Reclaim
  BY <1>11 DEF Windows!Reclaim, Windows!CheckOwned, Windows!RemoveOwned, Windows!Deleted,
         Windows!Looks
<1>12. CASE Windows!Discard
  BY <1>12 DEF Windows!Discard, Windows!CheckOwned, Windows!RemoveOwned, Windows!Deleted,
         Windows!Looks
<1>13. CASE Windows!Kill
  BY <1>13 DEF Windows!Kill, Windows!CanReplace, Windows!HalfReplaced
<1>14. CASE Windows!CleanUp
  BY <1>14 DEF Windows!CleanUp, Windows!Deleted
<1>15. CASE \E v \in Versions : Windows!ForeignStore(v)
  BY <1>15 DEF Windows!ForeignStore, Windows!Fresh
<1>16. CASE \E v \in Versions, f \in Files : Windows!ForeignReplace(f, v)
  BY <1>16 DEF Windows!ForeignReplace, Windows!Fresh, Windows!Linked,
         Windows!Held
<1>17. CASE Windows!ForeignOpen \/ Windows!ForeignClose
  BY <1>17 DEF Windows!ForeignOpen, Windows!ForeignClose
<1>18. CASE \E n \in Windows!Names : Windows!ForeignRemove(n)
  BY <1>18 DEF Windows!ForeignRemove, Windows!Deleted, Windows!Held, Windows!Anchored
<1>19. CASE UNCHANGED vars
  BY <1>19 DEF vars
<1> QED
  BY <1>1, <1>2, <1>3, <1>4, <1>5, <1>6, <1>7, <1>8, <1>9, <1>10, <1>11, <1>12,
     <1>13, <1>14, <1>15, <1>16, <1>17, <1>18, <1>19
  DEF Windows!Next, Windows!Tool, Windows!Commit, Windows!Foreign

(* A comparison stays true: what it compared may only be written anew.     *)
LEMMA WindowsComparedStep == WindowsInv /\ [Windows!Next]_vars => WindowsCompared'
<1> SUFFICES ASSUME WindowsInv, [Windows!Next]_vars PROVE WindowsCompared'
  OBVIOUS
<1> USE DEF WindowsInv, Windows!TypeOK, WindowsCompared,
        toolVars, foreignVars, Windows!toolVars, Windows!foreignVars,
        Windows!Goto, Windows!End, Windows!Works, Windows!Fails, Windows!Refused
<1>1. CASE Windows!Begin
  <2>1. pc' \notin {"audit", "drop", "remove"}
    BY <1>1 DEF Windows!Begin
  <2> QED
    BY <2>1
<1>2. CASE Windows!Prepare
  <2>1. pc' \notin {"audit", "drop", "remove"}
    BY <1>2 DEF Windows!Prepare
  <2> QED
    BY <2>1
<1>3. CASE Windows!Revalidate
  <2>1. pc' \notin {"audit", "drop", "remove"}
    BY <1>3 DEF Windows!Revalidate, Windows!Looks
  <2> QED
    BY <2>1
<1>4. CASE Windows!PublishMissing
  <2>1. pc' \notin {"audit", "drop", "remove"}
    BY <1>4 DEF Windows!PublishMissing, Windows!Published, Windows!CanPublish, Windows!PublishedAs
  <2> QED
    BY <2>1
<1>5. CASE Windows!Replace
  <2>1. CASE pc' = "audit"
    <3>1. /\ baseline' = baseline /\ baseline # None
          /\ dir'["backup"] = dir["target"] /\ data' = data
          /\ displaced' = Windows!Ident("target")
      BY <1>5, <2>1 DEF Windows!Replace, Windows!Published, Windows!CanReplace, Windows!Replaced,
         Windows!HalfReplaced
    <3>2. Windows!Ident("backup")' = displaced'
      BY <3>1 DEF Windows!Ident
    <3> QED
      BY <2>1, <3>1, <3>2
  <2>2. CASE pc' \in {"done", "putback", "discard"}
    BY <2>2
  <2> QED
    BY <1>5, <2>1, <2>2 DEF Windows!Replace
<1>6. CASE Windows!RecoverPartial
  <2>1. pc' \notin {"audit", "drop", "remove"}
    BY <1>6 DEF Windows!RecoverPartial, Windows!CanPublish, Windows!PublishedAs
  <2> QED
    BY <2>1
<1>7. CASE Windows!Audit
  <2>1. CASE pc' = "drop"
    <3>1. /\ pc = "audit" /\ Windows!Ident("backup") = baseline
          /\ UNCHANGED <<baseline, displaced, dir, data, owed>>
      BY <1>7, <2>1 DEF Windows!Audit, Windows!Looks
    <3>2. Windows!Ident("backup") = <<dir["backup"], data[dir["backup"]]>>
      BY <3>1, WindowsIdentType
    <3>3. \A v \in Windows!Held("backup")' : v = baseline[2]
      BY <3>1, <3>2 DEF Windows!Held
    <3> QED
      BY <2>1, <3>1, <3>3
  <2>2. CASE pc' \in {"done", "restore"}
    BY <2>2
  <2> QED
    BY <1>7, <2>1, <2>2 DEF Windows!Audit
<1>8. CASE Windows!DropDisplaced
  <2>1. pc' \notin {"audit", "drop", "remove"}
    BY <1>8 DEF Windows!DropDisplaced, Windows!Deleted
  <2> QED
    BY <2>1
<1>9. CASE Windows!Restore
  <2>1. pc' \notin {"audit", "drop", "remove"}
    BY <1>9 DEF Windows!Restore, Windows!CanReplace, Windows!Replaced, Windows!HalfReplaced
  <2> QED
    BY <2>1
<1>10. CASE Windows!Unreplace
  <2>1. pc' \notin {"audit", "drop", "remove"}
    BY <1>10 DEF Windows!Unreplace, Windows!CanPublish, Windows!PublishedAs
  <2> QED
    BY <2>1
<1>11. CASE Windows!Reclaim
  <2>1. CASE pc' = "remove"
    <3>1. Windows!Ident("recovery") = <<Mine, New>> /\ UNCHANGED <<data, owed>>
      BY <1>11, <2>1 DEF Windows!Reclaim, Windows!CheckOwned, Windows!RemoveOwned, Windows!Deleted,
         Windows!Looks
    <3>2. data'[Mine] \notin owed'
      BY <3>1, WindowsOwnIdent, Distinct
    <3> QED
      BY <2>1, <3>2
  <2>2. CASE pc' = "done"
    BY <2>2
  <2> QED
    BY <1>11, <2>1, <2>2 DEF Windows!Reclaim, Windows!CheckOwned, Windows!RemoveOwned, Windows!Deleted,
         Windows!Looks
<1>12. CASE Windows!Discard
  <2>1. pc' \notin {"audit", "drop", "remove"}
    BY <1>12 DEF Windows!Discard, Windows!CheckOwned, Windows!RemoveOwned, Windows!Deleted,
         Windows!Looks
  <2> QED
    BY <2>1
<1>13. CASE Windows!Kill
  <2>1. pc' \notin {"audit", "drop", "remove"}
    BY <1>13 DEF Windows!Kill, Windows!CanReplace, Windows!HalfReplaced
  <2> QED
    BY <2>1
<1>14. CASE Windows!CleanUp
  <2>1. pc' \notin {"audit", "drop", "remove"}
    BY <1>14 DEF Windows!CleanUp, Windows!Deleted
  <2> QED
    BY <2>1
<1>15. CASE \E v \in Versions : Windows!ForeignStore(v)
  <2> PICK v \in Versions : Windows!ForeignStore(v)
    BY <1>15
  <2>1. /\ writer # None /\ v \notin used /\ data' = [data EXCEPT ![writer] = v]
        /\ owed' = (owed \ {data[writer]}) \cup (IF dir["target"] = writer THEN {v} ELSE {})
        /\ UNCHANGED <<toolVars, dir>>
    BY DEF Windows!ForeignStore, Windows!Fresh
  <2>2. Windows!Ident("backup")' = baseline /\ baseline # None => Windows!Ident("backup") = baseline
    BY <2>1 DEF Windows!Ident, WindowsNumbered
  <2>3. \A u \in Windows!Held("backup")' \cap owed' :
          pc = "drop" => u \in Windows!Held("backup") \cap owed
    BY <2>1, Distinct DEF Windows!Held, WindowsNumbered, WindowsOwnFile
  <2>4. pc = "remove" => data'[Mine] \notin owed'
    BY <2>1, Distinct DEF WindowsNumbered, WindowsOwnFile
  <2> QED
    BY <2>1, <2>2, <2>3, <2>4
<1>16. CASE \E v \in Versions, f \in Files : Windows!ForeignReplace(f, v)
  <2> PICK v \in Versions, f \in Files : Windows!ForeignReplace(f, v)
    BY <1>16
  <2>1. /\ f \notin Windows!Linked /\ v \notin used /\ data' = [data EXCEPT ![f] = v]
        /\ dir' = [dir EXCEPT !["target"] = f]
        /\ owed' = (owed \ Windows!Held("target")) \cup {v}
        /\ UNCHANGED toolVars
    BY DEF Windows!ForeignReplace, Windows!Fresh
  <2>2. /\ Windows!Ident("backup")' = Windows!Ident("backup")
        /\ Windows!Held("backup")' = Windows!Held("backup")
    BY <2>1, Distinct DEF Windows!Ident, Windows!Held, Windows!Linked
  <2>3. v \notin Windows!Held("backup")'
    BY <2>1, <2>2, Distinct DEF Windows!Held, WindowsNumbered, WindowsOwnFile
  <2>4. data'[Mine] = data[Mine] /\ v # data[Mine]
    BY <2>1, Distinct DEF WindowsNumbered
  <2> QED
    BY <2>1, <2>2, <2>3, <2>4
<1>17. CASE Windows!ForeignOpen \/ Windows!ForeignClose
  <2>1. UNCHANGED <<toolVars, dir, data, owed>>
    BY <1>17 DEF Windows!ForeignOpen, Windows!ForeignClose
  <2> QED
    BY <2>1 DEF Windows!Ident, Windows!Held
<1>18. CASE \E n \in Windows!Names : Windows!ForeignRemove(n)
  <2> PICK n \in Windows!Names : Windows!ForeignRemove(n)
    BY <1>18
  <2>1. /\ dir' = [dir EXCEPT ![n] = None] /\ owed' = owed \ Windows!Held(n)
        /\ UNCHANGED <<toolVars, data>>
    BY DEF Windows!ForeignRemove, Windows!Deleted
  <2>2. Windows!Ident("backup")' = baseline /\ baseline # None => Windows!Ident("backup") = baseline
    BY <2>1 DEF Windows!Ident
  <2>3. Windows!Held("backup")' \subseteq Windows!Held("backup")
    BY <2>1 DEF Windows!Held
  <2> QED
    BY <2>1, <2>2, <2>3
<1>19. CASE UNCHANGED vars
  <2>1. UNCHANGED <<toolVars, dir, data, owed>>
    BY <1>19 DEF vars
  <2> QED
    BY <2>1 DEF Windows!Ident, Windows!Held
<1> QED
  BY <1>1, <1>2, <1>3, <1>4, <1>5, <1>6, <1>7, <1>8, <1>9, <1>10, <1>11, <1>12,
     <1>13, <1>14, <1>15, <1>16, <1>17, <1>18, <1>19
  DEF Windows!Next, Windows!Tool, Windows!Commit, Windows!Foreign

(* No step loses a version that another process is owed.                   *)
LEMMA WindowsDataStep == WindowsInv /\ [Windows!Next]_vars => Windows!ForeignDataKept'
<1> SUFFICES ASSUME WindowsInv, [Windows!Next]_vars PROVE Windows!ForeignDataKept'
  OBVIOUS
<1> USE DEF WindowsInv, Windows!TypeOK, Windows!ForeignDataKept,
        toolVars, foreignVars, Windows!toolVars, Windows!foreignVars,
        Windows!Goto, Windows!End, Windows!Works, Windows!Fails, Windows!Refused
<1>1. CASE Windows!Begin
  <2>1. UNCHANGED <<dir, data, owed>> /\ ~published
    BY <1>1 DEF Windows!Begin, WindowsReporting, Early
  <2> QED
    BY <2>1 DEF Windows!Held
<1>2. CASE Windows!Prepare
  <2>1. UNCHANGED owed /\ ~published
    BY <1>2 DEF Windows!Prepare, WindowsReporting, Early
  <2>2. CASE dir' = [dir EXCEPT !["temp"] = Mine] /\ data' = [data EXCEPT ![Mine] = New]
    <3>1. \A n \in Windows!Names : dir[n] # None => Windows!Held(n)' = Windows!Held(n)
      BY <1>2, <2>2, Distinct
      DEF Windows!Prepare, Windows!Held, WindowsFreeNames, WindowsOwnFile, Early
    <3> QED
      BY <2>1, <3>1 DEF Windows!Held
  <2>3. CASE UNCHANGED <<dir, data>>
    BY <2>1, <2>3 DEF Windows!Held
  <2> QED
    BY <1>2, <2>2, <2>3 DEF Windows!Prepare
<1>3. CASE Windows!Revalidate
  <2>1. UNCHANGED <<baseline, published, displaced, dir, data, owed>>
    BY <1>3 DEF Windows!Revalidate, Windows!Looks
  <2> QED
    BY <2>1 DEF Windows!Held
<1>4. CASE Windows!PublishMissing
  <2>1. UNCHANGED <<data, owed>> /\ ~published
    BY <1>4 DEF Windows!PublishMissing, Windows!Published, Windows!CanPublish, Windows!PublishedAs,
            WindowsReporting, Early
  <2>2. \A n \in Windows!Names : dir[n] # None => \E m \in Windows!Names : dir'[m] = dir[n]
    BY <1>4 DEF Windows!PublishMissing, Windows!Published, Windows!CanPublish, Windows!PublishedAs, WindowsFreeNames, Early
  <2> QED
    BY <2>1, <2>2 DEF Windows!Held
<1>5. CASE Windows!Replace
  <2>1. UNCHANGED <<data, owed>> /\ ~published
    BY <1>5 DEF Windows!Replace, Windows!Published, Windows!CanReplace, Windows!Replaced,
         Windows!HalfReplaced,
            WindowsReporting, Early
  <2>2. \A n \in Windows!Names : dir[n] # None => \E m \in Windows!Names : dir'[m] = dir[n]
    BY <1>5 DEF Windows!Replace, Windows!Published, Windows!CanReplace, Windows!Replaced,
         Windows!HalfReplaced, WindowsFreeNames, Early
  <2> QED
    BY <2>1, <2>2 DEF Windows!Held
<1>6. CASE Windows!RecoverPartial
  <2>1. UNCHANGED <<baseline, published, displaced, data, owed>>
    BY <1>6 DEF Windows!RecoverPartial, Windows!CanPublish, Windows!PublishedAs
  <2>2. \A n \in Windows!Names : dir[n] # None => \E m \in Windows!Names : dir'[m] = dir[n]
    BY <1>6 DEF Windows!RecoverPartial, Windows!CanPublish, Windows!PublishedAs
  <2> QED
    BY <2>1, <2>2 DEF Windows!Held
<1>7. CASE Windows!Audit
  <2>1. UNCHANGED <<baseline, published, displaced, dir, data, owed>>
    BY <1>7 DEF Windows!Audit, Windows!Looks
  <2> QED
    BY <2>1 DEF Windows!Held
<1>8. CASE Windows!DropDisplaced
  <2>1. /\ UNCHANGED <<baseline, published, displaced, data, owed>> /\ published
        /\ baseline # None /\ displaced = baseline
        /\ \A v \in Windows!Held("backup") \cap owed : v = baseline[2]
    BY <1>8 DEF Windows!DropDisplaced, WindowsReporting, WindowsCompared
  <2>2. \A n \in Windows!Names \ {"backup"} : Windows!Held(n)' = Windows!Held(n)
    BY <1>8 DEF Windows!DropDisplaced, Windows!Deleted, Windows!Held
  <2> QED
    BY <2>1, <2>2
<1>9. CASE Windows!Restore
  <2>1. UNCHANGED <<baseline, published, displaced, data, owed>>
    BY <1>9 DEF Windows!Restore, Windows!CanReplace, Windows!Replaced, Windows!HalfReplaced
  <2>2. \A n \in Windows!Names : dir[n] # None => \E m \in Windows!Names : dir'[m] = dir[n]
    BY <1>9 DEF Windows!Restore, Windows!CanReplace, Windows!Replaced, Windows!HalfReplaced, WindowsFreeNames
  <2> QED
    BY <2>1, <2>2 DEF Windows!Held
<1>10. CASE Windows!Unreplace
  <2>1. UNCHANGED <<baseline, published, displaced, data, owed>>
    BY <1>10 DEF Windows!Unreplace, Windows!CanPublish, Windows!PublishedAs
  <2>2. \A n \in Windows!Names : dir[n] # None => \E m \in Windows!Names : dir'[m] = dir[n]
    BY <1>10 DEF Windows!Unreplace, Windows!CanPublish, Windows!PublishedAs
  <2> QED
    BY <2>1, <2>2 DEF Windows!Held
<1>11. CASE Windows!Reclaim
  <2>1. UNCHANGED <<baseline, published, displaced, data, owed>>
    BY <1>11 DEF Windows!Reclaim, Windows!CheckOwned, Windows!RemoveOwned, Windows!Deleted,
         Windows!Looks
  <2>2. CASE UNCHANGED dir
    BY <2>1, <2>2 DEF Windows!Held
  <2>3. CASE pc = "remove" /\ dir' = [dir EXCEPT !["recovery"] = None]
    <3>1. Windows!Held("recovery") \cap owed = {}
      BY <2>3 DEF Windows!Held, WindowsOwnFile, WindowsCompared
    <3>2. \A n \in Windows!Names \ {"recovery"} : Windows!Held(n)' = Windows!Held(n)
      BY <2>1, <2>3 DEF Windows!Held
    <3> QED
      BY <2>1, <3>1, <3>2
  <2> QED
    BY <1>11, <2>2, <2>3 DEF Windows!Reclaim, Windows!CheckOwned, Windows!RemoveOwned, Windows!Deleted,
         Windows!Looks
<1>12. CASE Windows!Discard
  <2>1. UNCHANGED <<baseline, published, displaced, data, owed>>
    BY <1>12 DEF Windows!Discard, Windows!CheckOwned, Windows!RemoveOwned, Windows!Deleted,
         Windows!Looks
  <2>2. CASE UNCHANGED dir
    BY <2>1, <2>2 DEF Windows!Held
  <2>3. CASE dir' = [dir EXCEPT !["temp"] = None]
    <3>1. Windows!Held("temp") \cap owed = {}
      BY <2>3, Distinct DEF Windows!Held, WindowsOwnFile, WindowsCompared
    <3>2. \A n \in Windows!Names \ {"temp"} : Windows!Held(n)' = Windows!Held(n)
      BY <2>1, <2>3 DEF Windows!Held
    <3> QED
      BY <2>1, <3>1, <3>2
  <2> QED
    BY <1>12, <2>2, <2>3 DEF Windows!Discard, Windows!CheckOwned, Windows!RemoveOwned, Windows!Deleted,
         Windows!Looks
<1>13. CASE Windows!Kill
  <2>1. UNCHANGED <<baseline, published, displaced, data, owed>>
    BY <1>13 DEF Windows!Kill, Windows!CanReplace, Windows!HalfReplaced
  <2>2. \A n \in Windows!Names : dir[n] # None => \E m \in Windows!Names : dir'[m] = dir[n]
    BY <1>13 DEF Windows!Kill, Windows!CanReplace, Windows!HalfReplaced, WindowsFreeNames, Early
  <2> QED
    BY <2>1, <2>2 DEF Windows!Held
<1>14. CASE Windows!CleanUp
  <2>1. UNCHANGED <<baseline, published, displaced, data, owed>>
    BY <1>14 DEF Windows!CleanUp, Windows!Deleted
  <2>2. CASE UNCHANGED dir
    BY <2>1, <2>2 DEF Windows!Held
  <2>3. CASE dir' = [dir EXCEPT !["temp"] = None]
    <3>1. Windows!Held("temp") \cap owed = {}
      BY <2>3, Distinct DEF Windows!Held, WindowsOwnFile, WindowsCompared
    <3>2. \A n \in Windows!Names \ {"temp"} : Windows!Held(n)' = Windows!Held(n)
      BY <2>1, <2>3 DEF Windows!Held
    <3> QED
      BY <2>1, <3>1, <3>2
  <2> QED
    BY <1>14, <2>2, <2>3 DEF Windows!CleanUp, Windows!Deleted
<1>15. CASE \E v \in Versions : Windows!ForeignStore(v)
  <2> PICK v \in Versions : Windows!ForeignStore(v)
    BY <1>15
  <2>1. /\ writer # None /\ data' = [data EXCEPT ![writer] = v]
        /\ owed' = (owed \ {data[writer]}) \cup (IF dir["target"] = writer THEN {v} ELSE {})
        /\ UNCHANGED <<baseline, published, displaced, dir>>
    BY DEF Windows!ForeignStore
  <2>2. \A u \in owed' : u = v \/ (u \in owed /\ u # data[writer])
    BY <2>1
  <2>3. v \in owed' => v \in Windows!Held("target")' \/ (v \in owed /\ v # data[writer])
    BY <2>1 DEF Windows!Held
  <2>4. \A u \in owed : u # data[writer] =>
          \/ \E n \in Windows!Names : u \in Windows!Held(n)'
          \/ (published /\ displaced = baseline /\ baseline # None /\ u = baseline[2])'
    BY <2>1 DEF Windows!Held
  <2> QED
    BY <2>2, <2>3, <2>4
<1>16. CASE \E v \in Versions, f \in Files : Windows!ForeignReplace(f, v)
  <2> PICK v \in Versions, f \in Files : Windows!ForeignReplace(f, v)
    BY <1>16
  <2>1. /\ f \notin Windows!Linked /\ data' = [data EXCEPT ![f] = v]
        /\ dir' = [dir EXCEPT !["target"] = f]
        /\ owed' = (owed \ Windows!Held("target")) \cup {v}
        /\ UNCHANGED <<baseline, published, displaced>>
    BY DEF Windows!ForeignReplace
  <2>2. \A n \in Windows!Names \ {"target"} : Windows!Held(n)' = Windows!Held(n)
    BY <2>1, Distinct DEF Windows!Held, Windows!Linked
  <2>3. v \in Windows!Held("target")'
    BY <2>1, Distinct DEF Windows!Held
  <2> QED
    BY <2>1, <2>2, <2>3
<1>17. CASE Windows!ForeignOpen \/ Windows!ForeignClose
  <2>1. UNCHANGED <<baseline, published, displaced, dir, data, owed>>
    BY <1>17 DEF Windows!ForeignOpen, Windows!ForeignClose
  <2> QED
    BY <2>1 DEF Windows!Held
<1>18. CASE \E n \in Windows!Names : Windows!ForeignRemove(n)
  <2> PICK n \in Windows!Names : Windows!ForeignRemove(n)
    BY <1>18
  <2>1. /\ dir' = [dir EXCEPT ![n] = None] /\ owed' = owed \ Windows!Held(n)
        /\ UNCHANGED <<baseline, published, displaced, data>>
    BY DEF Windows!ForeignRemove, Windows!Deleted
  <2>2. \A m \in Windows!Names \ {n} : Windows!Held(m)' = Windows!Held(m)
    BY <2>1 DEF Windows!Held
  <2> QED
    BY <2>1, <2>2
<1>19. CASE UNCHANGED vars
  <2>1. UNCHANGED <<baseline, published, displaced, dir, data, owed>>
    BY <1>19 DEF vars
  <2> QED
    BY <2>1 DEF Windows!Held
<1> QED
  BY <1>1, <1>2, <1>3, <1>4, <1>5, <1>6, <1>7, <1>8, <1>9, <1>10, <1>11, <1>12,
     <1>13, <1>14, <1>15, <1>16, <1>17, <1>18, <1>19
  DEF Windows!Next, Windows!Tool, Windows!Commit, Windows!Foreign

(* The report is true when it is made, and stays so.                       *)
LEMMA WindowsReportStep == WindowsInv /\ [Windows!Next]_vars => Windows!ReportIsTrue'
<1> SUFFICES ASSUME WindowsInv, [Windows!Next]_vars PROVE Windows!ReportIsTrue'
  OBVIOUS
<1> USE DEF WindowsInv, Windows!TypeOK, Windows!ReportIsTrue,
        toolVars, foreignVars, Windows!toolVars, Windows!foreignVars,
        Windows!Goto, Windows!End, Windows!Works, Windows!Fails, Windows!Refused
<1>1. CASE Windows!Begin
  BY <1>1 DEF Windows!Begin, WindowsReporting, WindowsOwnFile, Early
<1>2. CASE Windows!Prepare
  BY <1>2 DEF Windows!Prepare, WindowsReporting, WindowsOwnFile, Early
<1>3. CASE Windows!Revalidate
  <2>1. result' = "none"
    BY <1>3 DEF Windows!Revalidate, Windows!Looks, WindowsReporting
  <2> QED
    BY <2>1
<1>4. CASE Windows!PublishMissing
  <2>1. dir["target"] = None => Windows!Ident("target") = None
    BY WindowsIdentType
  <2> QED
    BY <1>4, <2>1 DEF Windows!PublishMissing, Windows!Published, Windows!CanPublish, Windows!PublishedAs, WindowsReporting
<1>5. CASE Windows!Replace
  BY <1>5 DEF Windows!Replace, Windows!Published, Windows!CanReplace, Windows!Replaced,
         Windows!HalfReplaced, WindowsReporting
<1>6. CASE Windows!RecoverPartial
  <2>1. result' = "none"
    BY <1>6 DEF Windows!RecoverPartial, Windows!CanPublish, Windows!PublishedAs, WindowsReporting
  <2> QED
    BY <2>1
<1>7. CASE Windows!Audit
  BY <1>7 DEF Windows!Audit, Windows!Looks, WindowsReporting
<1>8. CASE Windows!DropDisplaced
  BY <1>8 DEF Windows!DropDisplaced, Windows!Deleted, WindowsReporting, WindowsCompared
<1>9. CASE Windows!Restore
  BY <1>9 DEF Windows!Restore, Windows!CanReplace, Windows!Replaced, Windows!HalfReplaced, WindowsReporting
<1>10. CASE Windows!Unreplace
  BY <1>10 DEF Windows!Unreplace, Windows!CanPublish, Windows!PublishedAs, WindowsReporting
<1>11. CASE Windows!Reclaim
  BY <1>11 DEF Windows!Reclaim, Windows!CheckOwned, Windows!RemoveOwned, Windows!Deleted,
         Windows!Looks, WindowsReporting, WindowsOwnFile
<1>12. CASE Windows!Discard
  BY <1>12 DEF Windows!Discard, Windows!CheckOwned, Windows!RemoveOwned, Windows!Deleted,
         Windows!Looks, WindowsReporting, WindowsOwnFile
<1>13. CASE Windows!Kill
  BY <1>13 DEF Windows!Kill, Windows!CanReplace, Windows!HalfReplaced, WindowsReporting, WindowsOwnFile
<1>14. CASE Windows!CleanUp
  BY <1>14, Distinct DEF Windows!CleanUp, Windows!Deleted
<1>15. CASE \E v \in Versions : Windows!ForeignStore(v)
  BY <1>15 DEF Windows!ForeignStore, Windows!Fresh
<1>16. CASE \E v \in Versions, f \in Files : Windows!ForeignReplace(f, v)
  BY <1>16, Distinct DEF Windows!ForeignReplace
<1>17. CASE Windows!ForeignOpen \/ Windows!ForeignClose
  BY <1>17 DEF Windows!ForeignOpen, Windows!ForeignClose
<1>18. CASE \E n \in Windows!Names : Windows!ForeignRemove(n)
  BY <1>18, Distinct DEF Windows!ForeignRemove, Windows!Deleted
<1>19. CASE UNCHANGED vars
  BY <1>19 DEF vars
<1> QED
  BY <1>1, <1>2, <1>3, <1>4, <1>5, <1>6, <1>7, <1>8, <1>9, <1>10, <1>11, <1>12,
     <1>13, <1>14, <1>15, <1>16, <1>17, <1>18, <1>19
  DEF Windows!Next, Windows!Tool, Windows!Commit, Windows!Foreign

(* What a call leaves when nothing failed is not its own.                  *)
LEMMA WindowsLeftStep == WindowsInv /\ [Windows!Next]_vars => Windows!NothingLeft'
<1> SUFFICES ASSUME WindowsInv, [Windows!Next]_vars PROVE Windows!NothingLeft'
  OBVIOUS
<1> USE DEF WindowsInv, Windows!TypeOK, Windows!NothingLeft,
        toolVars, foreignVars, Windows!toolVars, Windows!foreignVars,
        Windows!Goto, Windows!End, Windows!Works, Windows!Fails, Windows!Refused
<1>1. CASE Windows!Begin
  <2>1. \/ dir'["temp"] = None /\ dir'["backup"] = None /\ dir'["recovery"] = None
        \/ result' \notin {"ok", "error"} \/ failures' # 0
    BY <1>1 DEF Windows!Begin,
            WindowsReporting, WindowsFreeNames, Early
  <2> QED
    BY <2>1, DistinctAssumption DEF Windows!Ident
<1>2. CASE Windows!Prepare
  <2>1. \/ dir'["temp"] = None /\ dir'["backup"] = None /\ dir'["recovery"] = None
        \/ result' \notin {"ok", "error"} \/ failures' # 0
    BY <1>2 DEF Windows!Prepare,
            WindowsReporting, WindowsFreeNames, Early
  <2> QED
    BY <2>1, DistinctAssumption DEF Windows!Ident
<1>3. CASE Windows!Revalidate
  <2>1. result' \notin {"ok", "error"}
    BY <1>3 DEF Windows!Revalidate, Windows!Looks, WindowsReporting
  <2> QED
    BY <2>1
<1>4. CASE Windows!PublishMissing
  <2>1. \/ dir'["temp"] = None /\ dir'["backup"] = None /\ dir'["recovery"] = None
        \/ result' \notin {"ok", "error"} \/ failures' # 0
    BY <1>4 DEF Windows!PublishMissing, Windows!Published, Windows!CanPublish, Windows!PublishedAs,
            WindowsReporting, WindowsFreeNames, Early
  <2> QED
    BY <2>1, DistinctAssumption DEF Windows!Ident
<1>5. CASE Windows!Replace
  <2>1. result' \notin {"ok", "error"}
    BY <1>5 DEF Windows!Replace, Windows!Published, Windows!CanReplace, Windows!Replaced,
         Windows!HalfReplaced, WindowsReporting
  <2> QED
    BY <2>1
<1>6. CASE Windows!RecoverPartial
  <2>1. result' \notin {"ok", "error"}
    BY <1>6 DEF Windows!RecoverPartial, Windows!CanPublish, Windows!PublishedAs, WindowsReporting
  <2> QED
    BY <2>1
<1>7. CASE Windows!Audit
  <2>1. result' \notin {"ok", "error"}
    BY <1>7 DEF Windows!Audit, Windows!Looks, WindowsReporting
  <2> QED
    BY <2>1
<1>8. CASE Windows!DropDisplaced
  <2>1. \/ dir'["temp"] = None /\ dir'["backup"] = None /\ dir'["recovery"] = None
        \/ result' \notin {"ok", "error"} \/ failures' # 0
    BY <1>8 DEF Windows!DropDisplaced, Windows!Deleted,
            WindowsReporting, WindowsFreeNames, Early
  <2> QED
    BY <2>1, DistinctAssumption DEF Windows!Ident
<1>9. CASE Windows!Restore
  <2>1. result' \notin {"ok", "error"}
    BY <1>9 DEF Windows!Restore, Windows!CanReplace, Windows!Replaced, Windows!HalfReplaced, WindowsReporting
  <2> QED
    BY <2>1
<1>10. CASE Windows!Unreplace
  <2>1. result' \notin {"ok", "error"}
    BY <1>10 DEF Windows!Unreplace, Windows!CanPublish, Windows!PublishedAs, WindowsReporting
  <2> QED
    BY <2>1
<1>11. CASE Windows!Reclaim
  <2>1. dir["temp"] = None /\ dir["backup"] = None /\ UNCHANGED data
    BY <1>11, Distinct DEF Windows!Reclaim, Windows!CheckOwned, Windows!RemoveOwned, Windows!Deleted,
         Windows!Looks, WindowsFreeNames, WindowsOwnFile
  <2>2. \/ result' \notin {"ok", "error"} \/ failures' # 0
        \/ UNCHANGED dir /\ Windows!Ident("recovery") # <<Mine, New>>
        \/ dir' = [dir EXCEPT !["recovery"] = None]
    BY <1>11 DEF Windows!Reclaim, Windows!CheckOwned, Windows!RemoveOwned, Windows!Deleted,
         Windows!Looks, WindowsReporting
  <2> QED
    BY <2>1, <2>2, DistinctAssumption DEF Windows!Ident
<1>12. CASE Windows!Discard
  <2>1. dir["backup"] # Mine /\ dir["recovery"] = None /\ UNCHANGED data
    BY <1>12, Distinct DEF Windows!Discard, Windows!CheckOwned, Windows!RemoveOwned, Windows!Deleted,
         Windows!Looks, WindowsFreeNames, WindowsOwnFile
  <2>2. \/ result' \notin {"ok", "error"} \/ failures' # 0
        \/ UNCHANGED dir /\ Windows!Ident("temp") # <<Mine, New>>
        \/ dir' = [dir EXCEPT !["temp"] = None]
    BY <1>12 DEF Windows!Discard, Windows!CheckOwned, Windows!RemoveOwned, Windows!Deleted,
         Windows!Looks, WindowsReporting
  <2> QED
    BY <2>1, <2>2, DistinctAssumption DEF Windows!Ident
<1>13. CASE Windows!Kill
  <2>1. result' = "none"
    BY <1>13 DEF Windows!Kill, WindowsReporting
  <2> QED
    BY <2>1
<1>14. CASE Windows!CleanUp
  <2>1. UNCHANGED <<data, result>> /\ (dir' = dir \/ dir' = [dir EXCEPT !["temp"] = None])
    BY <1>14 DEF Windows!CleanUp, Windows!Deleted
  <2>2. failures' = 0 => failures = 0
    BY <1>14 DEF Windows!CleanUp, Windows!Deleted
  <2> QED
    BY <2>1, <2>2, DistinctAssumption DEF Windows!Ident
<1>15. CASE \E v \in Versions : Windows!ForeignStore(v)
  <2> PICK v \in Versions : Windows!ForeignStore(v)
    BY <1>15
  <2>1. /\ writer # None /\ data' = [data EXCEPT ![writer] = v]
        /\ UNCHANGED <<dir, result, failures>>
    BY DEF Windows!ForeignStore
  <2>2. \A n \in Windows!Names :
          Windows!Ident(n)' = <<Mine, New>> => Windows!Ident(n) = <<Mine, New>>
    BY <2>1, DistinctAssumption DEF Windows!Ident
  <2> QED
    BY <2>1, <2>2
<1>16. CASE \E v \in Versions, f \in Files : Windows!ForeignReplace(f, v)
  <2> PICK v \in Versions, f \in Files : Windows!ForeignReplace(f, v)
    BY <1>16
  <2>1. /\ f \notin Windows!Linked /\ data' = [data EXCEPT ![f] = v]
        /\ dir' = [dir EXCEPT !["target"] = f]
        /\ UNCHANGED <<result, failures>>
    BY DEF Windows!ForeignReplace
  <2>2. \A n \in Windows!Names \ {"target"} : Windows!Ident(n)' = Windows!Ident(n)
    BY <2>1, Distinct DEF Windows!Ident, Windows!Linked
  <2> QED
    BY <2>1, <2>2
<1>17. CASE Windows!ForeignOpen \/ Windows!ForeignClose
  BY <1>17 DEF Windows!ForeignOpen, Windows!ForeignClose, Windows!Ident
<1>18. CASE \E n \in Windows!Names : Windows!ForeignRemove(n)
  <2> PICK n \in Windows!Names : Windows!ForeignRemove(n)
    BY <1>18
  <2>1. dir' = [dir EXCEPT ![n] = None] /\ UNCHANGED <<data, result, failures>>
    BY DEF Windows!ForeignRemove, Windows!Deleted
  <2> QED
    BY <2>1, DistinctAssumption DEF Windows!Ident
<1>19. CASE UNCHANGED vars
  BY <1>19 DEF vars, Windows!Ident
<1> QED
  BY <1>1, <1>2, <1>3, <1>4, <1>5, <1>6, <1>7, <1>8, <1>9, <1>10, <1>11, <1>12,
     <1>13, <1>14, <1>15, <1>16, <1>17, <1>18, <1>19
  DEF Windows!Next, Windows!Tool, Windows!Commit, Windows!Foreign

(* The invariant holds initially.                                          *)
LEMMA WindowsInitInv == Windows!Init => WindowsInv
<1> SUFFICES ASSUME Windows!Init PROVE WindowsInv
  OBVIOUS
<1>1. Windows!TypeOK
  <2>1. published \in BOOLEAN
    BY Zenon DEF Windows!Init
  <2>2. owed \in SUBSET used /\ used \in SUBSET Versions
    BY DEF Windows!Init
  <2> QED
    BY <2>1, <2>2, Distinct DEF Windows!Init, Windows!TypeOK
<1>2. /\ WindowsFreeNames /\ WindowsOwnFile /\ WindowsReporting
      /\ WindowsNumbered /\ WindowsCompared
  BY Distinct DEF Windows!Init, WindowsFreeNames, WindowsOwnFile, WindowsReporting,
                  WindowsNumbered, WindowsCompared, Early
<1>3. Windows!ForeignDataKept /\ Windows!ReportIsTrue /\ Windows!NothingLeft
  BY DEF Windows!Init, Windows!ForeignDataKept, Windows!ReportIsTrue, Windows!NothingLeft
<1> QED
  BY <1>1, <1>2, <1>3 DEF WindowsInv

(* Every step of a commit on Windows keeps the invariant.                  *)
LEMMA WindowsStep == WindowsInv /\ [Windows!Next]_vars => WindowsInv'
  BY WindowsTypeStep, WindowsPlaceStep, WindowsReportingStep, WindowsNumberedStep,
     WindowsComparedStep, WindowsDataStep, WindowsReportStep, WindowsLeftStep DEF WindowsInv

(* The invariant holds in every reachable state of the commit on Windows.  *)
THEOREM WindowsStrengthening == Windows!Spec => []WindowsInv
<1>1. WindowsInv /\ [Windows!Next]_Windows!vars => WindowsInv'
  BY WindowsStep DEF vars, Windows!vars, toolVars, Windows!toolVars, foreignVars, Windows!foreignVars
<1> QED
  BY <1>1, WindowsInitInv, PTL DEF Windows!Spec

HIDE FailuresAssumption DEF Names

-------------------------------------------------------------------------------
(* Two agents commit to one file: the inductive invariant.                 *)

Small == Versions \ Large

(* What an agent has under its hidden names, wherever its call stands.     *)
Places == \A a \in Files :
  /\ at[a] \in {"begin", "prepare"} =>
       temp[a] = None /\ recovery[a] = None /\ gave[a] = None
  /\ at[a] = "begin" => base[a] = None
  /\ at[a] \in {"ready", "swap"} => temp[a] = a /\ recovery[a] = None /\ gave[a] = None
  /\ at[a] \in {"park", "unpark"} =>
       temp[a] = gave[a] /\ recovery[a] = None /\ gave[a] # None /\ base[a] # None
  /\ at[a] \in {"audit", "unlink", "restore"} =>
       temp[a] = None /\ recovery[a] = gave[a] /\ gave[a] # None /\ base[a] # None
  /\ at[a] = "unlink" => recovery[a] = base[a]
  /\ at[a] = "reclaim" => temp[a] = None /\ recovery[a] # None
  /\ at[a] = "discard" => recovery[a] = None
  /\ temp[a] = None \/ recovery[a] = None
  /\ at[a] # "done" <=> report[a] = "none"
  /\ report[a] = "ok" => temp[a] = None /\ recovery[a] = None

(* No version has two names.                                               *)
Apart == \A a \in Files :
  /\ temp[a] # None =>
       /\ temp[a] # target
       /\ \A b \in Files : temp[a] # recovery[b] /\ (temp[b] = temp[a] => a = b)
  /\ recovery[a] # None =>
       /\ recovery[a] # target
       /\ \A b \in Files : recovery[b] = recovery[a] => a = b

(* An agent's version is nowhere before the agent has written it.          *)
Unborn == \A a \in Files : at[a] \in {"begin", "prepare"} =>
  a \notin Agents!Seen /\ \A b \in Files : base[b] # a /\ gave[b] # a

(* What was displaced, or published, is found again or was superseded.     *)
Superseded == {v \in Small \cup Files : Agents!Superseded(v)}
Findable == Agents!Seen \cup overwritten \cup Superseded
Placed(a) == \/ at[a] \in {"park", "unpark", "audit", "unlink", "restore"}
             \/ report[a] \in {"ok", "warning"}
AllFound == \A a \in Files :
  (gave[a] \in Small => gave[a] \in Findable) /\ (Placed(a) => a \in Findable)

(* A version that an edit took the place of does not come back.            *)
Taken == \A a \in Files :
  report[a] = "ok" /\ base[a] # None => gave[a] = base[a] /\ base[a] \notin Agents!Seen

(* Until somebody removes what an agent wrote, at most one agent hides a   *)
(* version of another process, and none once the file was made anew.       *)
Hides(a) == temp[a] \in Small \/ recovery[a] \in Small
Made == \E a \in Files : report[a] = "ok" /\ base[a] = None
OneHides == Files \cap overwritten = {} =>
  /\ \A a, b \in Files : Hides(a) /\ Hides(b) => a = b
  /\ Made \/ (\E a \in Files : Hides(a)) => target \in Files
  /\ Made => \A a \in Files : ~Hides(a)

(* While no call fails, a hidden name is left with the agent's own version.*)
Returned == faults = 0 => \A a \in Files :
  /\ at[a] # "unpark" /\ (at[a] = "discard" => temp[a] = a)
  /\ at[a] = "done" /\ report[a] \in {"ok", "error", "stopped"} =>
       temp[a] \in {None, a} /\ recovery[a] \in {None, a}

AgentsInv == /\ Agents!TypeOK /\ Places /\ Apart /\ Unborn /\ AllFound /\ Taken
             /\ OneHides /\ Returned /\ Agents!OneEditWins

(* The names of the agents are no versions of other processes.             *)
LEMMA AgentsDistinct ==
  Files \cap Small = {} /\ None \notin Files /\ None \notin Small
  BY Distinct, PartsAssumption DEF Small

(* The variables keep their types.                                         *)
LEMMA AgentsTypeStep == AgentsInv /\ [Agents!Next]_agentVars => Agents!TypeOK'
<1> SUFFICES ASSUME AgentsInv, [Agents!Next]_agentVars PROVE Agents!TypeOK'
  OBVIOUS
<1> USE AgentsDistinct DEF AgentsInv, Agents!TypeOK, Small,
        Agents!hidden, Agents!Goto, Agents!End, Agents!Works, Agents!Fails, Agents!Refused
<1>1. ASSUME NEW a \in Files, Agents!Begin(a) PROVE Agents!TypeOK'
  BY <1>1 DEF Agents!Begin
<1>2. ASSUME NEW a \in Files, Agents!Prepare(a) PROVE Agents!TypeOK'
  BY <1>2 DEF Agents!Prepare
<1>3. ASSUME NEW a \in Files, Agents!Revalidate(a) PROVE Agents!TypeOK'
  BY <1>3 DEF Agents!Revalidate
<1>4. ASSUME NEW a \in Files, Agents!PublishMissing(a) PROVE Agents!TypeOK'
  BY <1>4 DEF Agents!PublishMissing, Agents!SwapTemp
<1>5. ASSUME NEW a \in Files, Agents!Exchange(a) PROVE Agents!TypeOK'
  BY <1>5 DEF Agents!Exchange, Agents!SwapTemp
<1>6. ASSUME NEW a \in Files, Agents!Park(a) PROVE Agents!TypeOK'
  BY <1>6 DEF Agents!Park
<1>7. ASSUME NEW a \in Files, Agents!Unpark(a) PROVE Agents!TypeOK'
  BY <1>7 DEF Agents!Unpark, Agents!SwapTemp
<1>8. ASSUME NEW a \in Files, Agents!Audit(a) PROVE Agents!TypeOK'
  BY <1>8 DEF Agents!Audit
<1>9. ASSUME NEW a \in Files, Agents!Unlink(a) PROVE Agents!TypeOK'
  BY <1>9 DEF Agents!Unlink
<1>10. ASSUME NEW a \in Files, Agents!Restore(a) PROVE Agents!TypeOK'
  BY <1>10 DEF Agents!Restore, Agents!SwapRecovery
<1>11. ASSUME NEW a \in Files, Agents!Reclaim(a) PROVE Agents!TypeOK'
  BY <1>11 DEF Agents!Reclaim
<1>12. ASSUME NEW a \in Files, Agents!Discard(a) PROVE Agents!TypeOK'
  BY <1>12 DEF Agents!Discard
<1>13. ASSUME NEW a \in Files, Agents!Terminate(a) PROVE Agents!TypeOK'
  BY <1>13 DEF Agents!Terminate
<1>14. ASSUME NEW a \in Files, Agents!Kill(a) PROVE Agents!TypeOK'
  BY <1>14 DEF Agents!Kill
<1>15. ASSUME NEW w \in Small \cup {None}, Agents!Foreign(w) PROVE Agents!TypeOK'
  BY <1>15 DEF Agents!Foreign, Agents!Seen
<1>16. CASE UNCHANGED agentVars
  BY <1>16 DEF agentVars
<1> QED
  BY <1>1, <1>2, <1>3, <1>4, <1>5, <1>6, <1>7, <1>8, <1>9, <1>10, <1>11, <1>12,
     <1>13, <1>14, <1>15, <1>16
  DEF Agents!Next, Agents!Step, Small

(* Nobody touches the hidden names of another agent.                       *)
LEMMA PlacesStep == AgentsInv /\ [Agents!Next]_agentVars => Places'
<1> SUFFICES ASSUME AgentsInv, [Agents!Next]_agentVars PROVE Places'
  OBVIOUS
<1> USE AgentsDistinct DEF AgentsInv, Agents!TypeOK, Places,
        Agents!hidden, Agents!Goto, Agents!End, Agents!Works, Agents!Fails, Agents!Refused
<1>1. ASSUME NEW a \in Files, Agents!Begin(a) PROVE Places'
  BY <1>1 DEF Agents!Begin
<1>2. ASSUME NEW a \in Files, Agents!Prepare(a) PROVE Places'
  BY <1>2 DEF Agents!Prepare
<1>3. ASSUME NEW a \in Files, Agents!Revalidate(a) PROVE Places'
  BY <1>3 DEF Agents!Revalidate
<1>4. ASSUME NEW a \in Files, Agents!PublishMissing(a) PROVE Places'
  BY <1>4 DEF Agents!PublishMissing, Agents!SwapTemp
<1>5. ASSUME NEW a \in Files, Agents!Exchange(a) PROVE Places'
  BY <1>5 DEF Agents!Exchange, Agents!SwapTemp
<1>6. ASSUME NEW a \in Files, Agents!Park(a) PROVE Places'
  BY <1>6 DEF Agents!Park
<1>7. ASSUME NEW a \in Files, Agents!Unpark(a) PROVE Places'
  BY <1>7 DEF Agents!Unpark, Agents!SwapTemp
<1>8. ASSUME NEW a \in Files, Agents!Audit(a) PROVE Places'
  BY <1>8 DEF Agents!Audit
<1>9. ASSUME NEW a \in Files, Agents!Unlink(a) PROVE Places'
  BY <1>9 DEF Agents!Unlink
<1>10. ASSUME NEW a \in Files, Agents!Restore(a) PROVE Places'
  BY <1>10 DEF Agents!Restore, Agents!SwapRecovery
<1>11. ASSUME NEW a \in Files, Agents!Reclaim(a) PROVE Places'
  BY <1>11 DEF Agents!Reclaim
<1>12. ASSUME NEW a \in Files, Agents!Discard(a) PROVE Places'
  BY <1>12 DEF Agents!Discard
<1>13. ASSUME NEW a \in Files, Agents!Terminate(a) PROVE Places'
  BY <1>13 DEF Agents!Terminate
<1>14. ASSUME NEW a \in Files, Agents!Kill(a) PROVE Places'
  BY <1>14 DEF Agents!Kill
<1>15. ASSUME NEW w \in Small \cup {None}, Agents!Foreign(w) PROVE Places'
  BY <1>15 DEF Agents!Foreign, Agents!Seen
<1>16. CASE UNCHANGED agentVars
  BY <1>16 DEF agentVars
<1> QED
  BY <1>1, <1>2, <1>3, <1>4, <1>5, <1>6, <1>7, <1>8, <1>9, <1>10, <1>11, <1>12,
     <1>13, <1>14, <1>15, <1>16
  DEF Agents!Next, Agents!Step, Small

(* No version gets two names.                                              *)
LEMMA ApartStep == AgentsInv /\ [Agents!Next]_agentVars => Apart'
<1> SUFFICES ASSUME AgentsInv, [Agents!Next]_agentVars PROVE Apart'
  OBVIOUS
<1> USE AgentsDistinct DEF AgentsInv, Agents!TypeOK, Places, Apart, Unborn, Agents!Seen,
        Agents!hidden, Agents!Goto, Agents!End, Agents!Works, Agents!Fails, Agents!Refused
<1>1. ASSUME NEW a \in Files, Agents!Begin(a) PROVE Apart'
  BY <1>1 DEF Agents!Begin
<1>2. ASSUME NEW a \in Files, Agents!Prepare(a) PROVE Apart'
  BY <1>2 DEF Agents!Prepare
<1>3. ASSUME NEW a \in Files, Agents!Revalidate(a) PROVE Apart'
  BY <1>3 DEF Agents!Revalidate
<1>4. ASSUME NEW a \in Files, Agents!PublishMissing(a) PROVE Apart'
  BY <1>4 DEF Agents!PublishMissing, Agents!SwapTemp
<1>5. ASSUME NEW a \in Files, Agents!Exchange(a) PROVE Apart'
  BY <1>5 DEF Agents!Exchange, Agents!SwapTemp
<1>6. ASSUME NEW a \in Files, Agents!Park(a) PROVE Apart'
  BY <1>6 DEF Agents!Park
<1>7. ASSUME NEW a \in Files, Agents!Unpark(a) PROVE Apart'
  BY <1>7 DEF Agents!Unpark, Agents!SwapTemp
<1>8. ASSUME NEW a \in Files, Agents!Audit(a) PROVE Apart'
  BY <1>8 DEF Agents!Audit
<1>9. ASSUME NEW a \in Files, Agents!Unlink(a) PROVE Apart'
  BY <1>9 DEF Agents!Unlink
<1>10. ASSUME NEW a \in Files, Agents!Restore(a) PROVE Apart'
  BY <1>10 DEF Agents!Restore, Agents!SwapRecovery
<1>11. ASSUME NEW a \in Files, Agents!Reclaim(a) PROVE Apart'
  BY <1>11 DEF Agents!Reclaim
<1>12. ASSUME NEW a \in Files, Agents!Discard(a) PROVE Apart'
  BY <1>12 DEF Agents!Discard
<1>13. ASSUME NEW a \in Files, Agents!Terminate(a) PROVE Apart'
  BY <1>13 DEF Agents!Terminate
<1>14. ASSUME NEW a \in Files, Agents!Kill(a) PROVE Apart'
  BY <1>14 DEF Agents!Kill
<1>15. ASSUME NEW w \in Small \cup {None}, Agents!Foreign(w) PROVE Apart'
  BY <1>15 DEF Agents!Foreign, Agents!Seen
<1>16. CASE UNCHANGED agentVars
  BY <1>16 DEF agentVars
<1> QED
  BY <1>1, <1>2, <1>3, <1>4, <1>5, <1>6, <1>7, <1>8, <1>9, <1>10, <1>11, <1>12,
     <1>13, <1>14, <1>15, <1>16
  DEF Agents!Next, Agents!Step, Small

(* Nobody else writes an agent's version.                                  *)
LEMMA UnbornStep == AgentsInv /\ [Agents!Next]_agentVars => Unborn'
<1> SUFFICES ASSUME AgentsInv, [Agents!Next]_agentVars PROVE Unborn'
  OBVIOUS
<1> USE AgentsDistinct DEF AgentsInv, Agents!TypeOK, Places, Unborn, Agents!Seen,
        Agents!hidden, Agents!Goto, Agents!End, Agents!Works, Agents!Fails, Agents!Refused
<1>1. ASSUME NEW a \in Files, Agents!Begin(a) PROVE Unborn'
  BY <1>1 DEF Agents!Begin
<1>2. ASSUME NEW a \in Files, Agents!Prepare(a) PROVE Unborn'
  BY <1>2 DEF Agents!Prepare
<1>3. ASSUME NEW a \in Files, Agents!Revalidate(a) PROVE Unborn'
  BY <1>3 DEF Agents!Revalidate
<1>4. ASSUME NEW a \in Files, Agents!PublishMissing(a) PROVE Unborn'
  BY <1>4 DEF Agents!PublishMissing, Agents!SwapTemp
<1>5. ASSUME NEW a \in Files, Agents!Exchange(a) PROVE Unborn'
  BY <1>5 DEF Agents!Exchange, Agents!SwapTemp
<1>6. ASSUME NEW a \in Files, Agents!Park(a) PROVE Unborn'
  BY <1>6 DEF Agents!Park
<1>7. ASSUME NEW a \in Files, Agents!Unpark(a) PROVE Unborn'
  BY <1>7 DEF Agents!Unpark, Agents!SwapTemp
<1>8. ASSUME NEW a \in Files, Agents!Audit(a) PROVE Unborn'
  BY <1>8 DEF Agents!Audit
<1>9. ASSUME NEW a \in Files, Agents!Unlink(a) PROVE Unborn'
  BY <1>9 DEF Agents!Unlink
<1>10. ASSUME NEW a \in Files, Agents!Restore(a) PROVE Unborn'
  BY <1>10 DEF Agents!Restore, Agents!SwapRecovery
<1>11. ASSUME NEW a \in Files, Agents!Reclaim(a) PROVE Unborn'
  BY <1>11 DEF Agents!Reclaim
<1>12. ASSUME NEW a \in Files, Agents!Discard(a) PROVE Unborn'
  BY <1>12 DEF Agents!Discard
<1>13. ASSUME NEW a \in Files, Agents!Terminate(a) PROVE Unborn'
  BY <1>13 DEF Agents!Terminate
<1>14. ASSUME NEW a \in Files, Agents!Kill(a) PROVE Unborn'
  BY <1>14 DEF Agents!Kill
<1>15. ASSUME NEW w \in Small \cup {None}, Agents!Foreign(w) PROVE Unborn'
  BY <1>15 DEF Agents!Foreign, Agents!Seen
<1>16. CASE UNCHANGED agentVars
  BY <1>16 DEF agentVars
<1> QED
  BY <1>1, <1>2, <1>3, <1>4, <1>5, <1>6, <1>7, <1>8, <1>9, <1>10, <1>11, <1>12,
     <1>13, <1>14, <1>15, <1>16
  DEF Agents!Next, Agents!Step, Small

(* What is unlinked has no other name, and nobody writes it again.         *)
LEMMA TakenStep == AgentsInv /\ [Agents!Next]_agentVars => Taken'
<1> SUFFICES ASSUME AgentsInv, [Agents!Next]_agentVars PROVE Taken'
  OBVIOUS
<1> USE AgentsDistinct DEF AgentsInv, Agents!TypeOK, Places, Apart, Unborn, Taken, Agents!Seen,
        Agents!hidden, Agents!Goto, Agents!End, Agents!Works, Agents!Fails, Agents!Refused
<1>1. ASSUME NEW a \in Files, Agents!Begin(a) PROVE Taken'
  BY <1>1 DEF Agents!Begin
<1>2. ASSUME NEW a \in Files, Agents!Prepare(a) PROVE Taken'
  BY <1>2 DEF Agents!Prepare
<1>3. ASSUME NEW a \in Files, Agents!Revalidate(a) PROVE Taken'
  BY <1>3 DEF Agents!Revalidate
<1>4. ASSUME NEW a \in Files, Agents!PublishMissing(a) PROVE Taken'
  BY <1>4 DEF Agents!PublishMissing, Agents!SwapTemp
<1>5. ASSUME NEW a \in Files, Agents!Exchange(a) PROVE Taken'
  BY <1>5 DEF Agents!Exchange, Agents!SwapTemp
<1>6. ASSUME NEW a \in Files, Agents!Park(a) PROVE Taken'
  BY <1>6 DEF Agents!Park
<1>7. ASSUME NEW a \in Files, Agents!Unpark(a) PROVE Taken'
  BY <1>7 DEF Agents!Unpark, Agents!SwapTemp
<1>8. ASSUME NEW a \in Files, Agents!Audit(a) PROVE Taken'
  BY <1>8 DEF Agents!Audit
<1>9. ASSUME NEW a \in Files, Agents!Unlink(a) PROVE Taken'
  BY <1>9 DEF Agents!Unlink
<1>10. ASSUME NEW a \in Files, Agents!Restore(a) PROVE Taken'
  BY <1>10 DEF Agents!Restore, Agents!SwapRecovery
<1>11. ASSUME NEW a \in Files, Agents!Reclaim(a) PROVE Taken'
  BY <1>11 DEF Agents!Reclaim
<1>12. ASSUME NEW a \in Files, Agents!Discard(a) PROVE Taken'
  BY <1>12 DEF Agents!Discard
<1>13. ASSUME NEW a \in Files, Agents!Terminate(a) PROVE Taken'
  BY <1>13 DEF Agents!Terminate
<1>14. ASSUME NEW a \in Files, Agents!Kill(a) PROVE Taken'
  BY <1>14 DEF Agents!Kill
<1>15. ASSUME NEW w \in Small \cup {None}, Agents!Foreign(w) PROVE Taken'
  BY <1>15 DEF Agents!Foreign, Agents!Seen
<1>16. CASE UNCHANGED agentVars
  BY <1>16 DEF agentVars
<1> QED
  BY <1>1, <1>2, <1>3, <1>4, <1>5, <1>6, <1>7, <1>8, <1>9, <1>10, <1>11, <1>12,
     <1>13, <1>14, <1>15, <1>16
  DEF Agents!Next, Agents!Step, Small

(* What a call did not displace it takes away itself.                      *)
LEMMA ReturnedStep == AgentsInv /\ [Agents!Next]_agentVars => Returned'
<1> SUFFICES ASSUME AgentsInv, [Agents!Next]_agentVars PROVE Returned'
  OBVIOUS
<1> USE AgentsDistinct DEF AgentsInv, Agents!TypeOK, Places, Returned,
        Agents!hidden, Agents!Goto, Agents!End, Agents!Works, Agents!Fails, Agents!Refused
<1>1. ASSUME NEW a \in Files, Agents!Begin(a) PROVE Returned'
  BY <1>1 DEF Agents!Begin
<1>2. ASSUME NEW a \in Files, Agents!Prepare(a) PROVE Returned'
  BY <1>2 DEF Agents!Prepare
<1>3. ASSUME NEW a \in Files, Agents!Revalidate(a) PROVE Returned'
  BY <1>3 DEF Agents!Revalidate
<1>4. ASSUME NEW a \in Files, Agents!PublishMissing(a) PROVE Returned'
  BY <1>4 DEF Agents!PublishMissing, Agents!SwapTemp
<1>5. ASSUME NEW a \in Files, Agents!Exchange(a) PROVE Returned'
  BY <1>5 DEF Agents!Exchange, Agents!SwapTemp
<1>6. ASSUME NEW a \in Files, Agents!Park(a) PROVE Returned'
  BY <1>6 DEF Agents!Park
<1>7. ASSUME NEW a \in Files, Agents!Unpark(a) PROVE Returned'
  BY <1>7 DEF Agents!Unpark, Agents!SwapTemp
<1>8. ASSUME NEW a \in Files, Agents!Audit(a) PROVE Returned'
  BY <1>8 DEF Agents!Audit
<1>9. ASSUME NEW a \in Files, Agents!Unlink(a) PROVE Returned'
  BY <1>9 DEF Agents!Unlink
<1>10. ASSUME NEW a \in Files, Agents!Restore(a) PROVE Returned'
  BY <1>10 DEF Agents!Restore, Agents!SwapRecovery
<1>11. ASSUME NEW a \in Files, Agents!Reclaim(a) PROVE Returned'
  BY <1>11 DEF Agents!Reclaim
<1>12. ASSUME NEW a \in Files, Agents!Discard(a) PROVE Returned'
  BY <1>12 DEF Agents!Discard
<1>13. ASSUME NEW a \in Files, Agents!Terminate(a) PROVE Returned'
  BY <1>13 DEF Agents!Terminate
<1>14. ASSUME NEW a \in Files, Agents!Kill(a) PROVE Returned'
  BY <1>14 DEF Agents!Kill
<1>15. ASSUME NEW w \in Small \cup {None}, Agents!Foreign(w) PROVE Returned'
  BY <1>15 DEF Agents!Foreign, Agents!Seen
<1>16. CASE UNCHANGED agentVars
  BY <1>16 DEF agentVars
<1> QED
  BY <1>1, <1>2, <1>3, <1>4, <1>5, <1>6, <1>7, <1>8, <1>9, <1>10, <1>11, <1>12,
     <1>13, <1>14, <1>15, <1>16
  DEF Agents!Next, Agents!Step, Small

(* No step loses a version, but an agent may take its own away, and one    *)
(* that its edit took the place of.                                        *)
LEMMA SeenStep == AgentsInv /\ [Agents!Next]_agentVars => \A v \in Agents!Seen \ {None} :
          \/ v \in Agents!Seen' \cup overwritten'
          \/ \E b \in Files : base'[b] = v /\ gave'[b] = v
          \/ v \in Files /\ at'[v] = "done" /\ report'[v] = "error"
<1> SUFFICES ASSUME AgentsInv, [Agents!Next]_agentVars PROVE \A v \in Agents!Seen \ {None} :
          \/ v \in Agents!Seen' \cup overwritten'
          \/ \E b \in Files : base'[b] = v /\ gave'[b] = v
          \/ v \in Files /\ at'[v] = "done" /\ report'[v] = "error"
  OBVIOUS
<1> USE AgentsDistinct DEF AgentsInv, Agents!TypeOK, Places, Agents!Seen,
        Agents!hidden, Agents!Goto, Agents!End, Agents!Works, Agents!Fails, Agents!Refused
<1>1. ASSUME NEW a \in Files, Agents!Begin(a) PROVE \A v \in Agents!Seen \ {None} :
          \/ v \in Agents!Seen' \cup overwritten'
          \/ \E b \in Files : base'[b] = v /\ gave'[b] = v
          \/ v \in Files /\ at'[v] = "done" /\ report'[v] = "error"
  BY <1>1 DEF Agents!Begin
<1>2. ASSUME NEW a \in Files, Agents!Prepare(a) PROVE \A v \in Agents!Seen \ {None} :
          \/ v \in Agents!Seen' \cup overwritten'
          \/ \E b \in Files : base'[b] = v /\ gave'[b] = v
          \/ v \in Files /\ at'[v] = "done" /\ report'[v] = "error"
  BY <1>2 DEF Agents!Prepare
<1>3. ASSUME NEW a \in Files, Agents!Revalidate(a) PROVE \A v \in Agents!Seen \ {None} :
          \/ v \in Agents!Seen' \cup overwritten'
          \/ \E b \in Files : base'[b] = v /\ gave'[b] = v
          \/ v \in Files /\ at'[v] = "done" /\ report'[v] = "error"
  BY <1>3 DEF Agents!Revalidate
<1>4. ASSUME NEW a \in Files, Agents!PublishMissing(a) PROVE \A v \in Agents!Seen \ {None} :
          \/ v \in Agents!Seen' \cup overwritten'
          \/ \E b \in Files : base'[b] = v /\ gave'[b] = v
          \/ v \in Files /\ at'[v] = "done" /\ report'[v] = "error"
  BY <1>4 DEF Agents!PublishMissing, Agents!SwapTemp
<1>5. ASSUME NEW a \in Files, Agents!Exchange(a) PROVE \A v \in Agents!Seen \ {None} :
          \/ v \in Agents!Seen' \cup overwritten'
          \/ \E b \in Files : base'[b] = v /\ gave'[b] = v
          \/ v \in Files /\ at'[v] = "done" /\ report'[v] = "error"
  BY <1>5 DEF Agents!Exchange, Agents!SwapTemp
<1>6. ASSUME NEW a \in Files, Agents!Park(a) PROVE \A v \in Agents!Seen \ {None} :
          \/ v \in Agents!Seen' \cup overwritten'
          \/ \E b \in Files : base'[b] = v /\ gave'[b] = v
          \/ v \in Files /\ at'[v] = "done" /\ report'[v] = "error"
  BY <1>6 DEF Agents!Park
<1>7. ASSUME NEW a \in Files, Agents!Unpark(a) PROVE \A v \in Agents!Seen \ {None} :
          \/ v \in Agents!Seen' \cup overwritten'
          \/ \E b \in Files : base'[b] = v /\ gave'[b] = v
          \/ v \in Files /\ at'[v] = "done" /\ report'[v] = "error"
  BY <1>7 DEF Agents!Unpark, Agents!SwapTemp
<1>8. ASSUME NEW a \in Files, Agents!Audit(a) PROVE \A v \in Agents!Seen \ {None} :
          \/ v \in Agents!Seen' \cup overwritten'
          \/ \E b \in Files : base'[b] = v /\ gave'[b] = v
          \/ v \in Files /\ at'[v] = "done" /\ report'[v] = "error"
  BY <1>8 DEF Agents!Audit
<1>9. ASSUME NEW a \in Files, Agents!Unlink(a) PROVE \A v \in Agents!Seen \ {None} :
          \/ v \in Agents!Seen' \cup overwritten'
          \/ \E b \in Files : base'[b] = v /\ gave'[b] = v
          \/ v \in Files /\ at'[v] = "done" /\ report'[v] = "error"
  BY <1>9 DEF Agents!Unlink
<1>10. ASSUME NEW a \in Files, Agents!Restore(a) PROVE \A v \in Agents!Seen \ {None} :
          \/ v \in Agents!Seen' \cup overwritten'
          \/ \E b \in Files : base'[b] = v /\ gave'[b] = v
          \/ v \in Files /\ at'[v] = "done" /\ report'[v] = "error"
  BY <1>10 DEF Agents!Restore, Agents!SwapRecovery
<1>11. ASSUME NEW a \in Files, Agents!Reclaim(a) PROVE \A v \in Agents!Seen \ {None} :
          \/ v \in Agents!Seen' \cup overwritten'
          \/ \E b \in Files : base'[b] = v /\ gave'[b] = v
          \/ v \in Files /\ at'[v] = "done" /\ report'[v] = "error"
  BY <1>11 DEF Agents!Reclaim
<1>12. ASSUME NEW a \in Files, Agents!Discard(a) PROVE \A v \in Agents!Seen \ {None} :
          \/ v \in Agents!Seen' \cup overwritten'
          \/ \E b \in Files : base'[b] = v /\ gave'[b] = v
          \/ v \in Files /\ at'[v] = "done" /\ report'[v] = "error"
  BY <1>12 DEF Agents!Discard
<1>13. ASSUME NEW a \in Files, Agents!Terminate(a) PROVE \A v \in Agents!Seen \ {None} :
          \/ v \in Agents!Seen' \cup overwritten'
          \/ \E b \in Files : base'[b] = v /\ gave'[b] = v
          \/ v \in Files /\ at'[v] = "done" /\ report'[v] = "error"
  BY <1>13 DEF Agents!Terminate
<1>14. ASSUME NEW a \in Files, Agents!Kill(a) PROVE \A v \in Agents!Seen \ {None} :
          \/ v \in Agents!Seen' \cup overwritten'
          \/ \E b \in Files : base'[b] = v /\ gave'[b] = v
          \/ v \in Files /\ at'[v] = "done" /\ report'[v] = "error"
  BY <1>14 DEF Agents!Kill
<1>15. ASSUME NEW w \in Small \cup {None}, Agents!Foreign(w) PROVE \A v \in Agents!Seen \ {None} :
          \/ v \in Agents!Seen' \cup overwritten'
          \/ \E b \in Files : base'[b] = v /\ gave'[b] = v
          \/ v \in Files /\ at'[v] = "done" /\ report'[v] = "error"
  BY <1>15 DEF Agents!Foreign, Agents!Seen
<1>16. CASE UNCHANGED agentVars
  BY <1>16 DEF agentVars
<1> QED
  BY <1>1, <1>2, <1>3, <1>4, <1>5, <1>6, <1>7, <1>8, <1>9, <1>10, <1>11, <1>12,
     <1>13, <1>14, <1>15, <1>16
  DEF Agents!Next, Agents!Step, Small

(* What an edit took the place of is not forgotten.                        *)
LEMMA SupersededStep == AgentsInv /\ [Agents!Next]_agentVars => \A b \in Files : gave[b] # None =>
          base'[b] = base[b] /\ gave'[b] = gave[b]
<1> SUFFICES ASSUME AgentsInv, [Agents!Next]_agentVars PROVE \A b \in Files : gave[b] # None =>
          base'[b] = base[b] /\ gave'[b] = gave[b]
  OBVIOUS
<1> USE AgentsDistinct DEF AgentsInv, Agents!TypeOK, Places,
        Agents!hidden, Agents!Goto, Agents!End, Agents!Works, Agents!Fails, Agents!Refused
<1>1. ASSUME NEW a \in Files, Agents!Begin(a) PROVE \A b \in Files : gave[b] # None =>
          base'[b] = base[b] /\ gave'[b] = gave[b]
  BY <1>1 DEF Agents!Begin
<1>2. ASSUME NEW a \in Files, Agents!Prepare(a) PROVE \A b \in Files : gave[b] # None =>
          base'[b] = base[b] /\ gave'[b] = gave[b]
  BY <1>2 DEF Agents!Prepare
<1>3. ASSUME NEW a \in Files, Agents!Revalidate(a) PROVE \A b \in Files : gave[b] # None =>
          base'[b] = base[b] /\ gave'[b] = gave[b]
  BY <1>3 DEF Agents!Revalidate
<1>4. ASSUME NEW a \in Files, Agents!PublishMissing(a) PROVE \A b \in Files : gave[b] # None =>
          base'[b] = base[b] /\ gave'[b] = gave[b]
  BY <1>4 DEF Agents!PublishMissing, Agents!SwapTemp
<1>5. ASSUME NEW a \in Files, Agents!Exchange(a) PROVE \A b \in Files : gave[b] # None =>
          base'[b] = base[b] /\ gave'[b] = gave[b]
  BY <1>5 DEF Agents!Exchange, Agents!SwapTemp
<1>6. ASSUME NEW a \in Files, Agents!Park(a) PROVE \A b \in Files : gave[b] # None =>
          base'[b] = base[b] /\ gave'[b] = gave[b]
  BY <1>6 DEF Agents!Park
<1>7. ASSUME NEW a \in Files, Agents!Unpark(a) PROVE \A b \in Files : gave[b] # None =>
          base'[b] = base[b] /\ gave'[b] = gave[b]
  BY <1>7 DEF Agents!Unpark, Agents!SwapTemp
<1>8. ASSUME NEW a \in Files, Agents!Audit(a) PROVE \A b \in Files : gave[b] # None =>
          base'[b] = base[b] /\ gave'[b] = gave[b]
  BY <1>8 DEF Agents!Audit
<1>9. ASSUME NEW a \in Files, Agents!Unlink(a) PROVE \A b \in Files : gave[b] # None =>
          base'[b] = base[b] /\ gave'[b] = gave[b]
  BY <1>9 DEF Agents!Unlink
<1>10. ASSUME NEW a \in Files, Agents!Restore(a) PROVE \A b \in Files : gave[b] # None =>
          base'[b] = base[b] /\ gave'[b] = gave[b]
  BY <1>10 DEF Agents!Restore, Agents!SwapRecovery
<1>11. ASSUME NEW a \in Files, Agents!Reclaim(a) PROVE \A b \in Files : gave[b] # None =>
          base'[b] = base[b] /\ gave'[b] = gave[b]
  BY <1>11 DEF Agents!Reclaim
<1>12. ASSUME NEW a \in Files, Agents!Discard(a) PROVE \A b \in Files : gave[b] # None =>
          base'[b] = base[b] /\ gave'[b] = gave[b]
  BY <1>12 DEF Agents!Discard
<1>13. ASSUME NEW a \in Files, Agents!Terminate(a) PROVE \A b \in Files : gave[b] # None =>
          base'[b] = base[b] /\ gave'[b] = gave[b]
  BY <1>13 DEF Agents!Terminate
<1>14. ASSUME NEW a \in Files, Agents!Kill(a) PROVE \A b \in Files : gave[b] # None =>
          base'[b] = base[b] /\ gave'[b] = gave[b]
  BY <1>14 DEF Agents!Kill
<1>15. ASSUME NEW w \in Small \cup {None}, Agents!Foreign(w) PROVE \A b \in Files : gave[b] # None =>
          base'[b] = base[b] /\ gave'[b] = gave[b]
  BY <1>15 DEF Agents!Foreign, Agents!Seen
<1>16. CASE UNCHANGED agentVars
  BY <1>16 DEF agentVars
<1> QED
  BY <1>1, <1>2, <1>3, <1>4, <1>5, <1>6, <1>7, <1>8, <1>9, <1>10, <1>11, <1>12,
     <1>13, <1>14, <1>15, <1>16
  DEF Agents!Next, Agents!Step, Small

(* What is displaced or published has a name.                              *)
LEMMA PlacedStep == AgentsInv /\ [Agents!Next]_agentVars => \A b \in Files :
          /\ gave'[b] = gave[b] \/ gave'[b] \in Findable'
          /\ (Placed(b))' => Placed(b) \/ b \in Findable'
<1> SUFFICES ASSUME AgentsInv, [Agents!Next]_agentVars PROVE \A b \in Files :
          /\ gave'[b] = gave[b] \/ gave'[b] \in Findable'
          /\ (Placed(b))' => Placed(b) \/ b \in Findable'
  OBVIOUS
<1> USE AgentsDistinct DEF AgentsInv, Agents!TypeOK, Places, Placed, Findable, Agents!Seen,
        Agents!hidden, Agents!Goto, Agents!End, Agents!Works, Agents!Fails, Agents!Refused
<1>1. ASSUME NEW a \in Files, Agents!Begin(a) PROVE \A b \in Files :
          /\ gave'[b] = gave[b] \/ gave'[b] \in Findable'
          /\ (Placed(b))' => Placed(b) \/ b \in Findable'
  BY <1>1 DEF Agents!Begin
<1>2. ASSUME NEW a \in Files, Agents!Prepare(a) PROVE \A b \in Files :
          /\ gave'[b] = gave[b] \/ gave'[b] \in Findable'
          /\ (Placed(b))' => Placed(b) \/ b \in Findable'
  BY <1>2 DEF Agents!Prepare
<1>3. ASSUME NEW a \in Files, Agents!Revalidate(a) PROVE \A b \in Files :
          /\ gave'[b] = gave[b] \/ gave'[b] \in Findable'
          /\ (Placed(b))' => Placed(b) \/ b \in Findable'
  BY <1>3 DEF Agents!Revalidate
<1>4. ASSUME NEW a \in Files, Agents!PublishMissing(a) PROVE \A b \in Files :
          /\ gave'[b] = gave[b] \/ gave'[b] \in Findable'
          /\ (Placed(b))' => Placed(b) \/ b \in Findable'
  BY <1>4 DEF Agents!PublishMissing, Agents!SwapTemp
<1>5. ASSUME NEW a \in Files, Agents!Exchange(a) PROVE \A b \in Files :
          /\ gave'[b] = gave[b] \/ gave'[b] \in Findable'
          /\ (Placed(b))' => Placed(b) \/ b \in Findable'
  BY <1>5 DEF Agents!Exchange, Agents!SwapTemp
<1>6. ASSUME NEW a \in Files, Agents!Park(a) PROVE \A b \in Files :
          /\ gave'[b] = gave[b] \/ gave'[b] \in Findable'
          /\ (Placed(b))' => Placed(b) \/ b \in Findable'
  BY <1>6 DEF Agents!Park
<1>7. ASSUME NEW a \in Files, Agents!Unpark(a) PROVE \A b \in Files :
          /\ gave'[b] = gave[b] \/ gave'[b] \in Findable'
          /\ (Placed(b))' => Placed(b) \/ b \in Findable'
  BY <1>7 DEF Agents!Unpark, Agents!SwapTemp
<1>8. ASSUME NEW a \in Files, Agents!Audit(a) PROVE \A b \in Files :
          /\ gave'[b] = gave[b] \/ gave'[b] \in Findable'
          /\ (Placed(b))' => Placed(b) \/ b \in Findable'
  BY <1>8 DEF Agents!Audit
<1>9. ASSUME NEW a \in Files, Agents!Unlink(a) PROVE \A b \in Files :
          /\ gave'[b] = gave[b] \/ gave'[b] \in Findable'
          /\ (Placed(b))' => Placed(b) \/ b \in Findable'
  BY <1>9 DEF Agents!Unlink
<1>10. ASSUME NEW a \in Files, Agents!Restore(a) PROVE \A b \in Files :
          /\ gave'[b] = gave[b] \/ gave'[b] \in Findable'
          /\ (Placed(b))' => Placed(b) \/ b \in Findable'
  BY <1>10 DEF Agents!Restore, Agents!SwapRecovery
<1>11. ASSUME NEW a \in Files, Agents!Reclaim(a) PROVE \A b \in Files :
          /\ gave'[b] = gave[b] \/ gave'[b] \in Findable'
          /\ (Placed(b))' => Placed(b) \/ b \in Findable'
  BY <1>11 DEF Agents!Reclaim
<1>12. ASSUME NEW a \in Files, Agents!Discard(a) PROVE \A b \in Files :
          /\ gave'[b] = gave[b] \/ gave'[b] \in Findable'
          /\ (Placed(b))' => Placed(b) \/ b \in Findable'
  BY <1>12 DEF Agents!Discard
<1>13. ASSUME NEW a \in Files, Agents!Terminate(a) PROVE \A b \in Files :
          /\ gave'[b] = gave[b] \/ gave'[b] \in Findable'
          /\ (Placed(b))' => Placed(b) \/ b \in Findable'
  BY <1>13 DEF Agents!Terminate
<1>14. ASSUME NEW a \in Files, Agents!Kill(a) PROVE \A b \in Files :
          /\ gave'[b] = gave[b] \/ gave'[b] \in Findable'
          /\ (Placed(b))' => Placed(b) \/ b \in Findable'
  BY <1>14 DEF Agents!Kill
<1>15. ASSUME NEW w \in Small \cup {None}, Agents!Foreign(w) PROVE \A b \in Files :
          /\ gave'[b] = gave[b] \/ gave'[b] \in Findable'
          /\ (Placed(b))' => Placed(b) \/ b \in Findable'
  BY <1>15 DEF Agents!Foreign, Agents!Seen
<1>16. CASE UNCHANGED agentVars
  BY <1>16 DEF agentVars
<1> QED
  BY <1>1, <1>2, <1>3, <1>4, <1>5, <1>6, <1>7, <1>8, <1>9, <1>10, <1>11, <1>12,
     <1>13, <1>14, <1>15, <1>16
  DEF Agents!Next, Agents!Step, Small

(* Hence what is displaced or published can be found ever after.           *)
LEMMA FoundStep == AgentsInv /\ [Agents!Next]_agentVars => AllFound'
<1> SUFFICES ASSUME AgentsInv, [Agents!Next]_agentVars PROVE AllFound'
  OBVIOUS
<1>1. \A v \in Findable \ {None} :
        \/ v \in Findable'
        \/ v \in Files /\ at'[v] = "done" /\ report'[v] = "error"
  <2>1. Agents!Seen \subseteq Small \cup Files \cup {None}
    BY DEF AgentsInv, Agents!TypeOK, Agents!Seen, Small
  <2>2. \A v \in Small \cup Files, b \in Files : base'[b] = v /\ gave'[b] = v => v \in Superseded'
    BY DEF Superseded, Agents!Superseded
  <2>3. Superseded \subseteq Superseded'
    <3>1. \A v \in Superseded :
            v \in Small \cup Files /\ \E b \in Files : base[b] = v /\ gave[b] = v
      BY DEF Superseded, Agents!Superseded
    <3> QED
      BY <2>2, <3>1, SupersededStep, AgentsDistinct
  <2>4. overwritten \subseteq overwritten'
    BY DEF Agents!Next, Agents!Step, agentVars, Agents!Foreign, Agents!Begin, Agents!Prepare, Agents!Revalidate, Agents!PublishMissing, Agents!Exchange, Agents!Park, Agents!Unpark, Agents!Audit, Agents!Unlink, Agents!Restore, Agents!Reclaim, Agents!Discard, Agents!Terminate, Agents!Kill
  <2>5. ASSUME NEW v \in Agents!Seen \ {None}
        PROVE  \/ v \in (Agents!Seen \cup overwritten \cup Superseded)'
               \/ v \in Files /\ at'[v] = "done" /\ report'[v] = "error"
    <3>1. \/ v \in (Agents!Seen \cup overwritten)'
          \/ \E b \in Files : base'[b] = v /\ gave'[b] = v
          \/ v \in Files /\ at'[v] = "done" /\ report'[v] = "error"
      BY SeenStep
    <3>2. v \in Small \cup Files
      BY <2>1
    <3> QED
      BY <3>1, <3>2, <2>2
  <2> SUFFICES ASSUME NEW v \in Findable \ {None}
               PROVE  \/ v \in Findable'
                      \/ v \in Files /\ at'[v] = "done" /\ report'[v] = "error"
    OBVIOUS
  <2>6. CASE v \in Agents!Seen
    BY <2>5, <2>6 DEF Findable
  <2>7. CASE v \in overwritten \cup Superseded
    BY <2>3, <2>4, <2>7 DEF Findable
  <2> QED
    BY <2>6, <2>7 DEF Findable
<1> QED
  BY <1>1, PlacedStep, AgentsDistinct DEF AgentsInv, AllFound, Placed

(* A version of another process is hidden for an agent's, and comes back.  *)
LEMMA OneHidesStep == AgentsInv /\ [Agents!Next]_agentVars => OneHides'
<1> SUFFICES ASSUME AgentsInv, [Agents!Next]_agentVars PROVE OneHides'
  OBVIOUS
<1> USE AgentsDistinct DEF AgentsInv, Agents!TypeOK, Places, Apart, Unborn, OneHides, Hides, Made, Agents!Seen,
        Agents!hidden, Agents!Goto, Agents!End, Agents!Works, Agents!Fails, Agents!Refused
<1>1. ASSUME NEW a \in Files, Agents!Begin(a) PROVE OneHides'
  BY <1>1 DEF Agents!Begin
<1>2. ASSUME NEW a \in Files, Agents!Prepare(a) PROVE OneHides'
  BY <1>2 DEF Agents!Prepare
<1>3. ASSUME NEW a \in Files, Agents!Revalidate(a) PROVE OneHides'
  BY <1>3 DEF Agents!Revalidate
<1>4. ASSUME NEW a \in Files, Agents!PublishMissing(a) PROVE OneHides'
  BY <1>4 DEF Agents!PublishMissing, Agents!SwapTemp
<1>5. ASSUME NEW a \in Files, Agents!Exchange(a) PROVE OneHides'
  BY <1>5 DEF Agents!Exchange, Agents!SwapTemp
<1>6. ASSUME NEW a \in Files, Agents!Park(a) PROVE OneHides'
  BY <1>6 DEF Agents!Park
<1>7. ASSUME NEW a \in Files, Agents!Unpark(a) PROVE OneHides'
  <2>1. CASE UNCHANGED <<target, temp, recovery>>
    BY <1>7, <2>1 DEF Agents!Unpark
  <2>2. CASE target # None /\ Agents!SwapTemp(a)
    <3>1. temp[a] \in Files \cup Small /\ target \in Files \cup Small
      BY <1>7, <2>2 DEF Agents!Unpark, Agents!SwapTemp, Small
    <3>2. \A b \in Files \ {a} : Hides(b)' <=> Hides(b)
      BY <1>7, <2>2 DEF Agents!SwapTemp
    <3>3. /\ Hides(a) <=> temp[a] \in Small
          /\ Hides(a)' <=> target \in Small
          /\ target' = temp[a]
      BY <1>7, <2>2, <3>1 DEF Agents!Unpark, Agents!SwapTemp
    <3>4. Made' <=> Made
      <4>1. base' = base /\ \A b \in Files : report'[b] = "ok" <=> report[b] = "ok"
        BY <1>7, <2>2 DEF Agents!Unpark
      <4> QED
        BY <4>1 DEF Made
    <3>5. overwritten' = overwritten
      BY <1>7 DEF Agents!Unpark
    <3> HIDE DEF Hides, Made
    <3>6. ASSUME Files \cap overwritten = {} PROVE OneHides'
      <4>1. CASE target \in Files
        BY <3>1, <3>2, <3>3, <3>4, <3>5, <3>6, <4>1
      <4>2. CASE target \in Small
        BY <3>1, <3>2, <3>3, <3>4, <3>5, <3>6, <4>2
      <4> QED
        BY <3>1, <4>1, <4>2
    <3> QED
      BY <3>5, <3>6
  <2> QED
    BY <1>7, <2>1, <2>2 DEF Agents!Unpark
<1>8. ASSUME NEW a \in Files, Agents!Audit(a) PROVE OneHides'
  BY <1>8 DEF Agents!Audit
<1>9. ASSUME NEW a \in Files, Agents!Unlink(a) PROVE OneHides'
  BY <1>9 DEF Agents!Unlink
<1>10. ASSUME NEW a \in Files, Agents!Restore(a) PROVE OneHides'
  <2>1. CASE UNCHANGED <<target, temp, recovery>>
    BY <1>10, <2>1 DEF Agents!Restore
  <2>2. CASE target # None /\ Agents!SwapRecovery(a)
    <3>1. recovery[a] \in Files \cup Small /\ target \in Files \cup Small
      BY <1>10, <2>2 DEF Agents!Restore, Agents!SwapRecovery, Small
    <3>2. \A b \in Files \ {a} : Hides(b)' <=> Hides(b)
      BY <1>10, <2>2 DEF Agents!SwapRecovery
    <3>3. /\ Hides(a) <=> recovery[a] \in Small
          /\ Hides(a)' <=> target \in Small
          /\ target' = recovery[a]
      BY <1>10, <2>2, <3>1 DEF Agents!Restore, Agents!SwapRecovery
    <3>4. Made' <=> Made
      <4>1. base' = base /\ \A b \in Files : report'[b] = "ok" <=> report[b] = "ok"
        BY <1>10, <2>2 DEF Agents!Restore
      <4> QED
        BY <4>1 DEF Made
    <3>5. overwritten' = overwritten
      BY <1>10 DEF Agents!Restore
    <3> HIDE DEF Hides, Made
    <3>6. ASSUME Files \cap overwritten = {} PROVE OneHides'
      <4>1. CASE target \in Files
        BY <3>1, <3>2, <3>3, <3>4, <3>5, <3>6, <4>1
      <4>2. CASE target \in Small
        BY <3>1, <3>2, <3>3, <3>4, <3>5, <3>6, <4>2
      <4> QED
        BY <3>1, <4>1, <4>2
    <3> QED
      BY <3>5, <3>6
  <2> QED
    BY <1>10, <2>1, <2>2 DEF Agents!Restore
<1>11. ASSUME NEW a \in Files, Agents!Reclaim(a) PROVE OneHides'
  BY <1>11 DEF Agents!Reclaim
<1>12. ASSUME NEW a \in Files, Agents!Discard(a) PROVE OneHides'
  BY <1>12 DEF Agents!Discard
<1>13. ASSUME NEW a \in Files, Agents!Terminate(a) PROVE OneHides'
  BY <1>13 DEF Agents!Terminate
<1>14. ASSUME NEW a \in Files, Agents!Kill(a) PROVE OneHides'
  BY <1>14 DEF Agents!Kill
<1>15. ASSUME NEW w \in Small \cup {None}, Agents!Foreign(w) PROVE OneHides'
  BY <1>15 DEF Agents!Foreign, Agents!Seen
<1>16. CASE UNCHANGED agentVars
  BY <1>16 DEF agentVars
<1> QED
  BY <1>1, <1>2, <1>3, <1>4, <1>5, <1>6, <1>7, <1>8, <1>9, <1>10, <1>11, <1>12,
     <1>13, <1>14, <1>15, <1>16
  DEF Agents!Next, Agents!Step, Small

(* Two edits of one version cannot both unlink it, and a file that is made *)
(* anew is not made once more.                                             *)
LEMMA OneWinsStep == AgentsInv /\ [Agents!Next]_agentVars => Agents!OneEditWins'
<1> SUFFICES ASSUME AgentsInv, [Agents!Next]_agentVars PROVE Agents!OneEditWins'
  OBVIOUS
<1> USE AgentsDistinct DEF AgentsInv, Agents!TypeOK, Agents!OneEditWins,
        Agents!hidden, Agents!Goto, Agents!End, Agents!Works, Agents!Fails, Agents!Refused
<1>1. ASSUME NEW a \in Files, Agents!Begin(a) PROVE Agents!OneEditWins'
  <2>1. report[a] = "none" /\ UNCHANGED <<report, overwritten>>
    BY <1>1 DEF Agents!Begin, Places
  <2> QED
    BY <1>1, <2>1 DEF Agents!Begin
<1>2. ASSUME NEW a \in Files, Agents!Prepare(a) PROVE Agents!OneEditWins'
  BY <1>2 DEF Agents!Prepare
<1>3. ASSUME NEW a \in Files, Agents!Revalidate(a) PROVE Agents!OneEditWins'
  BY <1>3 DEF Agents!Revalidate
<1>4. ASSUME NEW a \in Files, Agents!PublishMissing(a) PROVE Agents!OneEditWins'
  <2>1. target = None /\ (\E b \in Files : report[b] = "ok" /\ base[b] = None)
          => Files \cap overwritten # {}
    BY DEF OneHides, Made
  <2> QED
    BY <1>4, <2>1 DEF Agents!PublishMissing
<1>5. ASSUME NEW a \in Files, Agents!Exchange(a) PROVE Agents!OneEditWins'
  BY <1>5 DEF Agents!Exchange, Agents!SwapTemp
<1>6. ASSUME NEW a \in Files, Agents!Park(a) PROVE Agents!OneEditWins'
  BY <1>6 DEF Agents!Park
<1>7. ASSUME NEW a \in Files, Agents!Unpark(a) PROVE Agents!OneEditWins'
  BY <1>7 DEF Agents!Unpark, Agents!SwapTemp
<1>8. ASSUME NEW a \in Files, Agents!Audit(a) PROVE Agents!OneEditWins'
  BY <1>8 DEF Agents!Audit
<1>9. ASSUME NEW a \in Files, Agents!Unlink(a) PROVE Agents!OneEditWins'
  <2>1. CASE report' = [report EXCEPT ![a] = "ok"]
    <3>1. base[a] # None /\ base[a] \in Agents!Seen /\ UNCHANGED <<base, overwritten>>
      BY <1>9 DEF Agents!Unlink, Places, Agents!Seen
    <3>2. \A b \in Files : report[b] = "ok" => base[b] # base[a]
      BY <3>1 DEF Taken
    <3> QED
      BY <2>1, <3>1, <3>2
  <2>2. CASE report' = [report EXCEPT ![a] = "warning"]
    BY <1>9, <2>2 DEF Agents!Unlink
  <2> QED
    BY <1>9, <2>1, <2>2 DEF Agents!Unlink
<1>10. ASSUME NEW a \in Files, Agents!Restore(a) PROVE Agents!OneEditWins'
  BY <1>10 DEF Agents!Restore, Agents!SwapRecovery
<1>11. ASSUME NEW a \in Files, Agents!Reclaim(a) PROVE Agents!OneEditWins'
  BY <1>11 DEF Agents!Reclaim
<1>12. ASSUME NEW a \in Files, Agents!Discard(a) PROVE Agents!OneEditWins'
  BY <1>12 DEF Agents!Discard
<1>13. ASSUME NEW a \in Files, Agents!Terminate(a) PROVE Agents!OneEditWins'
  BY <1>13 DEF Agents!Terminate
<1>14. ASSUME NEW a \in Files, Agents!Kill(a) PROVE Agents!OneEditWins'
  BY <1>14 DEF Agents!Kill
<1>15. ASSUME NEW w \in Small \cup {None}, Agents!Foreign(w) PROVE Agents!OneEditWins'
  BY <1>15 DEF Agents!Foreign, Agents!Seen
<1>16. CASE UNCHANGED agentVars
  BY <1>16 DEF agentVars
<1> QED
  BY <1>1, <1>2, <1>3, <1>4, <1>5, <1>6, <1>7, <1>8, <1>9, <1>10, <1>11, <1>12,
     <1>13, <1>14, <1>15, <1>16
  DEF Agents!Next, Agents!Step, Small

(* The invariant holds initially ...                                       *)
LEMMA AgentsInitInv == Agents!Init => AgentsInv
<1> SUFFICES ASSUME Agents!Init PROVE AgentsInv
  OBVIOUS
<1> USE AgentsDistinct DEF Agents!Init
<1>1. Agents!TypeOK /\ Places /\ Apart
  BY DEF Agents!TypeOK, Places, Apart
<1>2. Unborn /\ Taken /\ Returned
  BY DEF Unborn, Taken, Returned, Agents!Seen, Small
<1>3. AllFound /\ OneHides /\ Agents!OneEditWins
  BY DEF AllFound, Placed, OneHides, Hides, Made, Agents!OneEditWins
<1> QED
  BY <1>1, <1>2, <1>3 DEF AgentsInv

(* ... and every step of the agents and of other processes keeps it.       *)
LEMMA AgentsStep == AgentsInv /\ [Agents!Next]_agentVars => AgentsInv'
  BY AgentsTypeStep, PlacesStep, ApartStep, UnbornStep, FoundStep, TakenStep,
     OneHidesStep, ReturnedStep, OneWinsStep DEF AgentsInv

(* What it says of versions that are written and reported.                 *)
LEMMA AgentsKeepData == AgentsInv => Agents!NothingLost
<1> SUFFICES ASSUME AgentsInv PROVE Agents!NothingLost
  OBVIOUS
<1>1. ASSUME NEW v \in Small, v \in Agents!Seen \/ \E a \in Files : gave[a] = v
      PROVE  v \in Findable
  BY <1>1 DEF AgentsInv, AllFound, Findable
<1>2. ASSUME NEW a \in Files, report[a] \in {"ok", "warning"} PROVE a \in Findable
  BY <1>2 DEF AgentsInv, AllFound, Placed
<1> QED
  BY <1>1, <1>2 DEF Agents!NothingLost, Findable, Superseded, Small

(* An edit that is reported as done, and whose version another agent has   *)
(* under a hidden name, is in a call that is not over or says so.          *)
LEMMA AgentsDoneIsThere == AgentsInv => Agents!DoneIsThere
<1> SUFFICES ASSUME AgentsInv, NEW a \in Files, report[a] = "ok"
             PROVE  \/ target = a \/ a \in overwritten \/ Agents!Superseded(a)
                    \/ faults > 0 /\ a \in Agents!Seen
                    \/ \E b \in Files \ {a} :
                         /\ temp[b] = a \/ recovery[b] = a
                         /\ at[b] # "done" \/ report[b] \in {"retained", "warning"}
  BY DEF Agents!DoneIsThere
<1>1. a \in Findable
  BY DEF AgentsInv, AllFound, Placed
<1>2. CASE a \in overwritten \cup Superseded
  BY <1>2 DEF Superseded
<1>3. CASE a \in Agents!Seen
  <2>1. CASE faults = 0
    <3>1. temp[a] = None /\ recovery[a] = None
      BY DEF AgentsInv, Places
    <3>2. target = a \/ \E b \in Files \ {a} : temp[b] = a \/ recovery[b] = a
      BY <1>3, <3>1, AgentsDistinct DEF Agents!Seen
    <3>3. ASSUME NEW b \in Files \ {a}, temp[b] = a \/ recovery[b] = a, at[b] = "done"
          PROVE  report[b] \in {"retained", "warning"}
      <4>1. report[b] \notin {"ok", "error", "stopped"}
        BY <2>1, <3>3, AgentsDistinct DEF AgentsInv, Returned
      <4>2. report[b] # "none"
        BY <3>3 DEF AgentsInv, Places
      <4> QED
        BY <4>1, <4>2 DEF AgentsInv, Agents!TypeOK
    <3> QED
      BY <3>2, <3>3
  <2>2. CASE faults # 0
    BY <1>3, <2>2 DEF AgentsInv, Agents!TypeOK
  <2> QED
    BY <2>1, <2>2
<1> QED
  BY <1>1, <1>2, <1>3 DEF Findable

-------------------------------------------------------------------------------
(* Sequences, and the least of a set of numbers.                           *)

Less == {p \in Nat \X Nat : p[1] < p[2]}

(* A set of numbers that is not empty has a least one.                     *)
LEMMA Least ==
  ASSUME NEW T, T \subseteq Nat, T # {}
  PROVE  \E m \in T : \A j \in T : m <= j
<1>1. IsWellFoundedOn(Less, Nat)
  <2>1. OpToRel(<, Nat) = Less
    BY DEF OpToRel, Less
  <2> QED
    BY <2>1, NatLessThanWellFounded
<1>2. PICK m \in T : \A j \in T : <<j, m>> \notin Less
  BY <1>1, WFMin
<1>3. \A j \in T : m <= j
  <2> TAKE j \in T
  <2>1. j \in Nat /\ m \in Nat /\ <<j, m>> \notin Less
    BY <1>2
  <2>2. ~(j < m)
    BY <2>1 DEF Less
  <2> QED
    BY <2>1, <2>2
<1> QED
  BY <1>3

(* A text without one of its cells, and with one more.                     *)
LEMMA Removed ==
  ASSUME NEW s \in Texts, NEW k \in 1 .. Len(s)
  PROVE  LET t == Edits!RemoveAt(s, k)
         IN /\ t \in Texts /\ Len(t) = Len(s) - 1
            /\ \A i \in 1 .. Len(s) - 1 : t[i] = s[IF i < k THEN i ELSE i + 1]
<1> DEFINE p == SubSeq(s, 1, k - 1)
           q == SubSeq(s, k + 1, Len(s))
<1>s. s \in Seq(TextCells)
  BY DEF Texts
<1>1. p \in Seq(TextCells) /\ Len(p) = k - 1 /\ \A i \in 1 .. k - 1 : p[i] = s[i]
  BY <1>s
<1>2. q \in Seq(TextCells) /\ Len(q) = Len(s) - k /\ \A i \in 1 .. Len(s) - k : q[i] = s[k + i]
  BY <1>s
<1>0. Edits!RemoveAt(s, k) = p \o q
  BY DEF Edits!RemoveAt
<1> HIDE DEF p, q
<1>3. /\ p \o q \in Seq(TextCells) /\ Len(p \o q) = Len(p) + Len(q)
      /\ \A i \in 1 .. Len(p) + Len(q) : (p \o q)[i] = IF i <= Len(p) THEN p[i] ELSE q[i - Len(p)]
  BY <1>1, <1>2, ConcatProperties
<1>4. \A i \in 1 .. Len(s) - 1 : (p \o q)[i] = s[IF i < k THEN i ELSE i + 1]
  <2> TAKE i \in 1 .. Len(s) - 1
  <2>1. CASE i < k
    BY <1>1, <1>2, <1>3, <2>1
  <2>2. CASE i >= k
    <3>1. i \in 1 .. Len(p) + Len(q) /\ ~(i <= Len(p)) /\ i - Len(p) \in 1 .. Len(s) - k
      BY <1>1, <1>2, <2>2
    <3>2. (p \o q)[i] = q[i - Len(p)]
      BY <1>3, <3>1
    <3>3. k + (i - Len(p)) = i + 1
      BY <1>1
    <3>4. q[i - Len(p)] = s[i + 1]
      BY <1>2, <3>1, <3>3
    <3>5. ~(i < k)
      BY <2>2
    <3> QED
      BY <3>2, <3>4, <3>5
  <2>3. i < k \/ i >= k
    OBVIOUS
  <2> QED
    BY <2>1, <2>2, <2>3, Zenon
<1>5. Len(p \o q) = Len(s) - 1
  BY <1>1, <1>2, <1>3
<1> QED
  BY <1>0, <1>3, <1>4, <1>5 DEF Texts

LEMMA Inserted ==
  ASSUME NEW s \in Texts, NEW k \in 1 .. Len(s) + 1, NEW e \in TextCells
  PROVE  LET t == Edits!InsertAt(s, k, e)
         IN /\ t \in Texts /\ Len(t) = Len(s) + 1
            /\ \A i \in 1 .. Len(s) + 1 :
                 t[i] = IF i < k THEN s[i] ELSE IF i = k THEN e ELSE s[i - 1]
<1> DEFINE p == SubSeq(s, 1, k - 1)
           q == SubSeq(s, k, Len(s))
           r == p \o <<e>>
<1>s. s \in Seq(TextCells)
  BY DEF Texts
<1>1. p \in Seq(TextCells) /\ Len(p) = k - 1 /\ \A i \in 1 .. k - 1 : p[i] = s[i]
  BY <1>s
<1>2. /\ q \in Seq(TextCells) /\ Len(q) = Len(s) - k + 1
      /\ \A i \in 1 .. Len(s) - k + 1 : q[i] = s[k + i - 1]
  BY <1>s
<1>0. Edits!InsertAt(s, k, e) = r \o q
  BY DEF Edits!InsertAt
<1> HIDE DEF p, q
<1>3. r \in Seq(TextCells) /\ Len(r) = k /\ \A i \in 1 .. k : r[i] = IF i = k THEN e ELSE p[i]
  BY <1>1
<1> HIDE DEF r
<1>4. /\ r \o q \in Seq(TextCells) /\ Len(r \o q) = Len(s) + 1
      /\ \A i \in 1 .. Len(s) + 1 : (r \o q)[i] = IF i <= k THEN r[i] ELSE q[i - k]
  <2>1. Len(r) + Len(q) = Len(s) + 1
    BY <1>2, <1>3
  <2> QED
    BY <1>2, <1>3, <2>1, ConcatProperties
<1>5. \A i \in 1 .. Len(s) + 1 :
        (r \o q)[i] = IF i < k THEN s[i] ELSE IF i = k THEN e ELSE s[i - 1]
  <2> TAKE i \in 1 .. Len(s) + 1
  <2>1. CASE i < k
    BY <1>1, <1>3, <1>4, <2>1
  <2>2. CASE i = k
    BY <1>3, <1>4, <2>2
  <2>3. CASE i > k
    BY <1>2, <1>4, <2>3
  <2>4. i < k \/ i = k \/ i > k
    OBVIOUS
  <2> QED
    BY <2>1, <2>2, <2>3, <2>4, Zenon
<1> QED
  BY <1>0, <1>4, <1>5 DEF Texts

-------------------------------------------------------------------------------
(* What an edit makes of a text.                                           *)

(* The identifiers of a text are some of these, and each is of one cell.   *)
Clean(cells, numbers) ==
  /\ \A i \in DOMAIN cells : cells[i].id \in Files \cup {None} \cup numbers
  /\ \A i, j \in DOMAIN cells :
       cells[i].id = cells[j].id => (i = j \/ cells[i].id = None)

(* The cell that is found is the one that is named.                        *)
LEMMA FoundCell ==
  ASSUME NEW cells \in Texts, NEW anchor \in Edits!Anchors
  PROVE  LET f == Edits!FindCell(cells, anchor)
         IN /\ f \in 0 .. Len(cells)
            /\ anchor.id # None => IF f = 0 THEN \A i \in DOMAIN cells : cells[i].id # anchor.id
                                   ELSE cells[f].id = anchor.id
<1>1. DOMAIN cells = 1 .. Len(cells) /\ Len(cells) \in Nat
  BY DEF Texts
<1>2. CASE anchor.id # None
  <2> DEFINE hits == {i \in DOMAIN cells : cells[i].id = anchor.id}
             m == CHOOSE i \in hits : \A j \in hits : i <= j
  <2>1. Edits!FindCell(cells, anchor) = IF hits = {} THEN 0 ELSE m
    BY <1>2 DEF Edits!FindCell
  <2>2. hits # {} => m \in hits
    <3> SUFFICES ASSUME hits # {} PROVE m \in hits
      OBVIOUS
    <3>1. hits \subseteq Nat
      BY <1>1
    <3>2. \E i \in hits : \A j \in hits : i <= j
      <4> HIDE DEF hits
      <4> QED
        BY <3>1, Least
    <3> QED
      BY <3>2
  <2>3. CASE hits = {}
    BY <1>1, <2>1, <2>3
  <2>4. CASE hits # {}
    <3>1. Edits!FindCell(cells, anchor) = m
      BY <2>1, <2>4
    <3>2. m \in DOMAIN cells /\ cells[m].id = anchor.id
      BY <2>2, <2>4
    <3> HIDE DEF m
    <3> QED
      BY <1>1, <3>1, <3>2
  <2> QED
    BY <2>3, <2>4
<1>3. CASE anchor.id = None
  <2>1. anchor.index \in Nat
    BY DEF Edits!Anchors
  <2> QED
    BY <1>1, <1>3, <2>1 DEF Edits!FindCell
<1> QED
  BY <1>2, <1>3

(* The cell that an edit writes.                                           *)
LEMMA NewCell ==
  ASSUME NEW id \in Files \cup {None} \cup Nat
  PROVE  Edits!Cell(id, "b") \in TextCells /\ Edits!Cell(id, "b").id = id
  BY DEF Edits!Cell, TextCells

(* The replacement of a string.                                            *)
LEMMA ReplacementType ==
  ASSUME NEW all, NEW cells \in Texts, Edits!Replacement(all, cells) # None
  PROVE  LET t == Edits!Replacement(all, cells)
         IN /\ t \in Texts /\ Len(t) = Len(cells)
            /\ \A i \in DOMAIN cells : t[i] = [cells[i] EXCEPT !.source = "b"]
            /\ \A i \in DOMAIN cells : t[i].id = cells[i].id
            /\ Edits!Occurrences(cells) # {}
            /\ ~all => \A i, j \in Edits!Occurrences(cells) : i = j
<1> DEFINE t == Edits!Replacement(all, cells)
           n == Len(cells)
<1>1. DOMAIN cells = 1 .. n /\ n \in Nat /\ \A i \in 1 .. n : cells[i] \in TextCells
  BY DEF Texts
<1>2. t = [i \in DOMAIN cells |-> [cells[i] EXCEPT !.source = "b"]]
  BY DEF Edits!Replacement
<1>3. \A i \in DOMAIN cells : t[i] \in TextCells /\ t[i].id = cells[i].id
  BY <1>1, <1>2 DEF TextCells
<1>4. t = [i \in 1 .. n |-> t[i]]
  BY <1>1, <1>2
<1>5. t \in Texts /\ Len(t) = n
  <2> HIDE DEF t, n
  <2>1. \A i \in 1 .. n : t[i] \in TextCells
    BY <1>1, <1>3
  <2>2. t \in Seq(TextCells) /\ Len(t) = n
    BY <1>1, <1>4, <2>1
  <2> QED
    BY <2>2 DEF Texts
<1> QED
  BY <1>2, <1>3, <1>5 DEF Edits!Replacement

(* The edit of a notebook's cell.                                          *)
LEMMA NotebookType ==
  ASSUME NEW mode \in {"replace", "insert", "delete"}, NEW cells \in Texts,
         NEW i \in 0 .. Len(cells), NEW id \in Nat,
         Edits!NotebookEdit(mode, i, cells, id) # None
  PROVE  LET t == Edits!NotebookEdit(mode, i, cells, id)
         IN /\ t \in Texts
            /\ mode = "insert" =>
                 LET k == IF i = 0 THEN Len(cells) + 1 ELSE i + 1
                 IN /\ Len(t) = Len(cells) + 1
                    /\ \A j \in 1 .. Len(cells) + 1 :
                         t[j] = IF j < k THEN cells[j]
                                ELSE IF j = k THEN Edits!Cell(id, "b") ELSE cells[j - 1]
            /\ mode = "replace" =>
                 /\ i # 0 /\ Len(t) = Len(cells)
                 /\ \A j \in 1 .. Len(cells) :
                      t[j] = IF j = i THEN Edits!Cell(cells[i].id, "b") ELSE cells[j]
            /\ mode = "delete" =>
                 /\ i # 0 /\ Len(t) = Len(cells) - 1
                 /\ \A j \in 1 .. Len(cells) - 1 : t[j] = cells[IF j < i THEN j ELSE j + 1]
<1> DEFINE t == Edits!NotebookEdit(mode, i, cells, id)
           n == Len(cells)
<1>1. /\ cells \in Seq(TextCells) /\ DOMAIN cells = 1 .. n /\ n \in Nat
      /\ \A j \in 1 .. n : cells[j] \in TextCells
  BY DEF Texts
<1>2. \A x \in Files \cup {None} \cup Nat : Edits!Cell(x, "b") \in TextCells
  BY NewCell
<1>3. CASE mode = "insert"
  <2> DEFINE c == Edits!Cell(id, "b")
  <2>1. t = IF i = 0 THEN Append(cells, c) ELSE Edits!InsertAt(cells, i + 1, c)
    BY <1>3 DEF Edits!NotebookEdit, Edits!InsertCell
  <2>2. c \in TextCells
    BY <1>2
  <2> HIDE DEF c, t
  <2>3. CASE i = 0
    <3>1. t = Append(cells, c)
      BY <2>1, <2>3
    <3>2. /\ t \in Seq(TextCells) /\ Len(t) = n + 1
          /\ \A j \in 1 .. n + 1 : t[j] = IF j = n + 1 THEN c ELSE cells[j]
      <4> HIDE DEF n
      <4>1. cells \in Seq(TextCells) /\ Len(cells) = n
        BY <1>1 DEF n
      <4> QED
        BY <2>2, <3>1, <4>1
    <3>3. /\ t \in Texts /\ Len(t) = n + 1
          /\ \A j \in 1 .. n + 1 : t[j] = IF j < n + 1 THEN cells[j]
                                         ELSE IF j = n + 1 THEN c ELSE cells[j - 1]
      <4> HIDE DEF n
      <4>1. n \in Nat
        BY <1>1 DEF n
      <4> QED
        BY <3>2, <4>1 DEF Texts
    <3> QED
      BY <1>3, <2>3, <3>3 DEF c, t
  <2>4. CASE i # 0
    <3>1. i + 1 \in 1 .. Len(cells) + 1
      BY <1>1, <2>4
    <3> QED
      <4>1. t = Edits!InsertAt(cells, i + 1, c)
        BY <2>1, <2>4
      <4>2. c \in TextCells
        BY <2>2
      <4>3. /\ t \in Texts /\ Len(t) = Len(cells) + 1
            /\ \A j \in 1 .. Len(cells) + 1 :
                 t[j] = IF j < i + 1 THEN cells[j]
                        ELSE IF j = i + 1 THEN c ELSE cells[j - 1]
        BY <3>1, <4>1, <4>2, Inserted
      <4> QED
        BY <1>3, <2>4, <4>3 DEF c, t, Texts
  <2> QED
    BY <2>3, <2>4 DEF t, c
<1>4. CASE mode = "replace"
  <2> DEFINE c == Edits!Cell(cells[i].id, "b")
  <2>1. i # 0 /\ t = [cells EXCEPT ![i] = c]
    BY <1>4 DEF Edits!NotebookEdit, Edits!ReplaceCell
  <2>2. c \in TextCells
    <3>1. cells[i].id \in Files \cup {None} \cup Nat
      BY <1>1, <2>1 DEF TextCells
    <3> QED
      BY <1>2, <3>1
  <2> HIDE DEF c, t
  <2> QED
    BY <1>1, <1>4, <2>1, <2>2 DEF c, Texts, t
<1>5. CASE mode = "delete"
  <2>1. i # 0 /\ t = Edits!RemoveAt(cells, i)
    BY <1>5 DEF Edits!NotebookEdit
  <2> HIDE DEF t
  <2> QED
    <3>1. i \in 1 .. Len(cells)
      BY <1>1, <2>1
    <3>2. /\ t \in Texts /\ Len(t) = Len(cells) - 1
          /\ \A j \in 1 .. Len(cells) - 1 : t[j] = cells[IF j < i THEN j ELSE j + 1]
      BY <1>1, <2>1, <3>1, Removed
    <3> QED
      BY <1>5, <2>1, <3>2 DEF t, Texts
<1> QED
  BY <1>3, <1>4, <1>5

(* A request of each tool.                                                 *)
LEMMA RequestParts ==
  ASSUME NEW r \in Edits!Requests
  PROVE  \/ r.tool = "Write"
         \/ r.tool = "Edit"
         \/ /\ r.tool = "Notebook" /\ r.mode \in {"replace", "insert", "delete"}
            /\ r.anchor \in Edits!Anchors
  BY DEF Edits!Requests

(* The same edit of a notebook, in terms of the request.                   *)
LEMMA NotebookApply ==
  ASSUME NEW r \in Edits!Requests, r.tool = "Notebook", NEW cells \in Texts,
         Edits!Apply(r, cells) # None
  PROVE  /\ cells # Mine
         /\ Edits!Apply(r, cells) =
              Edits!NotebookEdit(r.mode, Edits!FindCell(cells, r.anchor), cells, calls)
  BY DEF Edits!Apply, Edits!Decoded

(* An edit of a text is a text.                                            *)
LEMMA ApplyType ==
  ASSUME NEW r \in Edits!Requests, NEW cells \in Texts \cup {Mine}, calls \in Nat,
         Edits!Apply(r, cells) # None
  PROVE  Edits!Apply(r, cells) \in Texts /\ (r.tool # "Write" => cells \in Texts)
<1>1. CASE r.tool = "Write"
  <2>1. Edits!Cell(calls, "b") \in TextCells
    BY NewCell
  <2>2. Edits!Apply(r, cells) = <<Edits!Cell(calls, "b")>>
    BY <1>1 DEF Edits!Apply
  <2> QED
    BY <1>1, <2>1, <2>2 DEF Texts
<1>2. CASE r.tool # "Write"
  <2>1. cells \in Texts /\ cells # Mine
    BY <1>2 DEF Edits!Apply, Edits!Decoded
  <2>2. CASE r.tool = "Edit"
    <3>1. Edits!Apply(r, cells) = Edits!Replacement(r.all, cells)
      BY <2>1, <2>2 DEF Edits!Apply, Edits!Decoded
    <3> QED
      BY <2>1, <3>1, ReplacementType
  <2>3. CASE r.tool = "Notebook"
    <3>1. r.mode \in {"replace", "insert", "delete"} /\ r.anchor \in Edits!Anchors
      BY <2>3, RequestParts
    <3>2. Edits!FindCell(cells, r.anchor) \in 0 .. Len(cells)
      BY <2>1, <3>1, FoundCell
    <3>3. Edits!Apply(r, cells) =
            Edits!NotebookEdit(r.mode, Edits!FindCell(cells, r.anchor), cells, calls)
      BY <2>1, <2>3 DEF Edits!Apply, Edits!Decoded
    <3> QED
      BY <2>1, <3>1, <3>2, <3>3, NotebookType
  <2> QED
    BY <1>2, <2>2, <2>3, RequestParts
<1> QED
  BY <1>1, <1>2

(* An edit leaves every identifier to one cell, and takes a new one.       *)
LEMMA ApplyClean ==
  ASSUME NEW r \in Edits!Requests, NEW cells \in Texts, NEW ids, ids \subseteq Nat, calls \in Nat,
         calls \notin ids, Clean(cells, ids), Edits!Apply(r, cells) # None
  PROVE  Clean(Edits!Apply(r, cells), ids \cup {calls})
<1> DEFINE t == Edits!Apply(r, cells)
<1>0. /\ DOMAIN cells = 1 .. Len(cells) /\ Len(cells) \in Nat
      /\ t \in Texts /\ DOMAIN t = 1 .. Len(t) /\ Len(t) \in Nat
  BY ApplyType DEF Texts
<1>c. /\ \A i \in 1 .. Len(cells) : cells[i].id \in Files \cup {None} \cup ids
      /\ \A i, j \in 1 .. Len(cells) : cells[i].id = cells[j].id => (i = j \/ cells[i].id = None)
  BY <1>0 DEF Clean
<1>n. calls \notin Files \cup {None} \cup ids
  BY PartsAssumption
<1>1. CASE r.tool = "Write"
  <2>1. t = <<Edits!Cell(calls, "b")>> /\ Edits!Cell(calls, "b").id = calls
    BY <1>1, NewCell DEF Edits!Apply
  <2> QED
    BY <2>1 DEF Clean
<1>2. CASE r.tool = "Edit"
  <2>1. t = Edits!Replacement(r.all, cells)
    BY <1>2 DEF Edits!Apply
  <2>2. Len(t) = Len(cells) /\ \A i \in 1 .. Len(cells) : t[i].id = cells[i].id
    BY <1>0, <2>1, ReplacementType
  <2> HIDE DEF t
  <2> QED
    BY <1>0, <1>c, <2>2 DEF Clean, t
<1>3. CASE r.tool = "Notebook"
  <2> DEFINE f == Edits!FindCell(cells, r.anchor)
             c == Edits!Cell(calls, "b")
  <2>1. r.mode \in {"replace", "insert", "delete"} /\ r.anchor \in Edits!Anchors
    BY <1>3, RequestParts
  <2>2. f \in 0 .. Len(cells)
    BY <2>1, FoundCell
  <2>3. t = Edits!NotebookEdit(r.mode, f, cells, calls)
    BY <1>3, NotebookApply
  <2>4. c.id = calls
    BY NewCell
  <2>5. CASE r.mode = "insert"
    <3> DEFINE k == IF f = 0 THEN Len(cells) + 1 ELSE f + 1
    <3>1. /\ Len(t) = Len(cells) + 1
          /\ \A j \in 1 .. Len(cells) + 1 :
               t[j] = IF j < k THEN cells[j] ELSE IF j = k THEN c ELSE cells[j - 1]
      BY <2>1, <2>2, <2>3, <2>5, NotebookType
    <3>2. k \in 1 .. Len(cells) + 1
      BY <1>0, <2>2
    <3> HIDE DEF t, f, c, k
    <3> DEFINE from(j) == IF j < k THEN j ELSE j - 1
    <3>3. \A j \in 1 .. Len(t) : IF j = k THEN t[j].id = calls
                                 ELSE from(j) \in 1 .. Len(cells) /\ t[j].id = cells[from(j)].id
      BY <1>0, <2>4, <3>1, <3>2
    <3>4. \A i, j \in 1 .. Len(t) : i # k /\ j # k /\ from(i) = from(j) => i = j
      BY <1>0, <3>1, <3>2
    <3> HIDE DEF from
    <3>5. \A i \in 1 .. Len(t) : t[i].id \in Files \cup {None} \cup ids \cup {calls}
      BY <1>c, <3>3
    <3>6. \A i, j \in 1 .. Len(t) : t[i].id = t[j].id => (i = j \/ t[i].id = None)
      BY <1>c, <1>n, <3>3, <3>4
    <3> QED
      BY <1>0, <3>5, <3>6 DEF Clean, t
  <2>6. CASE r.mode = "replace"
    <3>1. /\ f # 0 /\ Len(t) = Len(cells)
          /\ \A j \in 1 .. Len(cells) :
               t[j] = IF j = f THEN Edits!Cell(cells[f].id, "b") ELSE cells[j]
      BY <2>1, <2>2, <2>3, <2>6, NotebookType
    <3>2. cells[f].id \in Files \cup {None} \cup Nat
      BY <1>0, <1>c, <2>2, <3>1
    <3>3. Edits!Cell(cells[f].id, "b").id = cells[f].id
      BY <3>2, NewCell
    <3> HIDE DEF t, f
    <3>4. \A j \in 1 .. Len(cells) : t[j].id = cells[j].id
      BY <3>1, <3>3
    <3> QED
      BY <1>0, <1>c, <3>1, <3>4 DEF Clean, t
  <2>7. CASE r.mode = "delete"
    <3>1. /\ f # 0 /\ Len(t) = Len(cells) - 1
          /\ \A j \in 1 .. Len(cells) - 1 : t[j] = cells[IF j < f THEN j ELSE j + 1]
      <4>1. f # 0 /\ t = Edits!RemoveAt(cells, f)
        BY <2>3, <2>7 DEF Edits!NotebookEdit
      <4>2. f \in 1 .. Len(cells)
        BY <1>0, <2>2, <4>1
      <4> HIDE DEF t, f
      <4> QED
        BY <4>1, <4>2, Removed
    <3> HIDE DEF t, f
    <3> DEFINE from(j) == IF j < f THEN j ELSE j + 1
    <3>2. \A j \in 1 .. Len(t) : from(j) \in 1 .. Len(cells) /\ t[j] = cells[from(j)]
      BY <1>0, <2>2, <3>1
    <3>3. \A i, j \in 1 .. Len(t) : from(i) = from(j) => i = j
      BY <1>0, <2>2, <3>1
    <3> HIDE DEF from
    <3> QED
      BY <1>0, <1>c, <3>2, <3>3 DEF Clean, t
  <2> QED
    BY <2>1, <2>5, <2>6, <2>7
<1> QED
  BY <1>1, <1>2, <1>3, RequestParts

-------------------------------------------------------------------------------
(* The invariant of the calls that edit one file.                          *)

Inodes == [cells : Texts \cup {Mine}, stamp : Nat]
Reading == {"open", "first", "rest", "check", "identify"}
Prepared == {"reserve", "validate", "commit"}

(* What the call under way makes of what it read.                          *)
Edited == Edits!Apply(req, copy)

(* The numbers that the cells of a file may have as identifiers.           *)
Numbers == {n \in Nat : n < calls \/ (n = calls /\ editing = "idle")}

EditsTyped ==
  /\ Edits!TypeOK /\ inodes \in Seq(Inodes) /\ copy \in Texts \cup {Mine}
  /\ calls \in Nat /\ spent \in Nat

(* What a call holds at each of its places.                                *)
EditsPlaced ==
  /\ editing # "idle" => req \in Edits!Requests
  /\ editing \in Reading \ {"open"} => fd # 0
  /\ editing \in Reading => req.tool # "Write"
  /\ editing \in {"idle"} \cup Reading => identity = None
  /\ editing \in {"idle", "open"} => copy = <<>>
  /\ editing \in Prepared =>
       IF identity = None THEN copy = <<>>
       ELSE req.tool # "Write" /\ identity.inode # 0 /\ identity.digest = copy

EditsPaid ==
  /\ Edits!WithinBudget
  /\ editing \in {"validate", "commit"} =>
       Edited # None /\ Edited \in Texts /\ spent + Len(Edited) <= reserved

EditsClean ==
  \A i \in DOMAIN inodes : inodes[i].cells # Mine => Clean(inodes[i].cells, Numbers)

EditsInv == EditsTyped /\ EditsPlaced /\ EditsPaid /\ EditsClean

(* More numbers may be taken.                                              *)
LEMMA CleanMore ==
  ASSUME NEW cells, NEW ids, NEW more, ids \subseteq more, Clean(cells, ids)
  PROVE  Clean(cells, more)
  BY DEF Clean

(* What the user saves, and what a file is at first.                       *)
LEMMA SavedClean ==
  ASSUME NEW cells \in Edits!Saved, NEW ids
  PROVE  cells \in Texts /\ Clean(cells, ids)
<1>1. \A c \in Files \cup {None} : Edits!Ran(c) \in TextCells /\ Edits!Ran(c).id = c
  BY DEF Edits!Ran, TextCells
<1>2. CASE cells = <<>>
  BY <1>2 DEF Texts, Clean
<1>3. ASSUME NEW c \in Files, cells = <<Edits!Ran(c)>>
      PROVE  cells \in Texts /\ Clean(cells, ids)
  BY <1>1, <1>3 DEF Texts, Clean
<1>4. ASSUME NEW c \in Files, NEW d \in Files, c # d, cells = <<Edits!Ran(c), Edits!Ran(d)>>
      PROVE  cells \in Texts /\ Clean(cells, ids)
  BY <1>1, <1>4 DEF Texts, Clean
<1>5. \A p \in Edits!Pairs : p[1] \in Files /\ p[2] \in Files /\ p[1] # p[2]
  BY DEF Edits!Pairs
<1> QED
  BY <1>2, <1>3, <1>4, <1>5 DEF Edits!Saved

LEMMA EditsInitInv == Edits!Init => EditsInv
<1> SUFFICES ASSUME Edits!Init PROVE EditsInv
  OBVIOUS
<1> USE DEF Edits!Init
<1>1. \/ inodes = <<>> /\ named = 0
      \/ \E c \in Files, d \in Files \cup {None} :
           /\ c # d /\ named = 1
           /\ inodes = <<[cells |-> <<Edits!Ran(c), Edits!Ran(d)>>, stamp |-> 0]>>
  OBVIOUS
<1>2. \A c \in Files \cup {None} : Edits!Ran(c) \in TextCells /\ Edits!Ran(c).id = c
  BY DEF Edits!Ran, TextCells
<1>3. /\ named \in 0 .. Len(inodes) /\ Len(inodes) \in Nat /\ inodes \in Seq(Inodes) /\ EditsClean
  <2>1. CASE inodes = <<>> /\ named = 0
    BY <2>1 DEF EditsClean
  <2>2. ASSUME NEW c \in Files, NEW d \in Files \cup {None}, c # d, named = 1,
               inodes = <<[cells |-> <<Edits!Ran(c), Edits!Ran(d)>>, stamp |-> 0]>>
        PROVE  /\ named \in 0 .. Len(inodes) /\ Len(inodes) \in Nat
               /\ inodes \in Seq(Inodes) /\ EditsClean
    <3> DEFINE cells == <<Edits!Ran(c), Edits!Ran(d)>>
    <3>1. cells \in Texts /\ Clean(cells, Numbers)
      <4>1. /\ Edits!Ran(c) \in TextCells /\ Edits!Ran(d) \in TextCells
            /\ Edits!Ran(c).id # Edits!Ran(d).id /\ Edits!Ran(c).id \in Files
            /\ Edits!Ran(d).id \in Files \cup {None}
        BY <1>2, <2>2
      <4> QED
        BY <4>1 DEF Texts, Clean
    <3>2. [cells |-> cells, stamp |-> 0] \in Inodes
      BY <3>1 DEF Inodes
    <3> HIDE DEF cells
    <3>3. inodes = <<[cells |-> cells, stamp |-> 0]>>
      BY <2>2 DEF cells
    <3> QED
      BY <2>2, <3>1, <3>2, <3>3 DEF EditsClean
  <2> QED
    BY <1>1, <2>1, <2>2
<1>4. <<>> \in Texts /\ copy = <<>>
  BY DEF Texts
<1>5. /\ calls \in Nat /\ spent \in Nat /\ reserved \in 0 .. 4 /\ spent = reserved
      /\ editing = "idle" /\ req = None /\ edited = None /\ fd = 0 /\ identity = None
  <2>1. calls = 0 \/ calls = 1
    OBVIOUS
  <2> QED
    BY <2>1
<1>6. Edits!TypeOK
  BY <1>3, <1>5 DEF Edits!TypeOK
<1> QED
  BY <1>3, <1>4, <1>5, <1>6
     DEF EditsInv, EditsTyped, EditsPlaced, EditsPaid, Edits!WithinBudget, Reading, Prepared

(* The steps that leave the files alone.                                   *)
LEMMA FilesStayClean ==
  ASSUME EditsClean, inodes' = inodes, Numbers \subseteq Numbers'
  PROVE  EditsClean'
  BY CleanMore DEF EditsClean

LEMMA NumbersStay ==
  ASSUME calls' = calls, editing # "idle" \/ editing' = editing
  PROVE  Numbers \subseteq Numbers'
  BY DEF Numbers

LEMMA EditedStays == (UNCHANGED <<req, copy, calls>>) => Edited' = Edited
  BY DEF Edited, Edits!Apply, Edits!NotebookEdit, Edits!InsertCell

LEMMA AnswerStep ==
  ASSUME EditsInv, editing # "idle", NEW reply \in {"ok", "warned", "error", "budget"},
         Edits!Answer(reply), UNCHANGED <<inodes, named, calls, reserved, spent>>
  PROVE  EditsInv'
<1> USE DEF EditsInv, Edits!Answer, Edits!Goto
<1>1. EditsTyped'
  BY DEF EditsTyped, Edits!TypeOK, Texts
<1>2. EditsPlaced'
  BY DEF EditsPlaced, Reading, Prepared
<1>3. EditsPaid'
  BY DEF EditsPaid, Edits!WithinBudget
<1>4. EditsClean'
  BY FilesStayClean, NumbersStay
<1> QED
  BY <1>1, <1>2, <1>3, <1>4

(* The version under a descriptor.                                         *)
LEMMA FileType ==
  ASSUME EditsInv, NEW i \in 1 .. Len(inodes)
  PROVE  inodes[i].cells \in Texts \cup {Mine} /\ inodes[i].stamp \in Nat
<1>1. inodes[i] \in Inodes
  BY DEF EditsInv, EditsTyped
<1> QED
  BY <1>1 DEF Inodes

LEMMA CallStep ==
  ASSUME EditsInv, NEW r \in Edits!Requests, Edits!Call(r)
  PROVE  EditsInv'
<1> USE DEF EditsInv, Edits!Call, Edits!Goto
<1>1. r.tool # "Write" => editing' = "open"
  OBVIOUS
<1>2. editing' \in {"reserve", "open"}
  OBVIOUS
<1>3. EditsTyped'
  BY <1>2 DEF EditsTyped, Edits!TypeOK
<1>4. EditsPlaced'
  BY <1>1, <1>2 DEF EditsPlaced, Reading, Prepared
<1>5. EditsPaid'
  BY <1>2 DEF EditsPaid, Edits!WithinBudget
<1>6. EditsClean'
  <2>1. Numbers \subseteq Numbers'
    BY DEF Numbers, EditsTyped
  <2> QED
    BY <2>1, FilesStayClean
<1> QED
  BY <1>3, <1>4, <1>5, <1>6

LEMMA OpenStep == EditsInv /\ Edits!Open => EditsInv'
<1> SUFFICES ASSUME EditsInv, Edits!Open PROVE EditsInv'
  OBVIOUS
<1>0. /\ editing = "open" /\ UNCHANGED <<inodes, named, spent, reserved, calls, changed>>
      /\ named \in Nat
  BY DEF Edits!Open, EditsInv, EditsTyped, Edits!TypeOK
<1>1. CASE Edits!Answer("error")
  BY <1>0, <1>1, AnswerStep
<1>2. CASE /\ editing' = (IF named # 0 THEN "first" ELSE "reserve")
           /\ fd' = (IF named # 0 THEN named ELSE fd)
           /\ UNCHANGED <<req, edited, copy, identity>>
  <2>1. editing' \in {"first", "reserve"} /\ (editing' = "first" => fd' # 0)
    BY <1>0, <1>2
  <2>2. EditsTyped'
    BY <1>0, <1>2, <2>1 DEF EditsInv, EditsTyped, Edits!TypeOK
  <2>3. EditsPlaced'
    BY <1>0, <1>2, <2>1 DEF EditsInv, EditsPlaced, Reading, Prepared
  <2>4. EditsPaid'
    BY <1>0, <2>1 DEF EditsInv, EditsPaid, Edits!WithinBudget
  <2>5. EditsClean'
    BY <1>0, FilesStayClean, NumbersStay DEF EditsInv
  <2> QED
    BY <2>2, <2>3, <2>4, <2>5 DEF EditsInv
<1> QED
  BY <1>1, <1>2 DEF Edits!Open, Edits!Goes, Edits!Goto

(* A piece is read, and the next one is to be.                             *)
LEMMA ReadStep ==
  ASSUME EditsInv, editing \in {"first", "rest"}, editing' \in {"rest", "check"},
         copy' \in Texts \cup {Mine},
         UNCHANGED <<inodes, named, req, fd, identity, edited, reserved, spent, calls>>
  PROVE  EditsInv'
<1>1. EditsTyped'
  BY DEF EditsInv, EditsTyped, Edits!TypeOK
<1>2. EditsPlaced'
  BY DEF EditsInv, EditsPlaced, Reading, Prepared
<1>3. EditsPaid'
  BY DEF EditsInv, EditsPaid, Edits!WithinBudget
<1>4. EditsClean'
  BY FilesStayClean, NumbersStay DEF EditsInv
<1> QED
  BY <1>1, <1>2, <1>3, <1>4 DEF EditsInv

LEMMA ReadFirstStep == EditsInv /\ Edits!ReadFirst => EditsInv'
<1> SUFFICES ASSUME EditsInv, Edits!ReadFirst PROVE EditsInv'
  OBVIOUS
<1> DEFINE cells == inodes[fd].cells
<1>1. fd \in 1 .. Len(inodes)
  BY DEF Edits!ReadFirst, EditsInv, EditsTyped, Edits!TypeOK, EditsPlaced, Reading
<1>2. cells \in Texts \cup {Mine}
  BY <1>1, FileType
<1>3. copy' = IF cells = Mine THEN Mine ELSE SubSeq(cells, 1, IF cells = <<>> THEN 0 ELSE 1)
  BY DEF Edits!ReadFirst, Edits!File
<1> HIDE DEF cells
<1>4. copy' \in Texts \cup {Mine}
  BY <1>2, <1>3 DEF Texts
<1> QED
  BY <1>4, ReadStep DEF Edits!ReadFirst, Edits!Goto

LEMMA ReadRestStep == EditsInv /\ Edits!ReadRest => EditsInv'
<1> SUFFICES ASSUME EditsInv, Edits!ReadRest PROVE EditsInv'
  OBVIOUS
<1> DEFINE cells == inodes[fd].cells
<1>1. fd \in 1 .. Len(inodes)
  BY DEF Edits!ReadRest, EditsInv, EditsTyped, Edits!TypeOK, EditsPlaced, Reading
<1>2. cells \in Texts \cup {Mine} /\ copy \in Texts \cup {Mine}
  BY <1>1, FileType DEF EditsInv, EditsTyped
<1>3. copy' = IF Mine \in {copy, cells} THEN Mine ELSE copy \o SubSeq(cells, 2, Len(cells))
  BY DEF Edits!ReadRest, Edits!File
<1> HIDE DEF cells
<1>4. copy' \in Texts \cup {Mine}
  BY <1>2, <1>3 DEF Texts
<1> QED
  BY <1>4, ReadStep DEF Edits!ReadRest, Edits!Goto

LEMMA CheckReadStep == EditsInv /\ Edits!CheckRead => EditsInv'
<1> SUFFICES ASSUME EditsInv, Edits!CheckRead PROVE EditsInv'
  OBVIOUS
<1>0. editing = "check" /\ UNCHANGED <<inodes, named, spent, reserved, calls, changed>>
  BY DEF Edits!CheckRead
<1>1. CASE Edits!Answer("error")
  BY <1>0, <1>1, AnswerStep
<1>2. CASE editing' = "identify" /\ UNCHANGED <<req, edited, copy, fd, identity>>
  <2>1. EditsTyped'
    BY <1>0, <1>2 DEF EditsInv, EditsTyped, Edits!TypeOK
  <2>2. EditsPlaced'
    BY <1>0, <1>2 DEF EditsInv, EditsPlaced, Reading, Prepared
  <2>3. EditsPaid'
    BY <1>0, <1>2 DEF EditsInv, EditsPaid, Edits!WithinBudget
  <2>4. EditsClean'
    BY <1>0, FilesStayClean, NumbersStay DEF EditsInv
  <2> QED
    BY <2>1, <2>2, <2>3, <2>4 DEF EditsInv
<1> QED
  BY <1>1, <1>2 DEF Edits!CheckRead, Edits!Goes, Edits!Goto

LEMMA IdentifyStep == EditsInv /\ Edits!Identify => EditsInv'
<1> SUFFICES ASSUME EditsInv, Edits!Identify PROVE EditsInv'
  OBVIOUS
<1>0. /\ editing = "identify" /\ editing' = "reserve" /\ fd' = 0
      /\ UNCHANGED <<inodes, named, req, edited, copy, spent, reserved, calls, changed>>
  BY DEF Edits!Identify, Edits!Goes, Edits!Goto
<1>1. fd \in 1 .. Len(inodes)
  BY <1>0 DEF EditsInv, EditsTyped, Edits!TypeOK, EditsPlaced, Reading
<1>2. identity' = [inode |-> fd, stamp |-> inodes[fd].stamp, digest |-> copy]
  BY DEF Edits!Identify, Edits!File
<1>3. identity' # None /\ identity'.inode # 0 /\ identity'.digest = copy
  <2>1. inodes[fd].stamp \in Nat /\ copy \in Texts \cup {Mine} /\ fd \in Nat
    BY <1>1, FileType DEF EditsInv, EditsTyped
  <2>2. identity' \in Identified
    BY <1>2, <2>1 DEF Identified
  <2> QED
    BY <1>1, <1>2, <2>2, PartsAssumption
<1>4. EditsTyped'
  BY <1>0 DEF EditsInv, EditsTyped, Edits!TypeOK
<1>5. EditsPlaced'
  BY <1>0, <1>3 DEF EditsInv, EditsPlaced, Reading, Prepared
<1>6. EditsPaid'
  BY <1>0 DEF EditsInv, EditsPaid, Edits!WithinBudget
<1>7. EditsClean'
  BY <1>0, FilesStayClean, NumbersStay DEF EditsInv
<1> QED
  BY <1>4, <1>5, <1>6, <1>7 DEF EditsInv

LEMMA ReserveStep == EditsInv /\ Edits!Reserve => EditsInv'
<1> SUFFICES ASSUME EditsInv, Edits!Reserve PROVE EditsInv'
  OBVIOUS
<1>0. editing = "reserve" /\ UNCHANGED <<inodes, named, spent, calls, changed>>
  BY DEF Edits!Reserve
<1>1. CASE (Edits!Answer("error") \/ Edits!Answer("budget")) /\ UNCHANGED reserved
  BY <1>0, <1>1, AnswerStep
<1>2. CASE /\ Edited # None /\ Len(Edited) <= 4 - reserved
           /\ reserved' = reserved + Len(Edited) /\ editing' = "validate"
           /\ UNCHANGED <<req, edited, copy, fd, identity>>
  <2>1. /\ req \in Edits!Requests /\ copy \in Texts \cup {Mine} /\ calls \in Nat
        /\ reserved \in 0 .. 4 /\ spent \in Nat /\ spent <= reserved
    BY <1>0 DEF EditsInv, EditsTyped, Edits!TypeOK, EditsPlaced, EditsPaid, Edits!WithinBudget
  <2>2. Edited \in Texts
    BY <1>2, <2>1, ApplyType DEF Edited
  <2>3. Len(Edited) \in Nat /\ reserved' \in 0 .. 4 /\ spent + Len(Edited) <= reserved'
    <3>1. Len(Edited) \in Nat
      BY <2>2 DEF Texts
    <3> QED
      BY <1>2, <2>1, <3>1
  <2>4. Edited' = Edited
    BY <1>0, <1>2, EditedStays
  <2>5. EditsTyped'
    BY <1>0, <1>2, <2>3 DEF EditsInv, EditsTyped, Edits!TypeOK
  <2>6. EditsPlaced'
    BY <1>0, <1>2 DEF EditsInv, EditsPlaced, Reading, Prepared
  <2>7. EditsPaid'
    BY <1>0, <1>2, <2>1, <2>2, <2>3, <2>4 DEF EditsPaid, Edits!WithinBudget
  <2>8. EditsClean'
    BY <1>0, FilesStayClean, NumbersStay DEF EditsInv
  <2> QED
    BY <2>5, <2>6, <2>7, <2>8 DEF EditsInv
<1> QED
  BY <1>1, <1>2 DEF Edits!Reserve, Edits!Goes, Edits!Goto, Edits!Allowed, Edited

LEMMA ValidateStep == EditsInv /\ Edits!Validate => EditsInv'
<1> SUFFICES ASSUME EditsInv, Edits!Validate PROVE EditsInv'
  OBVIOUS
<1>0. editing = "validate" /\ UNCHANGED <<inodes, named, spent, reserved, calls, changed>>
  BY DEF Edits!Validate
<1>1. CASE Edits!Answer("error")
  BY <1>0, <1>1, AnswerStep
<1>2. CASE editing' = "commit" /\ UNCHANGED <<req, edited, copy, fd, identity>>
  <2>1. EditsTyped'
    BY <1>0, <1>2 DEF EditsInv, EditsTyped, Edits!TypeOK
  <2>2. EditsPlaced'
    BY <1>0, <1>2 DEF EditsInv, EditsPlaced, Reading, Prepared
  <2>3. EditsPaid'
    <3>1. Edited' = Edited
      BY <1>0, <1>2, EditedStays
    <3> QED
      BY <1>0, <1>2, <3>1 DEF EditsInv, EditsPaid, Edits!WithinBudget
  <2>4. EditsClean'
    BY <1>0, FilesStayClean, NumbersStay DEF EditsInv
  <2> QED
    BY <2>1, <2>2, <2>3, <2>4 DEF EditsInv
<1> QED
  BY <1>1, <1>2 DEF Edits!Validate, Edits!Goes, Edits!Goto

(* The files after one of them has lost its name.                          *)
LEMMA UnnamedFiles ==
  ASSUME EditsInv
  PROVE  /\ Edits!Unnamed \in Seq(Inodes) /\ Len(Edits!Unnamed) = Len(inodes)
         /\ \A i \in DOMAIN Edits!Unnamed :
              Edits!Unnamed[i].cells # Mine =>
                (Edits!Unnamed[i].cells = <<>> \/ (i \in DOMAIN inodes /\ Edits!Unnamed[i] = inodes[i]))
<1> DEFINE n == Len(inodes)
           t == Edits!Unnamed
<1>1. inodes \in Seq(Inodes) /\ DOMAIN inodes = 1 .. n /\ n \in Nat
  BY DEF EditsInv, EditsTyped
<1>2. [cells |-> <<>>, stamp |-> 0] \in Inodes
  BY DEF Inodes, Texts
<1>3. t = [i \in 1 .. n |-> IF i = fd THEN inodes[i] ELSE [cells |-> <<>>, stamp |-> 0]]
  BY <1>1 DEF Edits!Unnamed
<1>4. \A i \in 1 .. n : t[i] \in Inodes
  BY <1>1, <1>2, <1>3
<1>5. \A i \in 1 .. n : t[i] = inodes[i] \/ t[i].cells = <<>>
  BY <1>3
<1>6. t = [i \in 1 .. n |-> t[i]]
  BY <1>3
<1> HIDE DEF t, n
<1>7. t \in Seq(Inodes) /\ Len(t) = n /\ DOMAIN t = 1 .. n
  BY <1>1, <1>4, <1>6
<1> QED
  BY <1>1, <1>5, <1>7 DEF t, n

(* A new file takes the name.                                              *)
LEMMA ReplaceFiles ==
  ASSUME EditsInv, Numbers \subseteq Numbers', NEW cells \in Texts, Clean(cells, Numbers'),
         Edits!Replace(cells)
  PROVE  /\ inodes' \in Seq(Inodes) /\ Len(inodes') = Len(inodes) + 1
         /\ named' = Len(inodes) + 1 /\ inodes'[named'].cells = cells /\ EditsClean'
<1> DEFINE n == Len(inodes)
           t == Edits!Unnamed
           file == [cells |-> cells, stamp |-> 0]
<1>1. n \in Nat /\ inodes' = Append(t, file) /\ named' = n + 1
  BY DEF Edits!Replace, EditsInv, EditsTyped
<1>2. file \in Inodes /\ file.cells = cells
  BY DEF Inodes
<1>3. /\ t \in Seq(Inodes) /\ Len(t) = n
      /\ \A i \in DOMAIN t : t[i].cells # Mine =>
           (t[i].cells = <<>> \/ (i \in DOMAIN inodes /\ t[i] = inodes[i]))
  BY UnnamedFiles
<1> HIDE DEF t, n, file
<1>4. /\ inodes' \in Seq(Inodes) /\ Len(inodes') = n + 1 /\ DOMAIN inodes' = 1 .. n + 1
      /\ inodes'[n + 1] = file /\ DOMAIN t = 1 .. n
      /\ \A i \in 1 .. n : inodes'[i] = t[i]
  BY <1>1, <1>2, <1>3
<1>5. Clean(<<>>, Numbers')
  BY DEF Clean
<1>6. EditsClean'
  <2> SUFFICES ASSUME NEW i \in 1 .. n + 1, inodes'[i].cells # Mine
               PROVE  Clean(inodes'[i].cells, Numbers')
    BY <1>4 DEF EditsClean
  <2>1. CASE i = n + 1
    BY <1>2, <1>4, <2>1
  <2>2. CASE i \in 1 .. n
    <3>1. inodes'[i].cells = <<>> \/ (i \in DOMAIN inodes /\ inodes'[i] = inodes[i])
      BY <1>3, <1>4, <2>2
    <3>2. CASE i \in DOMAIN inodes /\ inodes'[i] = inodes[i]
      BY <3>2, CleanMore DEF EditsInv, EditsClean
    <3> QED
      BY <1>5, <3>1, <3>2
  <2>3. i = n + 1 \/ i \in 1 .. n
    BY <1>1
  <2> QED
    BY <2>1, <2>2, <2>3
<1> QED
  BY <1>1, <1>2, <1>4, <1>6 DEF n

(* What a commit that succeeds replaces is what was read.                  *)
LEMMA ReadIsCurrent ==
  ASSUME EditsInv, editing = "commit", Edits!Expected
  PROVE  /\ req \in Edits!Requests /\ calls \in Nat /\ calls \notin Numbers
         /\ Edited # None /\ Edited \in Texts /\ spent + Len(Edited) <= reserved
         /\ req.tool = "Write" => named = 0
         /\ copy = (IF named = 0 THEN <<>> ELSE inodes[named].cells)
         /\ copy \in Texts \cup {Mine} /\ (copy # Mine => Clean(copy, Numbers))
<1>1. /\ req \in Edits!Requests /\ calls \in Nat /\ named \in 0 .. Len(inodes)
      /\ copy \in Texts \cup {Mine}
      /\ Edited # None /\ Edited \in Texts /\ spent + Len(Edited) <= reserved
      /\ IF identity = None THEN copy = <<>>
         ELSE req.tool # "Write" /\ identity.inode # 0 /\ identity.digest = copy
  BY DEF EditsInv, EditsTyped, Edits!TypeOK, EditsPlaced, EditsPaid, Prepared
<1>2. calls \notin Numbers
  BY DEF Numbers
<1>3. CASE identity = None
  <2>1. named = 0 /\ copy = <<>>
    BY <1>1, <1>3 DEF Edits!Expected, Edits!SameStat
  <2> QED
    BY <1>1, <1>2, <2>1 DEF Clean
<1>4. CASE identity # None
  <2>1. named = identity.inode /\ named # 0 /\ inodes[named].cells = copy
    BY <1>1, <1>4 DEF Edits!Expected, Edits!SameStat
  <2>2. copy # Mine => Clean(copy, Numbers)
    <3>1. named \in DOMAIN inodes
      BY <1>1, <2>1 DEF EditsInv, EditsTyped
    <3> QED
      BY <2>1, <3>1 DEF EditsInv, EditsClean
  <2> QED
    BY <1>1, <1>2, <1>4, <2>1, <2>2
<1> QED
  BY <1>3, <1>4

LEMMA CommitStep == EditsInv /\ Edits!Commit => EditsInv'
<1> SUFFICES ASSUME EditsInv, Edits!Commit PROVE EditsInv'
  OBVIOUS
<1>0. editing = "commit" /\ UNCHANGED <<reserved, calls, changed>>
  BY DEF Edits!Commit
<1>1. CASE Edits!Answer("error") /\ UNCHANGED <<inodes, named, spent>>
  BY <1>0, <1>1, AnswerStep
<1>2. CASE /\ Edits!Expected /\ Edits!Replace(Edited) /\ spent' = spent + Len(Edited)
           /\ \E reply \in {"ok", "warned"} : Edits!Answer(reply)
  <2>1. /\ req \in Edits!Requests /\ calls \in Nat /\ calls \notin Numbers
        /\ Edited # None /\ Edited \in Texts /\ spent + Len(Edited) <= reserved
        /\ copy \in Texts \cup {Mine} /\ (copy # Mine => Clean(copy, Numbers))
    BY <1>0, <1>2, ReadIsCurrent
  <2>2. /\ editing' = "idle" /\ req' = None /\ fd' = 0 /\ copy' = <<>> /\ identity' = None
        /\ edited' \in {"ok", "warned"}
    BY <1>2 DEF Edits!Answer, Edits!Goto
  <2>3. Numbers \subseteq Numbers' /\ Numbers \cup {calls} \subseteq Numbers'
    BY <1>0, <2>1, <2>2 DEF Numbers
  <2>4. Clean(Edited, Numbers')
    <3>1. CASE req.tool = "Write"
      <4>1. Edited = <<Edits!Cell(calls, "b")>> /\ Edits!Cell(calls, "b").id = calls
        BY <2>1, <3>1, NewCell DEF Edited, Edits!Apply
      <4> QED
        BY <2>3, <4>1 DEF Clean
    <3>2. CASE req.tool # "Write"
      <4>1. copy # Mine
        BY <2>1, <3>2 DEF Edited, Edits!Apply, Edits!Decoded
      <4>2. Numbers \subseteq Nat
        BY DEF Numbers
      <4>3. Clean(Edited, Numbers \cup {calls})
        BY <2>1, <4>1, <4>2, ApplyClean DEF Edited
      <4> QED
        BY <2>3, <4>3, CleanMore
    <3> QED
      BY <3>1, <3>2
  <2>5. /\ inodes' \in Seq(Inodes) /\ Len(inodes') = Len(inodes) + 1
        /\ named' = Len(inodes) + 1 /\ EditsClean'
    BY <1>2, <2>1, <2>3, <2>4, ReplaceFiles
  <2>6. Len(inodes) \in Nat /\ Len(Edited) \in Nat
    BY <2>1 DEF EditsInv, EditsTyped, Texts
  <2>7. EditsTyped'
    <3>1. <<>> \in Texts
      BY DEF Texts
    <3> QED
      BY <1>0, <1>2, <2>1, <2>2, <2>5, <2>6, <3>1 DEF EditsInv, EditsTyped, Edits!TypeOK
  <2>8. EditsPlaced'
    BY <2>2 DEF EditsPlaced, Reading, Prepared
  <2>9. EditsPaid'
    BY <1>0, <1>2, <2>1, <2>2 DEF EditsInv, EditsTyped, EditsPaid, Edits!WithinBudget
  <2> QED
    BY <2>5, <2>7, <2>8, <2>9 DEF EditsInv
<1> QED
  BY <1>1, <1>2 DEF Edits!Commit, Edited

(* The user's changes.                                                     *)
LEMMA UserReplacesStep == EditsInv /\ Edits!UserReplaces => EditsInv'
<1> SUFFICES ASSUME EditsInv, Edits!UserReplaces PROVE EditsInv'
  OBVIOUS
<1>0. UNCHANGED <<editing, req, fd, copy, identity, edited, reserved, spent, calls>>
  BY DEF Edits!UserReplaces
<1>1. Numbers \subseteq Numbers'
  BY <1>0, NumbersStay
<1>2. /\ inodes' \in Seq(Inodes) /\ Len(inodes') >= Len(inodes)
      /\ named' \in 0 .. Len(inodes') /\ EditsClean'
  <2>1. CASE named' = 0 /\ inodes' = Edits!Unnamed
    <3>1. /\ inodes' \in Seq(Inodes) /\ Len(inodes') = Len(inodes) /\ Len(inodes) \in Nat
          /\ \A i \in DOMAIN inodes' : inodes'[i].cells # Mine =>
               (inodes'[i].cells = <<>> \/ (i \in DOMAIN inodes /\ inodes'[i] = inodes[i]))
      BY <2>1, UnnamedFiles DEF EditsInv, EditsTyped
    <3>2. Clean(<<>>, Numbers')
      BY DEF Clean
    <3>3. EditsClean'
      BY <1>1, <3>1, <3>2, CleanMore DEF EditsInv, EditsClean
    <3> QED
      BY <2>1, <3>1, <3>3
  <2>2. ASSUME NEW cells \in Edits!Saved, Edits!Replace(cells)
        PROVE  /\ inodes' \in Seq(Inodes) /\ Len(inodes') >= Len(inodes)
               /\ named' \in 0 .. Len(inodes') /\ EditsClean'
    <3>1. cells \in Texts /\ Clean(cells, Numbers')
      BY <2>2, SavedClean
    <3>2. Len(inodes) \in Nat
      BY DEF EditsInv, EditsTyped
    <3> QED
      BY <1>1, <2>2, <3>1, <3>2, ReplaceFiles
  <2> QED
    BY <2>1, <2>2 DEF Edits!UserReplaces
<1>3. EditsTyped'
  <2>1. Len(inodes) \in Nat /\ Len(inodes') \in Nat
    BY <1>2 DEF EditsInv, EditsTyped
  <2> QED
    BY <1>0, <1>2, <2>1 DEF EditsInv, EditsTyped, Edits!TypeOK
<1>4. EditsPlaced'
  BY <1>0 DEF EditsInv, EditsPlaced, Reading, Prepared
<1>5. EditsPaid'
  <2>1. Edited' = Edited
    BY <1>0, EditedStays
  <2> QED
    BY <1>0, <2>1 DEF EditsInv, EditsPaid, Edits!WithinBudget
<1> QED
  BY <1>2, <1>3, <1>4, <1>5 DEF EditsInv

LEMMA UserWritesStep == EditsInv /\ Edits!UserWrites => EditsInv'
<1> SUFFICES ASSUME EditsInv, Edits!UserWrites PROVE EditsInv'
  OBVIOUS
<1>0. /\ UNCHANGED <<named, editing, req, fd, copy, identity, edited, reserved, spent, calls>>
      /\ named # 0
  BY DEF Edits!UserWrites
<1>1. Numbers \subseteq Numbers'
  BY <1>0, NumbersStay
<1>2. PICK cells \in Edits!Saved \cup {Mine}, later \in {0, 1} :
        inodes' = [inodes EXCEPT ![named] = [cells |-> cells, stamp |-> @.stamp + later]]
  BY DEF Edits!UserWrites
<1>3. cells \in Texts \cup {Mine} /\ (cells # Mine => Clean(cells, Numbers'))
  BY <1>2, SavedClean
<1>4. /\ named \in 1 .. Len(inodes) /\ Len(inodes) \in Nat /\ inodes \in Seq(Inodes)
      /\ DOMAIN inodes = 1 .. Len(inodes)
  BY <1>0 DEF EditsInv, EditsTyped, Edits!TypeOK
<1>5. inodes[named].stamp + later \in Nat
  BY <1>2, <1>4, FileType
<1> DEFINE file == [cells |-> cells, stamp |-> inodes[named].stamp + later]
<1>6. file \in Inodes /\ file.cells = cells
  BY <1>3, <1>5 DEF Inodes
<1>7. inodes' = [inodes EXCEPT ![named] = file]
  BY <1>2
<1> HIDE DEF file
<1>8. inodes' \in Seq(Inodes) /\ Len(inodes') = Len(inodes)
  BY <1>4, <1>6, <1>7
<1>9. EditsClean'
  BY <1>1, <1>3, <1>4, <1>6, <1>7, CleanMore DEF EditsInv, EditsClean
<1>10. EditsTyped'
  BY <1>0, <1>8 DEF EditsInv, EditsTyped, Edits!TypeOK
<1>11. EditsPlaced'
  BY <1>0 DEF EditsInv, EditsPlaced, Reading, Prepared
<1>12. EditsPaid'
  <2>1. Edited' = Edited
    BY <1>0, EditedStays
  <2> QED
    BY <1>0, <2>1 DEF EditsInv, EditsPaid, Edits!WithinBudget
<1> QED
  BY <1>9, <1>10, <1>11, <1>12 DEF EditsInv

(* The invariant holds at every step.                                      *)
LEMMA EditsStep == EditsInv /\ [Edits!Next]_editVars => EditsInv'
<1> SUFFICES ASSUME EditsInv, [Edits!Next]_editVars PROVE EditsInv'
  OBVIOUS
<1>1. CASE UNCHANGED editVars
  <2>1. UNCHANGED <<inodes, named, editing, req, fd, copy, identity, edited, reserved, spent, calls>>
    BY <1>1 DEF editVars
  <2>2. Edited' = Edited /\ Numbers' = Numbers
    BY <2>1, EditedStays DEF Numbers
  <2>3. EditsClean'
    BY <2>1, <2>2, FilesStayClean DEF EditsInv
  <2>4. EditsTyped'
    BY <2>1 DEF EditsInv, EditsTyped, Edits!TypeOK
  <2>5. EditsPlaced' /\ EditsPaid'
    BY <2>1, <2>2 DEF EditsInv, EditsPlaced, EditsPaid, Edits!WithinBudget, Reading, Prepared
  <2> QED
    BY <2>3, <2>4, <2>5 DEF EditsInv
<1>2. CASE Edits!Next
  <2>1. ASSUME NEW r \in Edits!Requests, Edits!Call(r) PROVE EditsInv'
    BY <2>1, CallStep
  <2> QED
    BY <1>2, <2>1, OpenStep, ReadFirstStep, ReadRestStep, CheckReadStep, IdentifyStep,
       ReserveStep, ValidateStep, CommitStep, UserReplacesStep, UserWritesStep
       DEF Edits!Next
<1> QED
  BY <1>1, <1>2

-------------------------------------------------------------------------------
(* The step that replaces the file.                                        *)

Replacing == editing = "commit" /\ editing' = "idle" /\ edited' # "error"

LEMMA TheCommit ==
  ASSUME EditsInv, [Edits!Next]_editVars, Replacing
  PROVE  /\ Edits!Expected /\ Edits!Content' = Edited /\ UNCHANGED calls
<1>1. Edits!Commit
  <2>1. ~UNCHANGED editVars
    BY DEF editVars, Replacing
  <2>2. \A r \in Edits!Requests : ~Edits!Call(r)
    BY DEF Edits!Call, Replacing
  <2>3. ~Edits!Open /\ ~Edits!ReadFirst /\ ~Edits!ReadRest /\ ~Edits!CheckRead
    BY DEF Edits!Open, Edits!ReadFirst, Edits!ReadRest, Edits!CheckRead, Replacing
  <2>4. ~Edits!Identify /\ ~Edits!Reserve /\ ~Edits!Validate
    BY DEF Edits!Identify, Edits!Reserve, Edits!Validate, Replacing
  <2>5. ~Edits!UserReplaces /\ ~Edits!UserWrites
    BY DEF Edits!UserReplaces, Edits!UserWrites, Replacing
  <2> QED
    BY <2>1, <2>2, <2>3, <2>4, <2>5 DEF Edits!Next
<1>2. Edits!Expected /\ Edits!Replace(Edited) /\ UNCHANGED calls
  BY <1>1 DEF Edits!Commit, Edits!Answer, Replacing, Edited
<1>3. Edited \in Texts /\ Len(inodes) \in Nat
  BY <1>2, ReadIsCurrent DEF EditsInv, EditsTyped, Replacing
<1>4. /\ Edits!Unnamed \in Seq(Inodes) /\ Len(Edits!Unnamed) = Len(inodes)
  BY UnnamedFiles
<1>5. [cells |-> Edited, stamp |-> 0] \in Inodes
  BY <1>3 DEF Inodes
<1>6. inodes' = Append(Edits!Unnamed, [cells |-> Edited, stamp |-> 0]) /\ named' = Len(inodes) + 1
  BY <1>2 DEF Edits!Replace
<1>7. inodes'[named'] = [cells |-> Edited, stamp |-> 0] /\ named' # 0
  BY <1>3, <1>4, <1>5, <1>6
<1> QED
  BY <1>2, <1>7 DEF Edits!Content

LEMMA CommitsTheCurrent ==
  ASSUME EditsInv, [Edits!Next]_editVars
  PROVE  Edits!EditsTheCurrent
<1> SUFFICES ASSUME Replacing
             PROVE  /\ Edits!Content' = Edits!Apply(req, IF named = 0 THEN <<>> ELSE Edits!Content)
                    /\ req.tool = "Write" => named = 0
  BY DEF Edits!EditsTheCurrent, Replacing
<1>1. Edits!Expected /\ Edits!Content' = Edited /\ editing = "commit"
  BY TheCommit DEF Replacing
<1>2. (req.tool = "Write" => named = 0) /\ copy = IF named = 0 THEN <<>> ELSE inodes[named].cells
  BY <1>1, ReadIsCurrent
<1>3. copy = IF named = 0 THEN <<>> ELSE Edits!Content
  BY <1>2 DEF Edits!Content
<1> QED
  BY <1>1, <1>2, <1>3 DEF Edited

(* A text without one of its cells.                                        *)
LEMMA WithoutIs ==
  ASSUME NEW cells \in Texts, NEW t \in Texts, NEW k, Len(cells) = Len(t) - 1,
         \A i \in 1 .. Len(cells) : cells[i] = t[IF i < k THEN i ELSE i + 1]
  PROVE  cells = Edits!Without(t, k)
  BY DEF Texts, Edits!Without

LEMMA TouchesTheNamed ==
  ASSUME EditsInv, [Edits!Next]_editVars
  PROVE  Edits!OnlyTheNamedCell
<1> SUFFICES ASSUME Replacing, named # 0
             PROVE  Edits!OnlyTheNamedCell
  BY DEF Edits!OnlyTheNamedCell, Replacing
<1> DEFINE old == Edits!Content
           new == Edits!Content'
<1>1. /\ Edits!Expected /\ new = Edited /\ editing = "commit" /\ UNCHANGED calls
  BY TheCommit DEF Replacing
<1>2. /\ req \in Edits!Requests /\ calls \in Nat /\ calls \notin Numbers
      /\ Edited # None /\ Edited \in Texts /\ req.tool # "Write" /\ copy = old
      /\ copy \in Texts \cup {Mine} /\ (copy # Mine => Clean(copy, Numbers))
  BY <1>1, ReadIsCurrent DEF Edits!Content
<1>3. old \in Texts /\ old # Mine /\ Clean(old, Numbers)
  BY <1>2 DEF Edited, Edits!Apply, Edits!Decoded
<1>4. new = Edits!Apply(req, old)
  BY <1>1, <1>2 DEF Edited
<1>5. ASSUME req.tool = "Edit", ~req.all
      PROVE  \E k \in DOMAIN old : \A i \in DOMAIN old : old[i] # new[i] <=> i = k
  <2>1. new = Edits!Replacement(req.all, old)
    BY <1>3, <1>4, <1>5 DEF Edits!Apply, Edits!Decoded
  <2>2. /\ \A i \in DOMAIN old : new[i] = [old[i] EXCEPT !.source = "b"]
        /\ Edits!Occurrences(old) # {} /\ \A i, j \in Edits!Occurrences(old) : i = j
    BY <1>1, <1>2, <1>3, <1>5, <2>1, ReplacementType
  <2> HIDE DEF old, new
  <2>3. \A i \in DOMAIN old : old[i] \in TextCells
    BY <1>3 DEF Texts
  <2>4. \A i \in DOMAIN old : old[i] # new[i] <=> i \in Edits!Occurrences(old)
    <3> TAKE i \in DOMAIN old
    <3>1. i \in Edits!Occurrences(old) <=> old[i].source = "a"
      BY DEF Edits!Occurrences
    <3>2. CASE old[i].source = "a"
      <4>1. new[i].source = "b"
        BY <2>2, <2>3 DEF TextCells
      <4> QED
        BY <3>1, <3>2, <4>1
    <3>3. CASE old[i].source # "a"
      <4>1. old[i].source = "b"
        BY <2>3, <3>3 DEF TextCells
      <4>2. new[i] = old[i]
        BY <2>2, <2>3, <4>1 DEF TextCells
      <4> QED
        BY <3>1, <3>3, <4>2
    <3> QED
      BY <3>2, <3>3
  <2>5. PICK k \in Edits!Occurrences(old) : TRUE
    BY <2>2
  <2>6. k \in DOMAIN old
    BY <2>5 DEF Edits!Occurrences
  <2> QED
    BY <2>2, <2>4, <2>5, <2>6
<1>6. ASSUME req.tool = "Notebook", req.anchor.id # None
      PROVE LET those == {i \in DOMAIN old : old[i].id = req.anchor.id}
            IN \E k \in 1 .. Len(old) + 1 :
                 \/ /\ req.mode = "insert"
                    /\ old = Edits!Without(new, k) /\ new[k].id = calls
                    /\ \A i \in DOMAIN old : old[i].id # calls
                    /\ those = IF k = Len(new) /\ those = {} THEN {} ELSE {k - 1}
                 \/ req.mode = "delete" /\ those = {k} /\ new = Edits!Without(old, k)
                 \/ /\ req.mode = "replace" /\ those = {k}
                    /\ new[k] = Edits!Cell(req.anchor.id, "b")
                    /\ Edits!Without(new, k) = Edits!Without(old, k)
  <2> DEFINE id == req.anchor.id
             f == Edits!FindCell(old, req.anchor)
             those == {i \in DOMAIN old : old[i].id = id}
             c == Edits!Cell(calls, "b")
             n == Len(old)
  <2>1. req.mode \in {"replace", "insert", "delete"} /\ req.anchor \in Edits!Anchors
    BY <1>2, <1>6, RequestParts
  <2>2. f \in 0 .. n /\ IF f = 0 THEN \A i \in DOMAIN old : old[i].id # id ELSE old[f].id = id
    BY <1>3, <1>6, <2>1, FoundCell
  <2>3. new = Edits!NotebookEdit(req.mode, f, old, calls) /\ new # None
    BY <1>1, <1>2, <1>3, <1>4, <1>6, NotebookApply
  <2>4. /\ new \in Texts /\ DOMAIN old = 1 .. n /\ n \in Nat /\ DOMAIN new = 1 .. Len(new)
        /\ Len(new) \in Nat
    BY <1>1, <1>2, <1>3 DEF Texts
  <2>5. those = IF f = 0 THEN {} ELSE {f}
    <3>1. \A i, j \in DOMAIN old : old[i].id = old[j].id => (i = j \/ old[i].id = None)
      BY <1>3 DEF Clean
    <3> HIDE DEF f, id, n
    <3> QED
      BY <1>6, <2>2, <2>4, <3>1 DEF id
  <2>6. \A i \in DOMAIN old : old[i].id # calls
    BY <1>2, <1>3, PartsAssumption DEF Clean
  <2>7. CASE req.mode = "insert"
    <3> DEFINE k == IF f = 0 THEN n + 1 ELSE f + 1
    <3>1. /\ Len(new) = n + 1
          /\ \A j \in 1 .. n + 1 :
               new[j] = IF j < k THEN old[j] ELSE IF j = k THEN c ELSE old[j - 1]
      BY <1>2, <1>3, <2>1, <2>2, <2>3, <2>7, NotebookType
    <3>2. c.id = calls
      BY <1>2, NewCell
    <3> HIDE DEF f, id, c, those, old, new, n
    <3>3. k \in 1 .. n + 1
      BY <2>2, <2>4
    <3>4. new[k].id = calls
      BY <3>1, <3>2, <3>3
    <3>5. \A i \in 1 .. n : old[i] = new[IF i < k THEN i ELSE i + 1]
      <4> HIDE DEF k
      <4> TAKE i \in 1 .. n
      <4>1. i \in 1 .. n + 1 /\ i + 1 \in 1 .. n + 1 /\ (i + 1) - 1 = i /\ i \in Int /\ k \in Int
        BY <2>4, <3>3
      <4>2. CASE i < k
        BY <3>1, <4>1, <4>2
      <4>3. CASE ~(i < k)
        <5>1. ~(i + 1 < k) /\ i + 1 # k
          BY <4>1, <4>3
        <5>2. new[i + 1] = old[(i + 1) - 1]
          BY <3>1, <4>1, <5>1
        <5> QED
          BY <4>1, <4>3, <5>2
      <4> QED
        BY <4>2, <4>3
    <3>6. old = Edits!Without(new, k)
      BY <1>3, <2>4, <3>1, <3>5, WithoutIs DEF n
    <3>7. those = IF k = Len(new) /\ those = {} THEN {} ELSE {k - 1}
      <4>1. CASE f = 0
        BY <2>5, <3>1, <4>1
      <4>2. CASE f # 0
        <5>1. k = f + 1 /\ k - 1 = f /\ those = {f} /\ those # {}
          BY <2>2, <2>4, <2>5, <4>2
        <5> QED
          BY <5>1
      <4> QED
        BY <4>1, <4>2
    <3> HIDE DEF k
    <3> QED
      BY <2>6, <2>7, <3>3, <3>4, <3>6, <3>7 DEF n, those, id, old
  <2>8. CASE req.mode = "delete"
    <3>1. f # 0 /\ new = Edits!RemoveAt(old, f)
      BY <2>3, <2>8 DEF Edits!NotebookEdit
    <3> HIDE DEF f, id, c, those, old, new
    <3>2. f \in 1 .. n /\ those = {f}
      BY <2>2, <2>4, <2>5, <3>1
    <3>3. Len(new) = n - 1 /\ \A i \in 1 .. n - 1 : new[i] = old[IF i < f THEN i ELSE i + 1]
      BY <1>3, <3>1, <3>2, Removed
    <3>4. new = Edits!Without(old, f)
      BY <1>3, <2>4, <3>3, WithoutIs
    <3> QED
      BY <2>4, <2>8, <3>2, <3>4 DEF those, id, old
  <2>9. CASE req.mode = "replace"
    <3>1. /\ f # 0 /\ Len(new) = n
          /\ \A j \in 1 .. n : new[j] = IF j = f THEN Edits!Cell(old[f].id, "b") ELSE old[j]
      BY <1>2, <1>3, <2>1, <2>2, <2>3, <2>9, NotebookType
    <3> HIDE DEF f, id, c, those, old, new
    <3>2. f \in 1 .. n /\ those = {f} /\ old[f].id = id
      BY <2>2, <2>4, <2>5, <3>1
    <3>3. new[f] = Edits!Cell(id, "b")
      BY <3>1, <3>2
    <3>4. Edits!Without(new, f) = Edits!Without(old, f)
      BY <2>4, <3>1, <3>2 DEF Edits!Without
    <3> QED
      BY <2>4, <2>9, <3>2, <3>3, <3>4 DEF those, id, old
  <2> QED
    BY <2>1, <2>7, <2>8, <2>9
<1> QED
  BY <1>5, <1>6 DEF Edits!OnlyTheNamedCell

-------------------------------------------------------------------------------
(* The walk: the pattern as an automaton.                                  *)

Parted == Seq({Deep} \cup SUBSET EntryNames)
Trails == Seq(EntryNames)

\* What one part of a pattern takes of a path.
Takes(p, q, i, from, to) ==
  IF p[i] = Deep
  THEN from <= to /\ \A k \in (from + 1) .. to : q[k] \notin Hidden
  ELSE to = from + 1 /\ q[to] \in p[i]

\* A way to cut a path for the parts before a gap, and what is left for the part
\* behind it.
CutTo(p, q, j, cut) ==
  /\ cut \in [0 .. (j - 1) -> 0 .. Len(q)] /\ cut[0] = 0
  /\ \A i \in 1 .. (j - 1) : Takes(p, q, i, cut[i - 1], cut[i])
Rest(p, q, j, v) ==
  \/ v = Len(q)
  \/ j <= Len(p) /\ p[j] = Deep /\ \A k \in (v + 1) .. Len(q) : q[k] \notin Hidden

\* The gaps that a path leads to.
Reach(p, q) ==
  {j \in 1 .. (Len(p) + 1) : \E cut : CutTo(p, q, j, cut) /\ Rest(p, q, j, cut[j - 1])}

(* The empty path leads to the gaps before which all parts may be empty.   *)
LEMMA ReachEmpty ==
  ASSUME pattern \in Parted
  PROVE  Walk!Closure({1}) = Reach(pattern, <<>>)
<1>0. Len(pattern) \in Nat /\ Len(<<>>) = 0
  BY DEF Parted
<1>1. ASSUME NEW j \in Walk!Closure({1}) PROVE j \in Reach(pattern, <<>>)
  <2>1. j \in 1 .. (Len(pattern) + 1) /\ \A k \in 1 .. (j - 1) : pattern[k] = Deep
    BY <1>1 DEF Walk!Closure
  <2> DEFINE cut == [i \in 0 .. (j - 1) |-> 0]
  <2>2. CutTo(pattern, <<>>, j, cut) /\ Rest(pattern, <<>>, j, cut[j - 1])
    BY <1>0, <2>1 DEF CutTo, Takes, Rest
  <2> HIDE DEF cut
  <2> QED
    BY <2>1, <2>2 DEF Reach
<1>2. ASSUME NEW j \in Reach(pattern, <<>>) PROVE j \in Walk!Closure({1})
  <2>1. j \in 1 .. (Len(pattern) + 1)
    BY DEF Reach
  <2>2. PICK cut : CutTo(pattern, <<>>, j, cut)
    BY DEF Reach
  <2>3. \A k \in 1 .. (j - 1) : pattern[k] = Deep
    <3> TAKE k \in 1 .. (j - 1)
    <3>1. cut[k] = 0 /\ cut[k - 1] = 0
      <4>1. cut \in [0 .. (j - 1) -> 0 .. 0]
        BY <1>0, <2>2 DEF CutTo
      <4> QED
        BY <4>1, <2>1
    <3>2. Takes(pattern, <<>>, k, 0, 0)
      BY <2>2, <3>1 DEF CutTo
    <3> QED
      BY <3>2 DEF Takes
  <2> QED
    BY <1>0, <2>1, <2>3 DEF Walk!Closure
<1> QED
  BY <1>1, <1>2

(* Where a name is taken by the part before a gap, that part is the one    *)
(* before another gap, and all between them may be empty.                  *)
LEMMA LastTaken ==
  ASSUME NEW p \in Parted, NEW q \in Trails, NEW v \in Nat, v + 1 = Len(q),
         NEW j \in 1 .. (Len(p) + 1), NEW cut, CutTo(p, q, j, cut), cut[j - 1] = v + 1
  PROVE  \E i \in 1 .. (j - 1) :
           /\ cut[i] = v + 1 /\ cut[i - 1] \in 0 .. v
           /\ \A k \in (i + 1) .. (j - 1) : p[k] = Deep
<1>0. Len(p) \in Nat /\ Len(q) \in Nat
  BY DEF Parted, Trails
<1>1. cut \in [0 .. (j - 1) -> 0 .. Len(q)] /\ cut[0] = 0
      /\ \A i \in 1 .. (j - 1) : Takes(p, q, i, cut[i - 1], cut[i])
  BY DEF CutTo
<1> DEFINE T == {i \in 0 .. (j - 1) : cut[i] = v + 1}
<1>2. T \subseteq Nat /\ T # {}
  BY <1>0
<1>3. PICK i \in T : \A k \in T : i <= k
  BY <1>2, Least
<1>4. i \in 1 .. (j - 1) /\ cut[i] = v + 1
  <2>1. i \in 0 .. (j - 1) /\ cut[i] = v + 1
    BY <1>3
  <2> QED
    BY <1>1, <2>1
<1>5. cut[i - 1] \in 0 .. v
  <2>1. i - 1 \in 0 .. (j - 1) /\ i - 1 \notin T
    BY <1>3, <1>4
  <2> QED
    BY <1>0, <1>1, <2>1
<1>6. \A k \in i .. (j - 1) : cut[k] = v + 1
  <2> DEFINE B == {k \in i .. (j - 1) : cut[k] # v + 1}
  <2> SUFFICES ASSUME B # {} PROVE FALSE
    OBVIOUS
  <2>1. B \subseteq Nat
    BY <1>4
  <2>2. PICK k \in B : \A l \in B : k <= l
    BY <2>1, Least
  <2>3. k \in i .. (j - 1) /\ cut[k] # v + 1 /\ k # i
    BY <1>4, <2>2
  <2>4. k - 1 \in i .. (j - 1) /\ k - 1 \notin B
    BY <1>4, <2>2, <2>3
  <2>5. cut[k - 1] = v + 1
    BY <2>4
  <2>6. Takes(p, q, k, v + 1, cut[k]) /\ cut[k] \in 0 .. (v + 1)
    BY <1>0, <1>1, <1>4, <2>3, <2>5
  <2> QED
    BY <2>3, <2>6 DEF Takes
<1>7. \A k \in (i + 1) .. (j - 1) : p[k] = Deep
  <2> TAKE k \in (i + 1) .. (j - 1)
  <2>1. cut[k - 1] = v + 1 /\ cut[k] = v + 1 /\ k \in 1 .. (j - 1)
    BY <1>4, <1>6
  <2>2. Takes(p, q, k, v + 1, v + 1)
    BY <1>1, <2>1
  <2> QED
    BY <2>2 DEF Takes
<1> QED
  BY <1>4, <1>5, <1>7

(* A way to cut a path is one to cut a longer one.                         *)
LEMMA CutFurther ==
  ASSUME NEW p \in Parted, NEW q \in Trails, NEW n \in EntryNames,
         NEW j \in 1 .. (Len(p) + 1), NEW cut, CutTo(p, q, j, cut)
  PROVE  CutTo(p, Append(q, n), j, cut)
<1>1. Len(q) \in Nat /\ Len(Append(q, n)) = Len(q) + 1
      /\ \A k \in 1 .. Len(q) : Append(q, n)[k] = q[k]
  BY DEF Trails
<1>2. cut \in [0 .. (j - 1) -> 0 .. Len(q)] /\ cut[0] = 0
      /\ \A i \in 1 .. (j - 1) : Takes(p, q, i, cut[i - 1], cut[i])
  BY DEF CutTo
<1>3. \A i \in 1 .. (j - 1) : Takes(p, Append(q, n), i, cut[i - 1], cut[i])
  <2> TAKE i \in 1 .. (j - 1)
  <2>1. cut[i - 1] \in 0 .. Len(q) /\ cut[i] \in 0 .. Len(q) /\ Takes(p, q, i, cut[i - 1], cut[i])
    BY <1>2
  <2> QED
    BY <1>1, <2>1 DEF Takes
<1> QED
  BY <1>1, <1>2, <1>3 DEF CutTo

(* A shorter way to cut.                                                   *)
LEMMA CutLess ==
  ASSUME NEW p \in Parted, NEW q \in Trails, NEW n \in EntryNames,
         NEW j \in 1 .. (Len(p) + 1), NEW cut, CutTo(p, Append(q, n), j, cut),
         NEW i \in 1 .. j, \A k \in 0 .. (i - 1) : cut[k] <= Len(q)
  PROVE  CutTo(p, q, i, [k \in 0 .. (i - 1) |-> cut[k]])
<1>1. Len(q) \in Nat /\ Len(Append(q, n)) = Len(q) + 1 /\ Len(p) \in Nat
      /\ \A k \in 1 .. Len(q) : Append(q, n)[k] = q[k]
  BY DEF Trails, Parted
<1>2. cut \in [0 .. (j - 1) -> 0 .. (Len(q) + 1)] /\ cut[0] = 0
      /\ \A k \in 1 .. (j - 1) : Takes(p, Append(q, n), k, cut[k - 1], cut[k])
  BY <1>1 DEF CutTo
<1>3. \A k \in 1 .. (i - 1) : Takes(p, q, k, cut[k - 1], cut[k])
  <2> TAKE k \in 1 .. (i - 1)
  <2>1. cut[k - 1] \in 0 .. Len(q) /\ cut[k] \in 0 .. Len(q)
        /\ Takes(p, Append(q, n), k, cut[k - 1], cut[k])
    BY <1>1, <1>2
  <2> QED
    BY <1>1, <2>1 DEF Takes
<1>4. [k \in 0 .. (i - 1) |-> cut[k]] \in [0 .. (i - 1) -> 0 .. Len(q)]
  BY <1>1, <1>2
<1> QED
  BY <1>1, <1>2, <1>3, <1>4 DEF CutTo

(* One more name leads from gap to gap as _GlobPattern.advance says        *)
(* (walk_support.py:136).                                                  *)
LEMMA ReachAdvance ==
  ASSUME pattern \in Parted, NEW q \in Trails, NEW n \in EntryNames
  PROVE  Walk!Advance(Reach(pattern, q), n) = Reach(pattern, Append(q, n))
<1> DEFINE p == pattern
<1> DEFINE r == Append(q, n)
<1> DEFINE Stays == {i \in Reach(p, q) : i <= Len(p) /\ p[i] = Deep /\ n \notin Hidden}
<1> DEFINE Moves == {i + 1 : i \in {i \in Reach(p, q) : /\ i <= Len(p) /\ p[i] # Deep
                                                       /\ n \in p[i]}}
<1>0. /\ p \in Parted /\ Len(p) \in Nat /\ Len(q) \in Nat
      /\ r \in Trails /\ Len(r) = Len(q) + 1
      /\ \A k \in 1 .. Len(q) : r[k] = q[k]
      /\ r[Len(q) + 1] = n
  BY DEF Parted, Trails
<1>1. Walk!Advance(Reach(p, q), n) = Walk!Closure(Stays \cup Moves)
  BY DEF Walk!Advance
<1> HIDE DEF r
<1>2. ASSUME NEW j \in Walk!Closure(Stays \cup Moves) PROVE j \in Reach(p, r)
  <2>1. j \in 1 .. (Len(p) + 1)
    BY DEF Walk!Closure
  <2>2. PICK g \in Stays \cup Moves : g <= j /\ \A k \in g .. (j - 1) : p[k] = Deep
    BY DEF Walk!Closure
  <2>3. \E h \in 0 .. j : \E cut :
          /\ h >= 1 => CutTo(p, r, h, cut)
          /\ 1 <= h /\ Rest(p, r, h, cut[h - 1])
          /\ h <= j /\ \A k \in h .. (j - 1) : p[k] = Deep
    <3>1. CASE g \in Stays
      <4>1. g \in 1 .. (Len(p) + 1) /\ g <= Len(p) /\ p[g] = Deep /\ n \notin Hidden
        BY <3>1 DEF Reach
      <4>2. PICK cut : CutTo(p, q, g, cut) /\ Rest(p, q, g, cut[g - 1])
        BY <3>1 DEF Reach
      <4>3. CutTo(p, r, g, cut)
        BY <1>0, <4>1, <4>2, CutFurther DEF r
      <4>4. cut[g - 1] \in 0 .. Len(q)
        BY <4>1, <4>2 DEF CutTo
      <4>5. Rest(p, r, g, cut[g - 1])
        <5>1. \A k \in (cut[g - 1] + 1) .. Len(q) : q[k] \notin Hidden
          BY <1>0, <4>2, <4>4 DEF Rest
        <5>2. \A k \in (cut[g - 1] + 1) .. Len(r) : r[k] \notin Hidden
          BY <1>0, <4>1, <4>4, <5>1
        <5> QED
          BY <4>1, <5>2 DEF Rest
      <4> QED
        BY <2>1, <2>2, <4>1, <4>3, <4>5
    <3>2. CASE g \in Moves
      <4>1. PICK i \in Reach(p, q) : g = i + 1 /\ i <= Len(p) /\ p[i] # Deep /\ n \in p[i]
        BY <3>2
      <4>2. i \in 1 .. (Len(p) + 1)
        BY DEF Reach
      <4>3. PICK cut : CutTo(p, q, i, cut) /\ Rest(p, q, i, cut[i - 1])
        BY DEF Reach
      <4>4. cut[i - 1] = Len(q) /\ cut \in [0 .. (i - 1) -> 0 .. Len(q)]
        BY <4>1, <4>3 DEF Rest, CutTo
      <4> DEFINE new == [k \in 0 .. (g - 1) |-> IF k < i THEN cut[k] ELSE Len(q) + 1]
      <4>5. CutTo(p, r, i, cut)
        BY <1>0, <4>2, <4>3, CutFurther DEF r
      <4>6. \A k \in 1 .. (g - 1) : Takes(p, r, k, new[k - 1], new[k])
        <5> TAKE k \in 1 .. (g - 1)
        <5>1. CASE k < i
          <6>1. new[k - 1] = cut[k - 1] /\ new[k] = cut[k] /\ k \in 1 .. (i - 1)
            BY <4>1, <4>2, <5>1
          <6> QED
            BY <4>5, <6>1 DEF CutTo
        <5>2. CASE k = i
          <6>1. new[k - 1] = Len(q) /\ new[k] = Len(q) + 1
            BY <4>1, <4>2, <4>4, <5>2
          <6> HIDE DEF new
          <6> QED
            BY <1>0, <4>1, <5>2, <6>1 DEF Takes
        <5> QED
          BY <4>1, <4>2, <5>1, <5>2
      <4>7. CutTo(p, r, g, new)
        <5>1. new \in [0 .. (g - 1) -> 0 .. Len(r)] /\ new[0] = 0
          <6>1. \A k \in 0 .. (g - 1) : k < i => cut[k] \in 0 .. Len(q)
            BY <4>1, <4>2, <4>4
          <6>2. cut[0] = 0
            BY <4>3 DEF CutTo
          <6> QED
            BY <1>0, <4>1, <4>2, <6>1, <6>2
        <5> QED
          BY <4>6, <5>1 DEF CutTo
      <4>8. new[g - 1] = Len(r)
        BY <1>0, <4>1, <4>2
      <4> HIDE DEF new
      <4>9. Rest(p, r, g, new[g - 1])
        BY <4>8 DEF Rest
      <4>10. g \in 0 .. j /\ 1 <= g
        BY <2>1, <2>2, <4>1, <4>2
      <4> QED
        BY <2>2, <4>7, <4>9, <4>10
    <3> QED
      BY <3>1, <3>2
  <2>3a. PICK h \in 1 .. j : \E cut : /\ CutTo(p, r, h, cut) /\ Rest(p, r, h, cut[h - 1])
                                      /\ \A k \in h .. (j - 1) : p[k] = Deep
    BY <2>1, <2>3
  <2>4. PICK cut : /\ CutTo(p, r, h, cut) /\ Rest(p, r, h, cut[h - 1])
                   /\ \A k \in h .. (j - 1) : p[k] = Deep
    BY <2>3a
  <2>5. CASE h = j
    BY <2>1, <2>4, <2>5 DEF Reach
  <2>6. CASE h < j
    <3> DEFINE new == [k \in 0 .. (j - 1) |-> IF k < h THEN cut[k] ELSE Len(r)]
    <3>1. /\ cut \in [0 .. (h - 1) -> 0 .. Len(r)] /\ cut[0] = 0
          /\ \A i \in 1 .. (h - 1) : Takes(p, r, i, cut[i - 1], cut[i])
      BY <2>4 DEF CutTo
    <3>2. new \in [0 .. (j - 1) -> 0 .. Len(r)] /\ new[0] = 0
      BY <1>0, <2>1, <2>6, <3>1
    <3>3. \A k \in 1 .. (j - 1) : Takes(p, r, k, new[k - 1], new[k])
      <4> TAKE k \in 1 .. (j - 1)
      <4>1. CASE k < h
        <5>1. new[k - 1] = cut[k - 1] /\ new[k] = cut[k] /\ k \in 1 .. (h - 1)
          BY <2>1, <4>1
        <5> QED
          BY <3>1, <5>1
      <4>2. CASE k = h
        <5>1. new[k - 1] = cut[h - 1] /\ new[k] = Len(r) /\ cut[h - 1] \in 0 .. Len(r)
          BY <2>1, <3>1, <4>2
        <5>2. p[h] = Deep
          <6>1. h \in h .. (j - 1)
            BY <2>1, <2>4, <2>6
          <6> QED
            BY <2>4, <6>1
        <5>3. \A l \in (cut[h - 1] + 1) .. Len(r) : r[l] \notin Hidden
          BY <1>0, <2>4, <5>1 DEF Rest
        <5> HIDE DEF new
        <5> QED
          BY <1>0, <4>2, <5>1, <5>2, <5>3 DEF Takes
      <4>3. CASE k > h
        <5>1. new[k - 1] = Len(r) /\ new[k] = Len(r) /\ p[k] = Deep
          BY <2>1, <2>4, <4>3
        <5> HIDE DEF new
        <5> QED
          BY <1>0, <5>1 DEF Takes
      <4> QED
        BY <4>1, <4>2, <4>3
    <3>4. new[j - 1] = Len(r)
      BY <2>1, <2>6
    <3> HIDE DEF new
    <3>5. CutTo(p, r, j, new) /\ Rest(p, r, j, new[j - 1])
      BY <3>2, <3>3, <3>4 DEF CutTo, Rest
    <3> QED
      BY <2>1, <3>5 DEF Reach
  <2> QED
    BY <2>1, <2>5, <2>6
<1>3. ASSUME NEW j \in Reach(p, r) PROVE j \in Walk!Closure(Stays \cup Moves)
  <2>1. j \in 1 .. (Len(p) + 1)
    BY DEF Reach
  <2>2. PICK cut : CutTo(p, r, j, cut) /\ Rest(p, r, j, cut[j - 1])
    BY DEF Reach
  <2>3. /\ cut \in [0 .. (j - 1) -> 0 .. (Len(q) + 1)] /\ cut[0] = 0
        /\ \A i \in 1 .. (j - 1) : Takes(p, r, i, cut[i - 1], cut[i])
        /\ cut[j - 1] \in 0 .. (Len(q) + 1)
    BY <1>0, <2>1, <2>2 DEF CutTo
  <2>4. \A i \in 1 .. j : cut[i - 1] <= Len(q) => \A k \in 0 .. (i - 1) : cut[k] <= Len(q)
    <3> SUFFICES ASSUME NEW i \in 1 .. j, cut[i - 1] <= Len(q),
                        NEW k \in 0 .. (i - 1), ~(cut[k] <= Len(q))
                 PROVE  FALSE
      OBVIOUS
    <3> DEFINE B == {l \in k .. (i - 1) : cut[l] <= Len(q)}
    <3>1. i - 1 \in B /\ B \subseteq Nat
      BY <2>1
    <3>2. PICK l \in B : \A m \in B : l <= m
      BY <3>1, Least
    <3>3. l # k /\ l - 1 \in k .. (i - 1) /\ l - 1 \notin B /\ l \in 1 .. (j - 1)
      BY <2>1, <3>2
    <3>4. Takes(p, r, l, cut[l - 1], cut[l]) /\ ~(cut[l - 1] <= Len(q)) /\ cut[l] <= Len(q)
          /\ cut[l] \in 0 .. (Len(q) + 1) /\ cut[l - 1] \in 0 .. (Len(q) + 1)
      BY <2>1, <2>3, <3>2, <3>3
    <3> QED
      BY <1>0, <3>4 DEF Takes
  <2>5. \E g \in Stays \cup Moves : g <= j /\ \A k \in g .. (j - 1) : p[k] = Deep
    <3>1. ASSUME NEW i \in 1 .. j, cut[i - 1] \in 0 .. Len(q), p[i] = Deep, i <= Len(p),
                 \A k \in (cut[i - 1] + 1) .. Len(r) : r[k] \notin Hidden
          PROVE  i \in Stays
      <4>1. \A k \in 0 .. (i - 1) : cut[k] <= Len(q)
        BY <1>0, <2>1, <2>4, <3>1
      <4> DEFINE new == [k \in 0 .. (i - 1) |-> cut[k]]
      <4>2. CutTo(p, q, i, new)
        BY <1>0, <2>1, <2>2, <4>1, CutLess DEF r
      <4>3. new[i - 1] = cut[i - 1]
        BY <2>1
      <4> HIDE DEF new
      <4>4. Rest(p, q, i, new[i - 1])
        <5>1. \A k \in (cut[i - 1] + 1) .. Len(q) : q[k] \notin Hidden
          BY <1>0, <3>1
        <5> QED
          BY <3>1, <4>3, <5>1 DEF Rest
      <4>5. n \notin Hidden
        BY <1>0, <3>1
      <4>6. i \in Reach(p, q)
        BY <1>0, <2>1, <4>2, <4>4 DEF Reach
      <4> QED
        BY <3>1, <4>5, <4>6
    <3>2. CASE cut[j - 1] <= Len(q)
      <4>1. cut[j - 1] \in 0 .. Len(q)
        BY <1>0, <2>3, <3>2
      <4>2. j <= Len(p) /\ p[j] = Deep /\ \A k \in (cut[j - 1] + 1) .. Len(r) : r[k] \notin Hidden
        BY <1>0, <2>2, <4>1 DEF Rest
      <4>3. j \in Stays
        BY <2>1, <3>1, <4>1, <4>2
      <4> QED
        BY <2>1, <4>3
    <3>3. CASE cut[j - 1] = Len(q) + 1
      <4>1. PICK i \in 1 .. (j - 1) : /\ cut[i] = Len(q) + 1 /\ cut[i - 1] \in 0 .. Len(q)
                                      /\ \A k \in (i + 1) .. (j - 1) : p[k] = Deep
        BY <1>0, <2>1, <2>2, <3>3, LastTaken
      <4>2. Takes(p, r, i, cut[i - 1], Len(q) + 1)
        BY <2>3, <4>1
      <4>3. i <= Len(p) /\ i \in 1 .. j
        BY <1>0, <2>1
      <4>4. CASE p[i] = Deep
        <5>1. i \in Stays
          BY <1>0, <3>1, <4>1, <4>2, <4>3, <4>4 DEF Takes
        <5>2. \A k \in i .. (j - 1) : p[k] = Deep
          BY <2>1, <4>1, <4>4
        <5> QED
          BY <4>3, <5>1, <5>2
      <4>5. CASE p[i] # Deep
        <5>1. cut[i - 1] = Len(q) /\ n \in p[i]
          BY <1>0, <4>1, <4>2, <4>5 DEF Takes
        <5>2. \A k \in 0 .. (i - 1) : cut[k] <= Len(q)
          BY <1>0, <2>1, <2>4, <4>3, <5>1
        <5> DEFINE new == [k \in 0 .. (i - 1) |-> cut[k]]
        <5>3. CutTo(p, q, i, new)
          BY <1>0, <2>1, <2>2, <4>3, <5>2, CutLess DEF r
        <5>4. new[i - 1] = Len(q)
          BY <2>1, <4>3, <5>1
        <5> HIDE DEF new
        <5>5. i \in Reach(p, q)
          BY <1>0, <2>1, <4>3, <5>3, <5>4 DEF Reach, Rest
        <5>6. i + 1 \in Moves
          BY <4>3, <4>5, <5>1, <5>5
        <5>7. i + 1 <= j /\ \A k \in (i + 1) .. (j - 1) : p[k] = Deep
          BY <2>1, <4>1
        <5> HIDE DEF Moves, Stays
        <5> QED
          BY <5>6, <5>7
      <4> QED
        BY <4>4, <4>5
    <3> QED
      BY <1>0, <2>3, <3>2, <3>3
  <2> QED
    BY <2>1, <2>5 DEF Walk!Closure
<1> QED
  BY <1>1, <1>2, <1>3 DEF r

(* The automaton accepts what the pattern means (walk_support.py:145).     *)
LEMMA ReachMatches ==
  ASSUME pattern \in Parted, NEW path \in Trails
  PROVE  Walk!IsMatch(Reach(pattern, path)) <=> Walk!Matches(path)
<1> DEFINE n == Len(pattern)
<1>0. n \in Nat
  BY DEF Parted
<1>1. Walk!IsMatch(Reach(pattern, path)) <=> \E cut : CutTo(pattern, path, n + 1, cut) /\ cut[n] = Len(path)
  BY <1>0 DEF Walk!IsMatch, Reach, Rest
<1>2. \A cut : CutTo(pattern, path, n + 1, cut) <=>
                 /\ cut \in [0 .. n -> 0 .. Len(path)] /\ cut[0] = 0
                 /\ \A i \in 1 .. n : Takes(pattern, path, i, cut[i - 1], cut[i])
  BY <1>0 DEF CutTo
<1> QED
  BY <1>1, <1>2 DEF Walk!Matches, Takes

\* A path begins with another, and goes on.
Begins(q, path) == Len(q) < Len(path) /\ \A k \in 1 .. Len(q) : q[k] = path[k]

(* On the way to a path that matches, the automaton is not at an end       *)
(* (walk_support.py:148).                                                  *)
LEMMA ReachDescends ==
  ASSUME pattern \in Parted, NEW path \in Trails, Walk!Matches(path),
         NEW q \in Trails, Begins(q, path)
  PROVE  Walk!CanDescend(Reach(pattern, q))
<1> DEFINE n == Len(pattern)
<1>0. n \in Nat /\ Len(q) \in Nat /\ Len(path) \in Nat /\ Len(q) < Len(path)
      /\ \A k \in 1 .. Len(q) : q[k] = path[k]
  BY DEF Parted, Trails, Begins
<1>1. PICK cut \in [0 .. n -> 0 .. Len(path)] :
        /\ cut[0] = 0 /\ cut[n] = Len(path)
        /\ \A i \in 1 .. n : Takes(pattern, path, i, cut[i - 1], cut[i])
  BY DEF Walk!Matches, Takes
<1> HIDE DEF n
<1> DEFINE B == {i \in 0 .. n : cut[i] > Len(q)}
<1>2. n \in B /\ B \subseteq Nat
  BY <1>0, <1>1
<1>3. PICK i \in B : \A k \in B : i <= k
  BY <1>2, Least
<1>4. i \in 1 .. n /\ \A k \in 0 .. (i - 1) : cut[k] \in 0 .. Len(q)
  <2>1. i # 0
    BY <1>0, <1>1, <1>3
  <2>2. \A k \in 0 .. (i - 1) : k \in 0 .. n /\ k \notin B
    BY <1>0, <1>3
  <2> QED
    BY <1>0, <1>1, <1>3, <2>1, <2>2
<1> DEFINE new == [k \in 0 .. (i - 1) |-> cut[k]]
<1>5. new \in [0 .. (i - 1) -> 0 .. Len(q)] /\ new[0] = 0 /\ new[i - 1] = cut[i - 1]
  BY <1>0, <1>1, <1>4
<1>6. \A k \in 1 .. (i - 1) : Takes(pattern, q, k, new[k - 1], new[k])
  <2> TAKE k \in 1 .. (i - 1)
  <2>1. /\ new[k - 1] = cut[k - 1] /\ new[k] = cut[k] /\ cut[k - 1] \in 0 .. Len(q)
        /\ cut[k] \in 0 .. Len(q) /\ Takes(pattern, path, k, cut[k - 1], cut[k])
    BY <1>0, <1>1, <1>4
  <2>2. \A l \in (cut[k - 1] + 1) .. cut[k] : q[l] = path[l]
    BY <1>0, <2>1
  <2>3. Takes(pattern, q, k, cut[k - 1], cut[k])
    <3>1. CASE pattern[k] = Deep
      BY <2>1, <2>2, <3>1 DEF Takes
    <3>2. CASE pattern[k] # Deep
      <4>1. cut[k] = cut[k - 1] + 1 /\ path[cut[k]] \in pattern[k]
        BY <2>1, <3>2 DEF Takes
      <4>2. q[cut[k]] = path[cut[k]]
        BY <2>1, <2>2, <4>1
      <4> QED
        BY <3>2, <4>1, <4>2 DEF Takes
    <3> QED
      BY <3>1, <3>2
  <2> QED
    BY <2>1, <2>3
<1> HIDE DEF new
<1>7. CutTo(pattern, q, i, new)
  BY <1>5, <1>6 DEF CutTo
<1>8. Rest(pattern, q, i, new[i - 1])
  <2>1. cut[i] > Len(q) /\ cut[i] \in 0 .. Len(path) /\ cut[i - 1] \in 0 .. Len(q)
        /\ Takes(pattern, path, i, cut[i - 1], cut[i])
    BY <1>0, <1>1, <1>3, <1>4
  <2>2. CASE pattern[i] = Deep
    <3>1. \A k \in (cut[i - 1] + 1) .. Len(q) : path[k] \notin Hidden
      BY <1>0, <2>1, <2>2 DEF Takes
    <3>2. \A k \in (cut[i - 1] + 1) .. Len(q) : q[k] \notin Hidden
      BY <1>0, <2>1, <3>1
    <3> QED
      BY <1>4, <1>5, <2>2, <3>2 DEF Rest, n
  <2>3. CASE pattern[i] # Deep
    <3>1. cut[i - 1] = Len(q)
      BY <1>0, <2>1, <2>3 DEF Takes
    <3> QED
      BY <1>5, <3>1 DEF Rest
  <2> QED
    BY <2>2, <2>3
<1>9. i \in Reach(pattern, q) /\ i <= Len(pattern)
  BY <1>0, <1>4, <1>7, <1>8 DEF Reach, n
<1> QED
  BY <1>9 DEF Walk!CanDescend

-------------------------------------------------------------------------------
(* The walk: its inductive invariant.                                      *)

Frames == [dir : Walk!Dirs, path : Trails, states : SUBSET Nat, left : SUBSET EntryNames]

WalkTyped ==
  /\ Walk!TypeOK /\ pattern \in Parted
  /\ stack \in Seq(Frames) /\ found \in SUBSET Trails
  /\ yielded \in [path : Trails, file : BOOLEAN]
  /\ \A p \in Walk!Slots : tree[p] # Root

\* What is open, and what the walk is at, in each of its places.
WalkPlaced ==
  /\ walk \in {"base", "done"} => stack = <<>>
  /\ walk \in {"base", "loop", "stat", "guard", "match", "done"} => yielded = Walk!NoEntry
  /\ walk \in {"stat", "guard", "match", "descend"} => stack # <<>> /\ name \in EntryNames
  /\ walk = "yield" => yielded # Walk!NoEntry
  /\ walk # "done" =>
       answer = "none" /\ open = Len(stack) + (IF yielded.file THEN 1 ELSE 0)
  /\ Walk!AllClosed

\* What was there is there, where nobody touched it.
WalkThere ==
  /\ \A d \in Walk!Dirs, n \in EntryNames : <<d, n, tree[<<d, n>>]>> \in was
  /\ \A d \in Walk!Dirs, n \in EntryNames : \A o :
       <<d, n, o>> \in was /\ <<d, n>> \notin touched => o = tree[<<d, n>>]
  /\ \A d, n, o : <<d, n, o>> \in was => d \in Walk!Dirs /\ n \in EntryNames

\* A chain of entries that were there leads along a path to an object.
Chain(path, o, c) ==
  /\ c \in [0 .. Len(path) -> Nodes] /\ c[0] = Root /\ c[Len(path)] = o
  /\ \A k \in 1 .. Len(path) : <<c[k - 1], path[k], c[k]>> \in was
  /\ \A k \in 1 .. (Len(path) - 1) : c[k] \in Subdirs
Leading(path, o) == \E c : Chain(path, o, c)

\* A frame is of a directory that its path led to, and of the gaps there.
FrameRight(f) ==
  /\ f.states = Reach(pattern, f.path)
  /\ f.dir \in Subdirs \/ f.path = <<>>
  /\ Leading(f.path, f.dir) /\ ~Walk!UnsafePart(f.path)

\* A path that may be told of: a protected one only because of a link.
Allowed(path) ==
  ~Walk!UnsafePart(path) /\ (Walk!Protected(path) => Walk!Linked(was, path))

WalkEntry ==
  walk \in {"guard", "match", "descend"} =>
    /\ <<Walk!Top.dir, name, info>> \in was
    /\ info \in Nodes \ (Links \cup {Root})
    /\ states = Reach(pattern, Append(Walk!Top.path, name))
    /\ ~Walk!UnsafePart(Append(Walk!Top.path, name))
    /\ walk # "guard" => Allowed(Append(Walk!Top.path, name))

Good(path, last) ==
  Walk!Matches(path) /\ Allowed(path) /\ \E o \in last : Leading(path, o)
Sought == IF tool = "grep" THEN Walk!Plain ELSE Walk!Plain \cup Subdirs

WalkSound ==
  /\ \A i \in DOMAIN stack : FrameRight(stack[i])
  /\ WalkEntry
  /\ yielded # Walk!NoEntry => Good(yielded.path, Walk!Plain \cup Subdirs)
  /\ yielded.file => Good(yielded.path, Walk!Plain)
  /\ \A path \in found : Good(path, Sought)

\* A chain that nobody has touched, to something that the tool looks for and the
\* walk does not keep to itself.
Still(path, c) ==
  /\ ~Walk!UnsafePart(path) /\ ~Walk!Protected(path)
  /\ c \in [0 .. Len(path) -> Nodes] /\ c[0] = Root /\ c[Len(path)] \in Sought
  /\ \A k \in 1 .. Len(path) : /\ <<c[k - 1], path[k]>> \in Walk!Slots \ touched
                               /\ tree[<<c[k - 1], path[k]>>] = c[k]
  /\ \A k \in 1 .. (Len(path) - 1) : c[k] \in Subdirs

\* The walk is on the way to it: in a frame that has its next name before it, or
\* is at it.
Ahead(i, path, c) ==
  LET m == Len(stack[i].path)
  IN /\ Begins(stack[i].path, path) /\ stack[i].dir = c[m]
     /\ \/ path[m + 1] \in stack[i].left
        \/ /\ i = Len(stack) /\ name = path[m + 1]
           /\ \/ walk = "stat"
              \/ walk \in {"guard", "match"} /\ info = c[m + 1]
              \/ walk = "descend" /\ info = c[m + 1] /\ m + 1 < Len(path)

Covered(path, c) ==
  \/ path \in found
  \/ walk \in {"descend", "yield"} /\ yielded.path = path /\ (tool = "grep" => yielded.file)
  \/ \E i \in DOMAIN stack : Ahead(i, path, c)

WalkComplete ==
  walk # "base" /\ answer \in {"none", "ok"} /\ ~truncated /\ ~incomplete =>
    \A path \in Trails : \A c :
      path # <<>> /\ Walk!Matches(path) /\ Still(path, c) => Covered(path, c)

WalkInv == WalkTyped /\ WalkPlaced /\ WalkThere /\ WalkSound /\ WalkComplete

(* The invariant holds initially.                                          *)
LEMMA WalkInitInv == Walk!Init => WalkInv
<1> SUFFICES ASSUME Walk!Init PROVE WalkInv
  OBVIOUS
<1>1. /\ tree \in Trees /\ moves = 0 /\ touched = {} /\ found = {}
      /\ was = {<<p[1], p[2], tree[p]>> : p \in Walk!Slots}
      /\ system \in {"posix", "nt"} /\ tool \in {"glob", "grep"} /\ pattern \in Patterns
      /\ walk = "base" /\ stack = <<>> /\ states = {} /\ yielded = Walk!NoEntry
      /\ entries = 0 /\ directories = 0 /\ truncated = FALSE /\ incomplete = FALSE
      /\ open = 0 /\ answer = "none"
  BY DEF Walk!Init
<1>2. tree \in [Walk!Slots -> Nodes \cup {None}] /\ Walk!Tree(tree) /\ pattern \in Parted
      /\ moves \in 0 .. MaxMoves /\ entries \in 0 .. MaxEntries
      /\ directories \in 0 .. MaxDirectories
  BY <1>1, WalkAssumption DEF Parted
<1>3. yielded = [path |-> <<>>, file |-> FALSE] /\ <<>> \in Trails /\ Len(<<>>) = 0
  BY <1>1 DEF Walk!NoEntry, Trails
<1>4. WalkTyped
  <2>1. Walk!TypeOK
    BY <1>1, <1>2 DEF Walk!TypeOK
  <2>2. \A p \in Walk!Slots : tree[p] # Root
    BY <1>2, WalkAssumption DEF Walk!Tree
  <2> QED
    BY <1>1, <1>2, <1>3, <2>1, <2>2 DEF WalkTyped
<1>5. WalkPlaced
  BY <1>1, <1>3 DEF WalkPlaced, Walk!AllClosed
<1>6. WalkThere
  <2>1. Walk!Slots = Walk!Dirs \X EntryNames
    BY DEF Walk!Slots
  <2>2. \A d \in Walk!Dirs, n \in EntryNames : <<d, n, tree[<<d, n>>]>> \in was
    <3> TAKE d \in Walk!Dirs, n \in EntryNames
    <3>1. <<d, n>> \in Walk!Slots /\ <<d, n>>[1] = d /\ <<d, n>>[2] = n
      BY <2>1
    <3> QED
      BY <1>1, <3>1
  <2>3. \A d, n, o : <<d, n, o>> \in was =>
          d \in Walk!Dirs /\ n \in EntryNames /\ o = tree[<<d, n>>]
    <3> TAKE d, n, o
    <3> HAVE <<d, n, o>> \in was
    <3>1. PICK p \in Walk!Slots : <<d, n, o>> = <<p[1], p[2], tree[p]>>
      BY <1>1
    <3>2. p = <<d, n>> /\ d \in Walk!Dirs /\ n \in EntryNames /\ o = tree[p]
      BY <2>1, <3>1
    <3> QED
      BY <3>2
  <2> QED
    BY <2>2, <2>3 DEF WalkThere
<1>7. WalkSound
  BY <1>1, <1>3 DEF WalkSound, WalkEntry
<1>8. WalkComplete
  BY <1>1 DEF WalkComplete
<1> QED
  BY <1>4, <1>5, <1>6, <1>7, <1>8 DEF WalkInv

(* What the walk finds on its way, where nobody moves anything.            *)
LEMMA WalkKnown ==
  ASSUME WalkInv
  PROVE  /\ Walk!Slots = Walk!Dirs \X EntryNames
         /\ tree \in [Walk!Slots -> Nodes \cup {None}]
         /\ tool \in {"glob", "grep"} /\ system \in {"posix", "nt"} /\ pattern \in Parted
         /\ stack \in Seq(Frames) /\ Len(stack) \in Nat /\ DOMAIN stack = 1 .. Len(stack)
         /\ found \in SUBSET Trails /\ yielded \in [path : Trails, file : BOOLEAN]
         /\ entries \in 0 .. MaxEntries /\ directories \in 0 .. MaxDirectories
         /\ truncated \in BOOLEAN /\ incomplete \in BOOLEAN /\ open \in Nat
         /\ states \in SUBSET (1 .. (Len(pattern) + 1))
         /\ stack # <<>> => /\ Len(stack) \in DOMAIN stack /\ Walk!Top \in Frames
                            /\ Walk!Top = stack[Len(stack)]
<1>1. /\ tree \in [Walk!Slots -> Nodes \cup {None}]
      /\ tool \in {"glob", "grep"} /\ system \in {"posix", "nt"} /\ pattern \in Parted
      /\ stack \in Seq(Frames) /\ found \in SUBSET Trails
      /\ yielded \in [path : Trails, file : BOOLEAN]
      /\ entries \in 0 .. MaxEntries /\ directories \in 0 .. MaxDirectories
      /\ truncated \in BOOLEAN /\ incomplete \in BOOLEAN /\ open \in Nat
      /\ states \in SUBSET (1 .. (Len(pattern) + 1))
  BY DEF WalkInv, WalkTyped, Walk!TypeOK
<1>2. Walk!Slots = Walk!Dirs \X EntryNames /\ Walk!Top = stack[Len(stack)]
  BY DEF Walk!Slots, Walk!Top
<1>3. Len(stack) \in Nat /\ DOMAIN stack = 1 .. Len(stack)
      /\ (stack # <<>> => Len(stack) \in DOMAIN stack /\ stack[Len(stack)] \in Frames)
  BY <1>1
<1> QED
  BY <1>1, <1>2, <1>3

(* What is said of the tree stays true while nobody changes it.            *)
LEMMA Unmoved ==
  ASSUME WalkInv, UNCHANGED <<Walk!treeVars, Walk!asked>>
  PROVE  /\ tree' = tree /\ moves' = moves /\ touched' = touched /\ was' = was
         /\ system' = system /\ tool' = tool /\ pattern' = pattern /\ Sought' = Sought
         /\ WalkThere'
         /\ \A path, o : Leading(path, o)' <=> Leading(path, o)
         /\ \A path : Walk!UnsafePart(path)' <=> Walk!UnsafePart(path)
         /\ \A path : Allowed(path)' <=> Allowed(path)
         /\ \A path, last : Good(path, last)' <=> Good(path, last)
         /\ \A path, c : Still(path, c)' <=> Still(path, c)
         /\ \A f : FrameRight(f)' <=> FrameRight(f)
         /\ \A path : Walk!Matches(path)' <=> Walk!Matches(path)
<1>1. /\ tree' = tree /\ moves' = moves /\ touched' = touched /\ was' = was
      /\ system' = system /\ tool' = tool /\ pattern' = pattern
  BY DEF Walk!treeVars, Walk!asked
<1>2. Sought' = Sought
  BY <1>1 DEF Sought, Walk!Plain
<1>3. WalkThere'
  BY <1>1 DEF WalkInv, WalkThere
<1>4. \A path, o : Leading(path, o)' <=> Leading(path, o)
  BY <1>1 DEF Leading, Chain
<1>5. \A path : Walk!Matches(path)' <=> Walk!Matches(path)
  BY <1>1 DEF Walk!Matches
<1>9. \A path : Walk!UnsafePart(path)' <=> Walk!UnsafePart(path)
  BY <1>1 DEF Walk!UnsafePart
<1>10. \A path : Allowed(path)' <=> Allowed(path)
  BY <1>1, <1>9 DEF Allowed, Walk!Protected, Walk!Linked, Walk!Leads
<1>6. \A path, last : Good(path, last)' <=> Good(path, last)
  BY <1>4, <1>5, <1>10 DEF Good
<1>7. \A path, c : Still(path, c)' <=> Still(path, c)
  BY <1>1, <1>2, <1>9 DEF Still, Walk!Protected
<1>8. \A f : FrameRight(f)' <=> FrameRight(f)
  BY Zenon, <1>1, <1>4, <1>9 DEF FrameRight
<1> QED
  BY <1>1, <1>2, <1>3, <1>4, <1>5, <1>6, <1>7, <1>8, <1>9, <1>10

(* The state is of its types again when what a step changes is.            *)
LEMMA TypedAgain ==
  ASSUME WalkInv, UNCHANGED <<Walk!treeVars, Walk!asked>>,
         walk' \in {"base", "loop", "stat", "guard", "match", "descend", "yield", "done"},
         stack' \in Seq(Frames), found' \in SUBSET Trails,
         yielded' \in [path : Trails, file : BOOLEAN],
         states' \in SUBSET (1 .. (Len(pattern) + 1)),
         entries' \in 0 .. MaxEntries, directories' \in 0 .. MaxDirectories,
         truncated' \in BOOLEAN, incomplete' \in BOOLEAN, open' \in Nat,
         answer' \in {"none", "ok", "error", "refused"}
  PROVE  WalkTyped'
<1>1. /\ tree' = tree /\ moves' = moves /\ touched' = touched
      /\ system' = system /\ tool' = tool /\ pattern' = pattern
  BY Unmoved
<1> QED
  BY <1>1 DEF WalkInv, WalkTyped, Walk!TypeOK

(* The root is opened.                                                     *)
LEMMA OpenBaseStep == WalkInv /\ Walk!OpenBase => WalkInv'
<1> SUFFICES ASSUME WalkInv, Walk!OpenBase PROVE WalkInv'
  OBVIOUS
<1>0. PICK f : f = Walk!Frame(Root, <<>>, Walk!Closure({1}))
  OBVIOUS
<1>1. /\ walk = "base" /\ walk' = "loop" /\ stack' = <<f>> /\ directories' = 1 /\ open' = 1
      /\ name' = name /\ info' = info /\ states' = states /\ yielded' = yielded
      /\ found' = found /\ entries' = entries /\ truncated' = truncated
      /\ incomplete' = incomplete /\ answer' = answer
      /\ UNCHANGED <<Walk!treeVars, Walk!asked>>
  BY <1>0 DEF Walk!OpenBase, Walk!entryVars
<1>2. /\ f = [dir |-> Root, path |-> <<>>, states |-> Reach(pattern, <<>>),
              left |-> Walk!Listing(Root)]
      /\ Len(<<>>) = 0 /\ <<>> \in Trails
      /\ f.path = <<>> /\ f.dir = Root /\ f.states = Reach(pattern, <<>>)
      /\ f.left = Walk!Listing(Root)
  BY <1>0, ReachEmpty, WalkKnown DEF Walk!Frame, Trails
<1>3. f \in Frames
  <2>1. Reach(pattern, <<>>) \in SUBSET Nat
    BY WalkKnown DEF Reach, Parted
  <2>2. Walk!Listing(Root) \in SUBSET EntryNames /\ Root \in Walk!Dirs
    BY DEF Walk!Listing, Walk!Dirs
  <2>3. f = [dir |-> f.dir, path |-> f.path, states |-> f.states, left |-> f.left]
    BY <1>2
  <2> QED
    BY <1>2, <2>1, <2>2, <2>3 DEF Frames
<1>4. stack' \in Seq(Frames) /\ DOMAIN stack' = {1} /\ stack'[1] = f /\ Len(stack') = 1
  BY <1>1, <1>3
<1>5. yielded = Walk!NoEntry /\ ~yielded.file /\ answer = "none"
  BY <1>1 DEF WalkInv, WalkPlaced, Walk!NoEntry
<1>6. WalkTyped'
  <2>1. 1 \in 0 .. MaxDirectories
    BY WalkAssumption
  <2> QED
    BY <1>1, <1>4, <1>5, <2>1, TypedAgain, WalkKnown
<1>7. WalkPlaced'
  BY <1>1, <1>4, <1>5 DEF WalkInv, WalkPlaced, Walk!AllClosed, Walk!NoEntry
<1>8. WalkSound'
  <2>1. FrameRight(f)
    <3> DEFINE c == [k \in 0 .. 0 |-> Root]
    <3>1. Chain(<<>>, Root, c)
      BY <1>2, WalkAssumption DEF Chain
    <3> HIDE DEF c
    <3>2. ~Walk!UnsafePart(<<>>)
      BY <1>2 DEF Walk!UnsafePart
    <3> QED
      BY <1>2, <3>1, <3>2 DEF FrameRight, Leading
  <2>2. FrameRight(f)'
    BY <1>1, <2>1, Unmoved
  <2> QED
    BY <1>1, <1>4, <1>5, <2>2, Unmoved DEF WalkInv, WalkSound, WalkEntry, Walk!NoEntry
<1>9. WalkComplete'
  <2> SUFFICES ASSUME NEW path \in Trails, NEW c, path # <<>>, Still(path, c)'
               PROVE  Covered(path, c)'
    BY DEF WalkComplete
  <2>1. Still(path, c)
    BY <1>1, Unmoved
  <2>2. Len(path) \in Nat \ {0} /\ path[1] \in EntryNames
    BY DEF Trails
  <2>3. /\ c[0] = Root /\ tree[<<Root, path[1]>>] = c[1] /\ c[1] \in Nodes
    BY <2>1, <2>2 DEF Still
  <2>4. path[1] \in f.left
    BY <1>2, <2>2, <2>3, WalkAssumption DEF Walk!Listing, Walk!Under
  <2>5. Ahead(1, path, c)'
    BY <1>2, <1>4, <2>2, <2>3, <2>4 DEF Ahead, Begins
  <2> QED
    BY <1>4, <2>5 DEF Covered
<1> QED
  BY <1>1, <1>6, <1>7, <1>8, <1>9, Unmoved DEF WalkInv

(* The root is refused.                                                    *)
LEMMA BaseRefusedStep == WalkInv /\ Walk!BaseRefused => WalkInv'
<1> SUFFICES ASSUME WalkInv, Walk!BaseRefused PROVE WalkInv'
  OBVIOUS
<1>1. /\ walk = "base" /\ walk' = "done" /\ stack' = stack /\ answer' = "refused"
      /\ name' = name /\ info' = info /\ states' = states /\ yielded' = yielded
      /\ found' = found /\ entries' = entries /\ directories' = directories
      /\ truncated' = truncated /\ incomplete' = incomplete /\ open' \in {0, 1}
      /\ UNCHANGED <<Walk!treeVars, Walk!asked>>
  BY DEF Walk!BaseRefused, Walk!entryVars, Walk!countVars
<1>2. yielded = Walk!NoEntry /\ ~yielded.file /\ stack = <<>>
  BY <1>1 DEF WalkInv, WalkPlaced, Walk!NoEntry
<1>3. WalkTyped'
  BY <1>1, TypedAgain, WalkKnown
<1>4. WalkPlaced'
  BY <1>1, <1>2 DEF WalkPlaced, Walk!AllClosed
<1>5. WalkSound'
  BY <1>1, <1>2, Unmoved DEF WalkInv, WalkSound, WalkEntry
<1>6. WalkComplete'
  BY <1>1 DEF WalkComplete
<1> QED
  BY <1>1, <1>3, <1>4, <1>5, <1>6, Unmoved DEF WalkInv

(* The walk ends: with an error, with less than everything, which it says, *)
(* or when nothing is left on the stack.                                   *)
LEMMA CloseStep ==
  ASSUME WalkInv, walk \notin {"base", "done"},
         NEW r \in {"ok", "error"}, Walk!CloseAll(r),
         UNCHANGED <<Walk!treeVars, Walk!asked, name, info, states, found, entries, directories>>,
         truncated' \in BOOLEAN, incomplete' \in BOOLEAN,
         r = "ok" /\ ~truncated' /\ ~incomplete'
           => walk = "loop" /\ stack = <<>> /\ ~truncated /\ ~incomplete
  PROVE  WalkInv'
<1>1. /\ open' = open - Len(stack) - (IF yielded.file THEN 1 ELSE 0)
      /\ stack' = <<>> /\ yielded' = Walk!NoEntry /\ answer' = r /\ walk' = "done"
      /\ UNCHANGED <<Walk!treeVars, Walk!asked>>
      /\ states' = states /\ found' = found /\ entries' = entries
      /\ directories' = directories
  BY DEF Walk!CloseAll
<1>2. open' = 0
  BY <1>1, WalkKnown DEF WalkInv, WalkPlaced
<1>3. yielded' = [path |-> <<>>, file |-> FALSE] /\ <<>> \in Trails
  BY <1>1 DEF Walk!NoEntry, Trails
<1>4. WalkTyped'
  <2>1. /\ stack' \in Seq(Frames) /\ yielded' \in [path : Trails, file : BOOLEAN]
        /\ open' \in Nat /\ answer' \in {"none", "ok", "error", "refused"}
    BY <1>1, <1>2, <1>3
  <2>2. /\ found' \in SUBSET Trails /\ states' \in SUBSET (1 .. (Len(pattern) + 1))
        /\ entries' \in 0 .. MaxEntries /\ directories' \in 0 .. MaxDirectories
    BY <1>1, WalkKnown
  <2> QED
    BY <1>1, <2>1, <2>2, TypedAgain
<1>5. WalkPlaced'
  BY <1>1, <1>2 DEF WalkPlaced, Walk!AllClosed
<1>6. WalkSound'
  BY <1>1, <1>3, Unmoved DEF WalkInv, WalkSound, WalkEntry
<1>7. WalkComplete'
  <2> SUFFICES ASSUME answer' \in {"none", "ok"}, ~truncated', ~incomplete',
                      NEW path \in Trails, NEW c, path # <<>>,
                      Walk!Matches(path)', Still(path, c)'
               PROVE  Covered(path, c)'
    BY DEF WalkComplete
  <2>1. walk = "loop" /\ stack = <<>> /\ ~truncated /\ ~incomplete
    BY <1>1
  <2>2. Walk!Matches(path) /\ Still(path, c)
    BY <1>1, Unmoved
  <2>3. answer = "none"
    BY <2>1 DEF WalkInv, WalkPlaced
  <2>4. Covered(path, c)
    BY <2>1, <2>2, <2>3 DEF WalkInv, WalkComplete
  <2>5. path \in found
    BY <2>1, <2>4 DEF Covered
  <2> QED
    BY <2>5 DEF Covered
<1> QED
  BY <1>1, <1>4, <1>5, <1>6, <1>7, Unmoved DEF WalkInv

(* What is above the end of the stack keeps its place.                     *)
LEMMA Below ==
  ASSUME WalkInv, stack # <<>>,
         NEW f \in Frames, stack' = [stack EXCEPT ![Len(stack)] = f]
  PROVE  /\ stack' \in Seq(Frames) /\ Len(stack') = Len(stack) /\ DOMAIN stack' = DOMAIN stack
         /\ stack' # <<>> /\ stack'[Len(stack)] = f
         /\ \A i \in DOMAIN stack : i # Len(stack) => stack'[i] = stack[i]
  BY WalkKnown

(* The next name of the innermost directory, or its end.                   *)
LEMMA NextEntryStep == WalkInv /\ Walk!NextEntry => WalkInv'
<1> SUFFICES ASSUME WalkInv, Walk!NextEntry PROVE WalkInv'
  OBVIOUS
<1> DEFINE n == Len(stack)
<1>1. /\ walk = "loop" /\ stack # <<>> /\ entries < MaxEntries
      /\ info' = info /\ states' = states /\ yielded' = yielded /\ found' = found
      /\ directories' = directories /\ truncated' = truncated /\ incomplete' = incomplete
      /\ answer' = answer /\ UNCHANGED <<Walk!treeVars, Walk!asked>>
  BY DEF Walk!NextEntry
<1>2. /\ n \in Nat \ {0} /\ n \in DOMAIN stack /\ Walk!Top = stack[n] /\ stack[n] \in Frames
      /\ DOMAIN stack = 1 .. n
  BY <1>1, WalkKnown
<1>3. yielded = Walk!NoEntry /\ ~yielded.file /\ answer = "none" /\ open = n
  BY <1>1, WalkKnown DEF WalkInv, WalkPlaced, Walk!NoEntry
<1>4. CASE stack[n].left = {}
  <2>1. stack' = SubSeq(stack, 1, n - 1) /\ open' = open - 1
        /\ name' = name /\ entries' = entries /\ walk' = walk
    BY <1>2, <1>4 DEF Walk!NextEntry
  <2>2. /\ stack' \in Seq(Frames) /\ Len(stack') = n - 1 /\ DOMAIN stack' = 1 .. (n - 1)
        /\ \A i \in 1 .. (n - 1) : stack'[i] = stack[i]
    BY <1>2, <2>1, WalkKnown
  <2>3. WalkTyped'
    BY <1>1, <1>2, <1>3, <2>1, <2>2, TypedAgain, WalkKnown
  <2>4. WalkPlaced'
    BY <1>1, <1>2, <1>3, <2>1, <2>2 DEF WalkPlaced, Walk!AllClosed, Walk!NoEntry
  <2>5. WalkSound'
    BY <1>1, <1>2, <1>3, <2>1, <2>2, Unmoved DEF WalkInv, WalkSound, WalkEntry, Walk!NoEntry
  <2>6. WalkComplete'
    <3> SUFFICES ASSUME ~truncated', ~incomplete',
                        NEW path \in Trails, NEW c, path # <<>>,
                        Walk!Matches(path)', Still(path, c)'
                 PROVE  Covered(path, c)'
      BY DEF WalkComplete
    <3>1. Covered(path, c)
      BY <1>1, <1>3, Unmoved DEF WalkInv, WalkComplete
    <3>2. CASE \E i \in DOMAIN stack : Ahead(i, path, c)
      <4>1. PICK i \in DOMAIN stack : Ahead(i, path, c)
        BY <3>2
      <4>2. i # n
        BY <1>1, <1>4, <4>1 DEF Ahead
      <4>3. i \in 1 .. (n - 1) /\ path[Len(stack[i].path) + 1] \in stack[i].left
        BY <1>1, <1>2, <4>1, <4>2 DEF Ahead
      <4>4. Ahead(i, path, c)'
        BY <2>2, <4>1, <4>3 DEF Ahead
      <4> QED
        BY <2>2, <4>3, <4>4 DEF Covered
    <3> QED
      BY <1>1, <3>1, <3>2 DEF Covered
  <2> QED
    BY <1>1, <2>3, <2>4, <2>5, <2>6, Unmoved DEF WalkInv
<1>5. CASE stack[n].left # {}
  <2>1. /\ name' \in stack[n].left
        /\ stack' = [stack EXCEPT ![n].left = @ \ {name'}]
        /\ entries' = entries + 1 /\ walk' = "stat" /\ open' = open
    BY <1>2, <1>5 DEF Walk!NextEntry
  <2>2. PICK f : f = [stack[n] EXCEPT !.left = @ \ {name'}]
    OBVIOUS
  <2>3. /\ f \in Frames /\ f.dir = stack[n].dir /\ f.path = stack[n].path
        /\ f.states = stack[n].states /\ f.left = stack[n].left \ {name'}
        /\ name' \in EntryNames
    BY <1>2, <2>1, <2>2 DEF Frames
  <2>4. stack' = [stack EXCEPT ![n] = f]
    BY <2>1, <2>2
  <2>5. /\ stack' \in Seq(Frames) /\ Len(stack') = n /\ DOMAIN stack' = DOMAIN stack
        /\ stack' # <<>> /\ stack'[n] = f
        /\ \A i \in DOMAIN stack : i # n => stack'[i] = stack[i]
    BY <1>1, <2>3, <2>4, Below
  <2>6. WalkTyped'
    <3>1. entries' \in 0 .. MaxEntries
      BY <1>1, <2>1, WalkKnown, WalkAssumption
    <3>2. /\ found' \in SUBSET Trails /\ states' \in SUBSET (1 .. (Len(pattern) + 1))
          /\ yielded' \in [path : Trails, file : BOOLEAN] /\ open' \in Nat
          /\ directories' \in 0 .. MaxDirectories /\ truncated' \in BOOLEAN
          /\ incomplete' \in BOOLEAN /\ answer' = "none"
      BY <1>1, <1>3, <2>1, WalkKnown
    <3> QED
      BY <1>1, <2>1, <2>5, <3>1, <3>2, TypedAgain
  <2>7. WalkPlaced'
    BY <1>1, <1>2, <1>3, <2>1, <2>3, <2>5 DEF WalkPlaced, Walk!AllClosed, Walk!NoEntry
  <2>8. WalkSound'
    <3>1. \A i \in DOMAIN stack : FrameRight(stack[i])
      BY DEF WalkInv, WalkSound
    <3>2. FrameRight(f)
      BY <1>2, <2>3, <3>1 DEF FrameRight
    <3>3. \A i \in DOMAIN stack' : FrameRight(stack'[i])
      BY <2>5, <3>1, <3>2
    <3>4. (\A i \in DOMAIN stack : FrameRight(stack[i]))'
      <4> SUFFICES ASSUME NEW i \in DOMAIN stack' PROVE FrameRight(stack[i])'
        OBVIOUS
      <4>1. PICK g : g = stack'[i]
        OBVIOUS
      <4>2. FrameRight(g)
        BY <3>3, <4>1
      <4>3. FrameRight(g)'
        BY <1>1, <4>2, Unmoved
      <4> QED
        BY <4>1, <4>3
    <3> QED
      BY <1>1, <1>3, <2>1, <3>4, Unmoved DEF WalkInv, WalkSound, WalkEntry, Walk!NoEntry
  <2>9. WalkComplete'
    <3> SUFFICES ASSUME ~truncated', ~incomplete',
                        NEW path \in Trails, NEW c, path # <<>>,
                        Walk!Matches(path)', Still(path, c)'
                 PROVE  Covered(path, c)'
      BY DEF WalkComplete
    <3>1. Covered(path, c)
      BY <1>1, <1>3, Unmoved DEF WalkInv, WalkComplete
    <3>2. CASE \E i \in DOMAIN stack : Ahead(i, path, c)
      <4>1. PICK i \in DOMAIN stack : Ahead(i, path, c)
        BY <3>2
      <4>2. path[Len(stack[i].path) + 1] \in stack[i].left
        BY <1>1, <4>1 DEF Ahead
      <4>3. Ahead(i, path, c)'
        <5>1. CASE i = n
          BY <1>1, <2>1, <2>3, <2>5, <4>1, <4>2, <5>1 DEF Ahead
        <5>2. CASE i # n
          BY <2>5, <4>1, <4>2, <5>2 DEF Ahead
        <5> QED
          BY <5>1, <5>2
      <4> QED
        BY <2>5, <4>3 DEF Covered
    <3> QED
      BY <1>1, <3>1, <3>2 DEF Covered
  <2> QED
    BY <1>1, <2>6, <2>7, <2>8, <2>9, Unmoved DEF WalkInv
<1> QED
  BY <1>4, <1>5

(* Where the stack stays, so does what is on it.                           *)
LEMMA StackStays ==
  ASSUME WalkInv, UNCHANGED <<Walk!treeVars, Walk!asked>>, stack' = stack, found' = found
  PROVE  /\ (\A i \in DOMAIN stack : FrameRight(stack[i]))'
         /\ (\A path \in found : Good(path, Sought))'
<1>1. \A i \in DOMAIN stack : FrameRight(stack[i])
  BY DEF WalkInv, WalkSound
<1>2. \A path \in found : Good(path, Sought)
  BY DEF WalkInv, WalkSound
<1>3. (\A i \in DOMAIN stack : FrameRight(stack[i]))'
  BY <1>1, Unmoved
<1>4. (\A path \in found : Good(path, Sought))'
  <2> SUFFICES ASSUME NEW path \in found PROVE Good(path, Sought)'
    OBVIOUS
  <2>1. Good(path, Sought)
    BY <1>2
  <2>2. Good(path, Sought)' <=> Good(path, Sought)
    BY Unmoved DEF Good
  <2> QED
    BY <2>1, <2>2
<1> QED
  BY <1>3, <1>4

(* A name that is being looked at is one after the path of the innermost   *)
(* frame, from a real directory.                                           *)
LEMMA AtName ==
  ASSUME WalkInv, stack # <<>>, name \in EntryNames,
         NEW path \in Trails, NEW c, Still(path, c), Walk!Matches(path),
         Begins(Walk!Top.path, path), Walk!Top.dir = c[Len(Walk!Top.path)],
         name = path[Len(Walk!Top.path) + 1]
  PROVE  LET m == Len(Walk!Top.path)
             s == Reach(pattern, Append(Walk!Top.path, name))
         IN /\ m \in Nat /\ m + 1 \in 1 .. Len(path)
            /\ Walk!Under(Walk!Top.dir, name) = c[m + 1]
            /\ c[m + 1] \in (IF m + 1 = Len(path) THEN Sought ELSE Subdirs)
            /\ m + 1 = Len(path) => Append(Walk!Top.path, name) = path /\ Walk!IsMatch(s)
            /\ m + 1 < Len(path) => Begins(Append(Walk!Top.path, name), path) /\ Walk!CanDescend(s)
<1> DEFINE q == Walk!Top.path
<1> DEFINE m == Len(q)
<1> DEFINE r == Append(q, name)
<1>1. q \in Trails /\ m \in Nat /\ Len(path) \in Nat /\ m < Len(path)
      /\ \A k \in 1 .. m : q[k] = path[k]
  BY WalkKnown DEF Frames, Trails, Begins
<1>2. r \in Trails /\ Len(r) = m + 1 /\ \A k \in 1 .. (m + 1) : r[k] = path[k]
  BY <1>1 DEF Trails
<1> HIDE DEF q, m, r
<1>3. m + 1 \in 1 .. Len(path)
  BY <1>1
<1>4. Walk!Under(Walk!Top.dir, name) = c[m + 1]
  BY <1>1, <1>3 DEF Still, Walk!Under, q, m
<1>5. c[m + 1] \in (IF m + 1 = Len(path) THEN Sought ELSE Subdirs)
  BY <1>1, <1>3 DEF Still
<1>6. m + 1 = Len(path) => r = path /\ Walk!IsMatch(Reach(pattern, r))
  <2> SUFFICES ASSUME m + 1 = Len(path) PROVE r = path /\ Walk!IsMatch(Reach(pattern, r))
    OBVIOUS
  <2>1. r = path
    BY <1>2, SeqEqual DEF Trails
  <2> QED
    BY <2>1, ReachMatches, WalkKnown
<1>7. m + 1 < Len(path) => Begins(r, path) /\ Walk!CanDescend(Reach(pattern, r))
  <2> SUFFICES ASSUME m + 1 < Len(path) PROVE Begins(r, path) /\ Walk!CanDescend(Reach(pattern, r))
    OBVIOUS
  <2>1. Begins(r, path)
    BY <1>2 DEF Begins
  <2> QED
    BY <1>2, <2>1, ReachDescends, WalkKnown
<1> QED
  BY <1>1, <1>3, <1>4, <1>5, <1>6, <1>7 DEF q, m, r

(* A safe name after a path without unsafe names.                          *)
LEMMA SafeAppend ==
  ASSUME NEW q \in Trails, NEW n \in EntryNames, ~Walk!UnsafePart(q),
         system = "nt" => n \notin Unsafe
  PROVE  ~Walk!UnsafePart(Append(q, n))
<1>1. Len(q) \in Nat /\ Len(Append(q, n)) = Len(q) + 1 /\ Append(q, n)[Len(q) + 1] = n
      /\ \A k \in 1 .. Len(q) : Append(q, n)[k] = q[k]
  BY DEF Trails
<1> QED
  BY <1>1 DEF Walk!UnsafePart

\* What is where at this moment.
Standing == {<<p[1], p[2], tree[p]>> : p \in Walk!Slots}

(* No link stands on the beginning of a path that nobody has touched.      *)
LEMMA NoLinkOn ==
  ASSUME WalkInv, NEW path \in Trails, NEW c, Still(path, c),
         NEW q \in Trails, Len(q) <= Len(path), \A k \in 1 .. Len(q) : q[k] = path[k]
  PROVE  ~Walk!Linked(Standing, q) /\ ~Walk!Protected(q)
<1>0. Len(q) \in Nat /\ Len(path) \in Nat
  BY DEF Trails
<1>1. ~Walk!Protected(q)
  BY <1>0 DEF Still, Walk!Protected
<1>2. ASSUME NEW k \in 1 .. Len(q), Walk!Leads(Standing, SubSeq(q, 1, k), Links)
      PROVE  FALSE
  <2> DEFINE r == SubSeq(q, 1, k)
  <2>1. Len(r) = k /\ k \in Nat \ {0} /\ k <= Len(path) /\ \A i \in 1 .. k : r[i] = path[i]
    <3>1. q \in Seq(EntryNames) /\ k \in Nat \ {0} /\ k <= Len(q)
      BY <1>0 DEF Trails
    <3>2. Len(r) = k /\ \A i \in 1 .. k : r[i] = q[i]
      BY <1>0, <3>1
    <3> QED
      BY <1>0, <3>1, <3>2
  <2>2. PICK b \in [0 .. Len(r) -> Nodes] :
          /\ b[0] = Root /\ b[Len(r)] \in Links
          /\ \A i \in 1 .. Len(r) : <<b[i - 1], r[i], b[i]>> \in Standing
    BY <1>2 DEF Walk!Leads
  <2> HIDE DEF r
  <2>3. /\ c[0] = Root /\ c[k] \notin Links
        /\ \A i \in 1 .. k : tree[<<c[i - 1], path[i]>>] = c[i]
    <3>1. c[k] \in Sought \cup Subdirs
      BY <1>0, <2>1 DEF Still
    <3> QED
      BY <1>0, <2>1, <3>1, WalkAssumption DEF Still, Sought, Walk!Plain, Walk!Dirs
  <2> DEFINE B == {i \in 0 .. k : b[i] # c[i]}
  <2>4. k \in B /\ B \subseteq Nat
    BY <2>1, <2>2, <2>3
  <2>5. PICK i \in B : \A l \in B : i <= l
    BY <2>4, Least
  <2>6. i \in 1 .. k /\ b[i] # c[i] /\ b[i - 1] = c[i - 1]
    <3>1. i # 0
      BY <2>2, <2>3, <2>5
    <3>2. i - 1 \in 0 .. k /\ i - 1 \notin B
      BY <2>1, <2>5, <3>1
    <3> QED
      BY <2>1, <2>5, <3>1, <3>2
  <2>7. <<c[i - 1], path[i], b[i]>> \in Standing
    BY <2>1, <2>2, <2>6
  <2>8. b[i] = tree[<<c[i - 1], path[i]>>]
    <3>1. PICK p \in Walk!Slots : <<c[i - 1], path[i], b[i]>> = <<p[1], p[2], tree[p]>>
      BY <2>7 DEF Standing
    <3>2. p = <<c[i - 1], path[i]>>
      BY <3>1, WalkKnown
    <3> QED
      BY <3>1, <3>2
  <2> QED
    BY <2>3, <2>6, <2>8
<1> QED
  BY <1>1, <1>2 DEF Walk!Linked

(* What is under the name is inspected, and passed over if it is not real  *)
(* or matches nothing.                                                     *)
LEMMA InspectStep == WalkInv /\ Walk!Inspect => WalkInv'
<1> SUFFICES ASSUME WalkInv, Walk!Inspect PROVE WalkInv'
  OBVIOUS
<1>0. PICK o, s : o = Walk!Under(Walk!Top.dir, name) /\ s = Walk!Advance(Walk!Top.states, name)
  OBVIOUS
<1>1. /\ walk = "stat" /\ stack' = stack /\ name' = name /\ yielded' = yielded
      /\ found' = found /\ entries' = entries /\ directories' = directories
      /\ truncated' = truncated /\ incomplete' = incomplete
      /\ open' = open /\ answer' = answer /\ UNCHANGED <<Walk!treeVars, Walk!asked>>
      /\ IF (system = "nt" => name \notin Unsafe) /\ Walk!Real(o) /\ s # {}
         THEN walk' = "guard" /\ info' = o /\ states' = s
         ELSE walk' = "loop" /\ info' = info /\ states' = states
  BY <1>0 DEF Walk!Inspect, Walk!countVars
<1>2. /\ stack # <<>> /\ name \in EntryNames /\ yielded = Walk!NoEntry /\ ~yielded.file
      /\ answer = "none" /\ open = Len(stack)
  BY <1>1, WalkKnown DEF WalkInv, WalkPlaced, Walk!NoEntry
<1>3. /\ Walk!Top \in Frames /\ Walk!Top = stack[Len(stack)] /\ Len(stack) \in DOMAIN stack
      /\ Walk!Top.dir \in Walk!Dirs /\ Walk!Top.path \in Trails
  BY <1>2, WalkKnown DEF Frames
<1>4. s = Reach(pattern, Append(Walk!Top.path, name))
  <2>1. Walk!Top.states = Reach(pattern, Walk!Top.path)
    BY <1>3 DEF WalkInv, WalkSound, FrameRight
  <2> QED
    BY <1>0, <1>2, <1>3, <2>1, ReachAdvance, WalkKnown
<1>5. <<Walk!Top.dir, name, o>> \in was /\ o \in (Nodes \cup {None}) \ {Root}
  <2>1. <<Walk!Top.dir, name>> \in Walk!Slots
    BY <1>2, <1>3, WalkKnown
  <2>2. o = tree[<<Walk!Top.dir, name>>]
    BY <1>0 DEF Walk!Under
  <2> QED
    BY <1>2, <1>3, <2>1, <2>2, WalkKnown DEF WalkInv, WalkTyped, WalkThere
<1>6. Walk!Top' = Walk!Top
  BY <1>1 DEF Walk!Top
<1>7. WalkTyped'
  <2>1. s \in SUBSET (1 .. (Len(pattern) + 1))
    BY <1>4 DEF Reach
  <2>2. walk' \in {"guard", "loop"} /\ states' \in SUBSET (1 .. (Len(pattern) + 1))
    BY <1>1, <2>1, WalkKnown
  <2> QED
    BY <1>1, <1>2, <2>2, TypedAgain, WalkKnown
<1>8. WalkPlaced'
  BY <1>1, <1>2 DEF WalkPlaced, Walk!AllClosed
<1>9. WalkSound'
  <2>1. WalkEntry'
    <3>1. CASE walk' = "loop"
      BY <3>1 DEF WalkEntry
    <3>2. CASE walk' = "guard"
      <4>1. info' = o /\ states' = s /\ Walk!Real(o) /\ (system = "nt" => name \notin Unsafe)
        BY <1>1, <3>2
      <4>5. ~Walk!UnsafePart(Append(Walk!Top.path, name))
        <5>1. ~Walk!UnsafePart(Walk!Top.path)
          BY <1>3 DEF WalkInv, WalkSound, FrameRight
        <5> QED
          BY <1>2, <1>3, <4>1, <5>1, SafeAppend
      <4>6. Walk!UnsafePart(Append(Walk!Top.path, name))' <=> Walk!UnsafePart(Append(Walk!Top.path, name))
        BY <1>1, <1>6, Unmoved DEF Walk!UnsafePart
      <4>2. o \in Nodes \ (Links \cup {Root})
        BY <1>5, <4>1 DEF Walk!Real
      <4>3. was' = was /\ pattern' = pattern
        BY <1>1, Unmoved
      <4>4. Reach(pattern, Append(Walk!Top.path, name))' = Reach(pattern, Append(Walk!Top.path, name))
        BY Zenon, <1>1, <1>6, <4>3
      <4> QED
        BY <1>1, <1>4, <1>5, <1>6, <3>2, <4>1, <4>2, <4>3, <4>4, <4>5, <4>6 DEF WalkEntry
    <3> QED
      BY <1>1, <3>1, <3>2
  <2> QED
    BY <1>1, <1>2, <2>1, StackStays DEF WalkSound, Walk!NoEntry
<1>10. WalkComplete'
  <2> SUFFICES ASSUME ~truncated', ~incomplete',
                      NEW path \in Trails, NEW c, path # <<>>,
                      Walk!Matches(path)', Still(path, c)'
               PROVE  Covered(path, c)'
    BY DEF WalkComplete
  <2>1. Covered(path, c) /\ Walk!Matches(path) /\ Still(path, c)
    BY <1>1, <1>2, Unmoved DEF WalkInv, WalkComplete
  <2>2. CASE path \in found
    BY <1>1, <2>2 DEF Covered
  <2>3. CASE path \notin found
    <3>1. PICK i \in DOMAIN stack : Ahead(i, path, c)
      BY <1>1, <2>1, <2>3 DEF Covered
    <3>2. CASE path[Len(stack[i].path) + 1] \in stack[i].left
      <4>1. Ahead(i, path, c)'
        BY <1>1, <3>1, <3>2 DEF Ahead
      <4> QED
        BY <1>1, <4>1 DEF Covered
    <3>3. CASE path[Len(stack[i].path) + 1] \notin stack[i].left
      <4>1. /\ i = Len(stack) /\ stack[i] = Walk!Top /\ name = path[Len(stack[i].path) + 1]
            /\ Begins(stack[i].path, path) /\ stack[i].dir = c[Len(stack[i].path)]
        BY <1>1, <1>3, <3>1, <3>3 DEF Ahead
      <4> DEFINE m == Len(Walk!Top.path)
      <4>2. /\ m \in Nat /\ m + 1 \in 1 .. Len(path) /\ o = c[m + 1]
            /\ c[m + 1] \in (IF m + 1 = Len(path) THEN Sought ELSE Subdirs)
            /\ m + 1 = Len(path) => Walk!IsMatch(s)
            /\ m + 1 < Len(path) => Walk!CanDescend(s)
        BY <1>0, <1>2, <1>4, <2>1, <4>1, AtName
      <4>3. Walk!Real(o)
        BY <4>2, WalkAssumption DEF Walk!Real, Sought, Walk!Plain, Walk!Dirs
      <4>4. s # {}
        <5>1. Len(path) \in Nat
          BY DEF Trails
        <5> HIDE DEF m
        <5>2. Walk!IsMatch(s) \/ Walk!CanDescend(s)
          BY <4>2, <5>1
        <5> QED
          BY <5>2 DEF Walk!IsMatch, Walk!CanDescend
      <4>7. system = "nt" => name \notin Unsafe
        BY <2>1, <4>1, <4>2 DEF Still, Walk!UnsafePart
      <4>5. walk' = "guard" /\ info' = c[m + 1]
        BY <1>1, <4>2, <4>3, <4>4, <4>7
      <4>6. Ahead(i, path, c)'
        BY <1>1, <4>1, <4>5 DEF Ahead
      <4> QED
        BY <1>1, <4>6 DEF Covered
    <3> QED
      BY <3>2, <3>3
  <2> QED
    BY <2>2, <2>3
<1> QED
  BY <1>1, <1>7, <1>8, <1>9, <1>10, Unmoved DEF WalkInv

(* An entry is passed over if its path is protected, or a link stands on   *)
(* it that may lead to a protected place.                                  *)
LEMMA GuardStep == WalkInv /\ Walk!Guard => WalkInv'
<1> SUFFICES ASSUME WalkInv, Walk!Guard PROVE WalkInv'
  OBVIOUS
<1> DEFINE r == Append(Walk!Top.path, name)
<1>5. Walk!Verdicts(r) = IF Walk!Linked(Standing, r) THEN BOOLEAN ELSE {Walk!Protected(r)}
  BY DEF Walk!Verdicts, Standing
<1>10. PICK protected \in Walk!Verdicts(r) : walk' = IF protected THEN "loop" ELSE "match"
  BY DEF Walk!Guard
<1>11. protected \in BOOLEAN
  BY <1>5, <1>10 DEF Walk!Protected
<1>12. /\ walk' \in {"loop", "match"}
       /\ walk' = "match" => FALSE \in Walk!Verdicts(r)
       /\ walk' = "loop" => TRUE \in Walk!Verdicts(r)
  <2>1. CASE protected = TRUE
    BY <1>10, <2>1
  <2>2. CASE protected = FALSE
    BY <1>10, <2>2
  <2> QED
    BY <1>11, <2>1, <2>2
<1> HIDE DEF r
<1>1. /\ walk = "guard" /\ stack' = stack /\ name' = name /\ info' = info
      /\ states' = states /\ yielded' = yielded
      /\ found' = found /\ entries' = entries /\ directories' = directories
      /\ truncated' = truncated /\ incomplete' = incomplete
      /\ open' = open /\ answer' = answer /\ UNCHANGED <<Walk!treeVars, Walk!asked>>
      /\ walk' \in {"loop", "match"}
      /\ walk' = "match" => FALSE \in Walk!Verdicts(r)
      /\ walk' = "loop" => TRUE \in Walk!Verdicts(r)
  BY <1>12 DEF Walk!Guard, Walk!entryVars, Walk!countVars
<1>2. /\ stack # <<>> /\ name \in EntryNames /\ yielded = Walk!NoEntry /\ ~yielded.file
      /\ answer = "none" /\ open = Len(stack)
  BY <1>1, WalkKnown DEF WalkInv, WalkPlaced, Walk!NoEntry
<1>3. /\ Walk!Top \in Frames /\ Walk!Top = stack[Len(stack)] /\ Len(stack) \in DOMAIN stack
      /\ Walk!Top.path \in Trails
  BY <1>2, WalkKnown DEF Frames
<1>4. r \in Trails /\ Len(r) = Len(Walk!Top.path) + 1 /\ Len(Walk!Top.path) \in Nat
      /\ r[Len(Walk!Top.path) + 1] = name
      /\ \A k \in 1 .. Len(Walk!Top.path) : r[k] = Walk!Top.path[k]
  BY <1>2, <1>3 DEF Trails, r
<1>6. WalkTyped'
  BY <1>1, <1>2, TypedAgain, WalkKnown
<1>7. WalkPlaced'
  BY <1>1, <1>2 DEF WalkPlaced, Walk!AllClosed
<1>8. WalkSound'
  <2>1. WalkEntry'
    <3>1. CASE walk' = "loop"
      BY <3>1 DEF WalkEntry
    <3>2. CASE walk' = "match"
      <4>1. Standing \subseteq was
        BY WalkKnown DEF Standing, WalkInv, WalkThere
      <4>2. Walk!Linked(Standing, r) => Walk!Linked(was, r)
        BY <4>1 DEF Walk!Linked, Walk!Leads
      <4>3. Allowed(r)
        <5>1. ~Walk!UnsafePart(r)
          BY <1>1 DEF WalkInv, WalkSound, WalkEntry, r
        <5>2. Walk!Protected(r) \in BOOLEAN
          BY DEF Walk!Protected
        <5> QED
          BY <1>1, <1>5, <3>2, <4>2, <5>1, <5>2 DEF Allowed
      <4>4. /\ Walk!Top' = Walk!Top /\ was' = was /\ pattern' = pattern
            /\ \A path : Allowed(path)' <=> Allowed(path)
            /\ \A path : Walk!UnsafePart(path)' <=> Walk!UnsafePart(path)
        BY <1>1, Unmoved DEF Walk!Top
      <4>5. r' = r
        BY <1>1, <4>4 DEF r
      <4>6. Reach(pattern, r)' = Reach(pattern, r)
        BY Zenon, <4>4, <4>5
      <4>7. PICK q : q = r
        OBVIOUS
      <4>8. Allowed(q)' /\ ~Walk!UnsafePart(q)'
        BY <4>3, <4>4, <4>7 DEF Allowed
      <4>9. Allowed(r)' /\ ~Walk!UnsafePart(r)'
        BY Zenon, <4>5, <4>7, <4>8
      <4> QED
        BY <1>1, <4>4, <4>5, <4>6, <4>9 DEF WalkInv, WalkSound, WalkEntry, r
    <3> QED
      BY <1>1, <3>1, <3>2
  <2> QED
    BY <1>1, <1>2, <2>1, StackStays DEF WalkSound, Walk!NoEntry
<1>9. WalkComplete'
  <2> SUFFICES ASSUME ~truncated', ~incomplete',
                      NEW path \in Trails, NEW c, path # <<>>,
                      Walk!Matches(path)', Still(path, c)'
               PROVE  Covered(path, c)'
    BY DEF WalkComplete
  <2>1. Covered(path, c) /\ Still(path, c)
    BY <1>1, <1>2, Unmoved DEF WalkInv, WalkComplete
  <2>2. CASE path \in found
    BY <1>1, <2>2 DEF Covered
  <2>3. CASE path \notin found
    <3>1. PICK i \in DOMAIN stack : Ahead(i, path, c)
      BY <1>1, <2>1, <2>3 DEF Covered
    <3>2. CASE path[Len(stack[i].path) + 1] \in stack[i].left
      <4>1. Ahead(i, path, c)'
        BY <1>1, <3>1, <3>2 DEF Ahead
      <4> QED
        BY <1>1, <4>1 DEF Covered
    <3>3. CASE path[Len(stack[i].path) + 1] \notin stack[i].left
      <4>1. /\ i = Len(stack) /\ stack[i] = Walk!Top /\ name = path[Len(Walk!Top.path) + 1]
            /\ Begins(Walk!Top.path, path)
        BY <1>1, <1>3, <3>1, <3>3 DEF Ahead
      <4>2. Len(r) <= Len(path) /\ \A k \in 1 .. Len(r) : r[k] = path[k]
        <5>1. Len(path) \in Nat
          BY DEF Trails
        <5>2. PICK q, m : q = Walk!Top.path /\ m = Len(q)
          OBVIOUS
        <5>3. m < Len(path) /\ \A k \in 1 .. m : q[k] = path[k]
          BY <4>1, <5>2 DEF Begins
        <5>4. /\ m \in Nat /\ Len(r) = m + 1 /\ r[m + 1] = path[m + 1]
              /\ \A k \in 1 .. m : r[k] = q[k]
          BY <1>4, <4>1, <5>2
        <5>5. \A k \in 1 .. (m + 1) : k \in 1 .. m \/ k = m + 1
          BY <5>4
        <5> QED
          BY <5>1, <5>3, <5>4, <5>5
      <4>3. ~Walk!Linked(Standing, r) /\ ~Walk!Protected(r)
        BY <1>4, <2>1, <4>2, NoLinkOn
      <4>4. walk' = "match"
        <5>1. Walk!Protected(r) = FALSE
          BY <4>3 DEF Walk!Protected
        <5>2. Walk!Verdicts(r) = {FALSE}
          BY <1>5, <4>3, <5>1
        <5>3. TRUE \notin Walk!Verdicts(r)
          BY <5>2
        <5> QED
          BY <1>1, <5>3
      <4>5. Ahead(i, path, c)'
        BY <1>1, <3>1, <3>3, <4>4 DEF Ahead
      <4> QED
        BY <1>1, <4>5 DEF Covered
    <3> QED
      BY <3>2, <3>3
  <2> QED
    BY <2>2, <2>3
<1> QED
  BY <1>1, <1>6, <1>7, <1>8, <1>9, Unmoved DEF WalkInv

(* A chain goes on by an entry of the directory that it led to.            *)
LEMMA LeadsOn ==
  ASSUME NEW f \in Frames, FrameRight(f), NEW n \in EntryNames, NEW o \in Nodes,
         <<f.dir, n, o>> \in was
  PROVE  Leading(Append(f.path, n), o)
<1> DEFINE m == Len(f.path)
<1> DEFINE r == Append(f.path, n)
<1>1. m \in Nat /\ Len(r) = m + 1 /\ r[m + 1] = n /\ \A k \in 1 .. m : r[k] = f.path[k]
  BY DEF Frames, Trails
<1>2. PICK c : Chain(f.path, f.dir, c)
  BY DEF FrameRight, Leading
<1>3. /\ c \in [0 .. m -> Nodes] /\ c[0] = Root /\ c[m] = f.dir
      /\ \A k \in 1 .. m : <<c[k - 1], f.path[k], c[k]>> \in was
      /\ \A k \in 1 .. (m - 1) : c[k] \in Subdirs
  BY <1>2 DEF Chain
<1>4. m # 0 => c[m] \in Subdirs
  <2>1. f.path = <<>> => m = 0
    OBVIOUS
  <2> QED
    BY <1>3, <2>1 DEF FrameRight
<1> HIDE DEF m, r
<1> DEFINE d == [k \in 0 .. (m + 1) |-> IF k <= m THEN c[k] ELSE o]
<1>5. /\ d \in [0 .. (m + 1) -> Nodes] /\ d[0] = Root /\ d[m + 1] = o
      /\ \A k \in 0 .. m : d[k] = c[k]
  BY <1>1, <1>3
<1> HIDE DEF d
<1>6. \A k \in 1 .. (m + 1) : <<d[k - 1], r[k], d[k]>> \in was
  <2> TAKE k \in 1 .. (m + 1)
  <2>1. CASE k = m + 1
    BY <1>1, <1>3, <1>5, <2>1
  <2>2. CASE k # m + 1
    <3>1. k \in 1 .. m /\ k - 1 \in 0 .. m /\ k \in 0 .. m
      BY <1>1, <2>2
    <3> QED
      BY <1>1, <1>3, <1>5, <3>1
  <2> QED
    BY <2>1, <2>2
<1>7. \A k \in 1 .. m : d[k] \in Subdirs
  BY <1>1, <1>3, <1>4, <1>5
<1>8. Chain(r, o, d)
  BY <1>1, <1>5, <1>6, <1>7 DEF Chain
<1> QED
  BY <1>8 DEF Leading, r

(* An entry that matches is on its way to the tool.                        *)
LEMMA MatchEntryStep == WalkInv /\ Walk!MatchEntry => WalkInv'
<1> SUFFICES ASSUME WalkInv, Walk!MatchEntry PROVE WalkInv'
  OBVIOUS
<1> DEFINE r == Append(Walk!Top.path, name)
<1> DEFINE needs == info \in Walk!Plain /\ tool = "grep"
<1>1. /\ walk = "match" /\ walk' = "descend" /\ stack' = stack /\ name' = name /\ info' = info
      /\ states' = states /\ found' = found /\ entries' = entries
      /\ directories' = directories /\ truncated' = truncated
      /\ incomplete' = incomplete /\ answer' = answer
      /\ UNCHANGED <<Walk!treeVars, Walk!asked>>
      /\ IF Walk!IsMatch(states) /\ (needs => Walk!StillThere)
         THEN /\ yielded' = [path |-> r, file |-> needs]
              /\ open' = IF needs THEN open + 1 ELSE open
         ELSE yielded' = yielded /\ open' = open
  BY DEF Walk!MatchEntry, Walk!countVars
<1>2. /\ stack # <<>> /\ name \in EntryNames /\ yielded = Walk!NoEntry /\ ~yielded.file
      /\ answer = "none" /\ open = Len(stack)
  BY <1>1, WalkKnown DEF WalkInv, WalkPlaced, Walk!NoEntry
<1>3. /\ Walk!Top \in Frames /\ Walk!Top = stack[Len(stack)] /\ Len(stack) \in DOMAIN stack
      /\ Walk!Top.dir \in Walk!Dirs /\ Walk!Top.path \in Trails /\ FrameRight(Walk!Top)
      /\ Len(stack) \in Nat
  BY <1>2, WalkKnown DEF Frames, WalkInv, WalkSound
<1>4. /\ <<Walk!Top.dir, name, info>> \in was /\ info \in Nodes \ (Links \cup {Root})
      /\ states = Reach(pattern, r) /\ Allowed(r)
  BY <1>1 DEF WalkInv, WalkSound, WalkEntry
<1>5. r \in Trails /\ r # <<>>
  BY <1>2, <1>3 DEF Trails
<1> HIDE DEF r, needs
<1>6. \/ yielded' = yielded /\ open' = open
      \/ /\ Walk!IsMatch(states) /\ (needs => Walk!StillThere)
         /\ yielded' = [path |-> r, file |-> needs]
         /\ open' = IF needs THEN open + 1 ELSE open
  BY <1>1
<1>7. yielded' \in [path : Trails, file : BOOLEAN] /\ open' \in Nat
      /\ open' = Len(stack) + (IF yielded'.file THEN 1 ELSE 0)
  <2>1. needs \in BOOLEAN
    BY DEF needs
  <2> QED
    BY <1>2, <1>3, <1>5, <1>6, <2>1, WalkKnown
<1>8. WalkTyped'
  BY <1>1, <1>2, <1>7, TypedAgain, WalkKnown
<1>9. WalkPlaced'
  BY <1>1, <1>2, <1>7 DEF WalkPlaced, Walk!AllClosed
<1>10. WalkSound'
  <2>1. WalkEntry'
    <3>1. Walk!Top' = Walk!Top /\ was' = was /\ pattern' = pattern
      BY <1>1, Unmoved DEF Walk!Top
    <3>2. r' = r
      BY <1>1, <3>1 DEF r
    <3>3. Reach(pattern, r)' = Reach(pattern, r)
      BY Zenon, <3>1, <3>2
    <3>4. PICK q : q = r
      OBVIOUS
    <3>5. Allowed(q)' /\ ~Walk!UnsafePart(q)'
      BY <1>1, <1>4, <3>4, Unmoved DEF Allowed
    <3>6. Allowed(r)' /\ ~Walk!UnsafePart(r)'
      BY Zenon, <3>2, <3>4, <3>5
    <3> QED
      BY <1>1, <1>4, <3>1, <3>2, <3>3, <3>6 DEF WalkEntry, r
  <2>2. ASSUME yielded' # Walk!NoEntry
        PROVE  /\ yielded'.path = r /\ Good(r, Walk!Plain \cup Subdirs)
               /\ yielded'.file => Good(r, Walk!Plain)
    <3>1. Walk!IsMatch(states) /\ yielded' = [path |-> r, file |-> needs]
      BY <1>2, <1>6, <2>2
    <3>2. Walk!Matches(r)
      BY <1>4, <1>5, <3>1, ReachMatches, WalkKnown
    <3>3. Leading(r, info)
      BY <1>2, <1>3, <1>4, LeadsOn DEF r
    <3>4. info \in Walk!Plain \cup Subdirs /\ (needs => info \in Walk!Plain)
      BY <1>4 DEF Walk!Plain, Walk!Dirs, needs
    <3> QED
      BY <1>4, <3>1, <3>2, <3>3, <3>4 DEF Good
  <2>3. Walk!NoEntry' = Walk!NoEntry /\ Walk!NoEntry.file = FALSE
    BY DEF Walk!NoEntry
  <2>4. /\ yielded' # Walk!NoEntry => Good(yielded.path, Walk!Plain \cup Subdirs)'
        /\ yielded'.file => Good(yielded.path, Walk!Plain)'
    <3> SUFFICES ASSUME yielded' # Walk!NoEntry
                 PROVE  /\ Good(yielded.path, Walk!Plain \cup Subdirs)'
                        /\ yielded'.file => Good(yielded.path, Walk!Plain)'
      BY <2>3
    <3>1. PICK q : q = r
      OBVIOUS
    <3>2. Good(q, Walk!Plain \cup Subdirs) /\ (yielded'.file => Good(q, Walk!Plain))
      BY <2>2, <3>1
    <3>3. /\ Good(q, Walk!Plain \cup Subdirs)' <=> Good(q, Walk!Plain \cup Subdirs)
          /\ Good(q, Walk!Plain)' <=> Good(q, Walk!Plain)
      BY <1>1, Unmoved DEF Good
    <3> QED
      BY <2>2, <3>1, <3>2, <3>3
  <2> QED
    BY <1>1, <2>1, <2>3, <2>4, StackStays DEF WalkSound
<1>11. WalkComplete'
  <2> SUFFICES ASSUME ~truncated', ~incomplete',
                      NEW path \in Trails, NEW c, path # <<>>,
                      Walk!Matches(path)', Still(path, c)'
               PROVE  Covered(path, c)'
    BY DEF WalkComplete
  <2>1. Covered(path, c) /\ Walk!Matches(path) /\ Still(path, c)
    BY <1>1, <1>2, Unmoved DEF WalkInv, WalkComplete
  <2>2. CASE path \in found
    BY <1>1, <2>2 DEF Covered
  <2>3. CASE path \notin found
    <3>1. PICK i \in DOMAIN stack : Ahead(i, path, c)
      BY <1>1, <2>1, <2>3 DEF Covered
    <3>2. CASE path[Len(stack[i].path) + 1] \in stack[i].left
      <4>1. Ahead(i, path, c)'
        BY <1>1, <3>1, <3>2 DEF Ahead
      <4> QED
        BY <1>1, <4>1 DEF Covered
    <3>3. CASE path[Len(stack[i].path) + 1] \notin stack[i].left
      <4> DEFINE m == Len(Walk!Top.path)
      <4>1. /\ i = Len(stack) /\ stack[i] = Walk!Top /\ name = path[m + 1]
            /\ Begins(Walk!Top.path, path) /\ Walk!Top.dir = c[m] /\ info = c[m + 1]
        BY <1>1, <1>3, <3>1, <3>3 DEF Ahead
      <4>2. /\ m \in Nat /\ m + 1 \in 1 .. Len(path) /\ Walk!StillThere
            /\ c[m + 1] \in (IF m + 1 = Len(path) THEN Sought ELSE Subdirs)
            /\ m + 1 = Len(path) => r = path /\ Walk!IsMatch(states)
        BY <1>2, <1>4, <2>1, <4>1, AtName DEF r, Walk!StillThere
      <4>3. CASE m + 1 = Len(path)
        <5>1. yielded' = [path |-> path, file |-> needs]
          BY <1>1, <4>2, <4>3
        <5>2. tool = "grep" => needs
          BY <4>1, <4>2, <4>3 DEF Sought, needs
        <5>3. tool' = tool
          BY <1>1, Unmoved
        <5> QED
          BY <1>1, <5>1, <5>2, <5>3 DEF Covered
      <4>4. CASE m + 1 # Len(path)
        <5>1. Len(path) \in Nat
          BY DEF Trails
        <5>2. m + 1 < Len(path)
          BY <4>2, <4>4, <5>1
        <5>3. Ahead(i, path, c)'
          BY <1>1, <4>1, <5>2 DEF Ahead
        <5> QED
          BY <1>1, <5>3 DEF Covered
      <4> QED
        BY <4>3, <4>4
    <3> QED
      BY <3>2, <3>3
  <2> QED
    BY <2>2, <2>3
<1> QED
  BY <1>1, <1>8, <1>9, <1>10, <1>11, Unmoved DEF WalkInv

(* Where the walk goes from an entry that it does not descend into.        *)
LEMMA ResumeIs ==
  ASSUME WalkInv, walk = "descend", walk' = Walk!Resume, yielded' = yielded
  PROVE  /\ walk' = (IF yielded = Walk!NoEntry THEN "loop" ELSE "yield")
         /\ walk' \in {"loop", "yield"} /\ Walk!NoEntry' = Walk!NoEntry
         /\ Walk!NoEntry.file = FALSE
         /\ \A path : path # <<>> /\ yielded.path = path => walk' = "yield"
  BY DEF Walk!Resume, Walk!NoEntry

(* A directory that the walk does not descend into cannot hold what        *)
(* matches, unless it says that it stopped early.                          *)
LEMMA NoDescentStep ==
  ASSUME WalkInv, walk = "descend", walk' = Walk!Resume,
         UNCHANGED <<Walk!treeVars, Walk!asked, stack, Walk!entryVars, found, entries,
                     directories, incomplete, open, answer>>,
         \/ truncated' = TRUE
         \/ truncated' = truncated /\ ~(info \in Walk!Dirs /\ Walk!CanDescend(states))
  PROVE  WalkInv'
<1>1. /\ stack' = stack /\ name' = name /\ info' = info /\ states' = states
      /\ yielded' = yielded /\ found' = found /\ entries' = entries
      /\ directories' = directories /\ incomplete' = incomplete /\ open' = open
      /\ answer' = answer /\ UNCHANGED <<Walk!treeVars, Walk!asked>>
  BY DEF Walk!entryVars
<1>2. /\ walk' = (IF yielded = Walk!NoEntry THEN "loop" ELSE "yield")
      /\ walk' \in {"loop", "yield"} /\ Walk!NoEntry' = Walk!NoEntry
      /\ Walk!NoEntry.file = FALSE
      /\ \A path : path # <<>> /\ yielded.path = path => walk' = "yield"
  BY <1>1, ResumeIs
<1>3. stack # <<>> /\ name \in EntryNames /\ answer = "none"
      /\ open = Len(stack) + (IF yielded.file THEN 1 ELSE 0)
  BY DEF WalkInv, WalkPlaced
<1>4. /\ Walk!Top \in Frames /\ Walk!Top = stack[Len(stack)]
      /\ states = Reach(pattern, Append(Walk!Top.path, name))
  BY <1>3, WalkKnown DEF WalkInv, WalkSound, WalkEntry
<1>5. WalkTyped'
  <2>1. /\ found' \in SUBSET Trails /\ states' \in SUBSET (1 .. (Len(pattern) + 1))
        /\ yielded' \in [path : Trails, file : BOOLEAN] /\ open' \in Nat
        /\ stack' \in Seq(Frames) /\ entries' \in 0 .. MaxEntries
        /\ directories' \in 0 .. MaxDirectories /\ truncated' \in BOOLEAN
        /\ incomplete' \in BOOLEAN /\ answer' = "none"
    BY <1>1, <1>3, WalkKnown
  <2> QED
    BY <1>1, <1>2, <2>1, TypedAgain
<1>6. WalkPlaced'
  BY <1>1, <1>2, <1>3 DEF WalkPlaced, Walk!AllClosed
<1>7. WalkSound'
  <2>1. WalkEntry'
    BY <1>2 DEF WalkEntry
  <2>2. /\ yielded # Walk!NoEntry => Good(yielded.path, Walk!Plain \cup Subdirs)
        /\ yielded.file => Good(yielded.path, Walk!Plain)
    BY DEF WalkInv, WalkSound
  <2>3. /\ yielded' # Walk!NoEntry => Good(yielded.path, Walk!Plain \cup Subdirs)'
        /\ yielded'.file => Good(yielded.path, Walk!Plain)'
    <3>1. PICK q : q = yielded.path
      OBVIOUS
    <3>2. /\ Good(q, Walk!Plain \cup Subdirs)' <=> Good(q, Walk!Plain \cup Subdirs)
          /\ Good(q, Walk!Plain)' <=> Good(q, Walk!Plain)
      BY <1>1, Unmoved DEF Good
    <3> QED
      BY <1>1, <2>2, <3>1, <3>2
  <2> QED
    BY <1>1, <1>2, <2>1, <2>3, StackStays DEF WalkSound
<1>8. WalkComplete'
  <2> SUFFICES ASSUME ~truncated', ~incomplete',
                      NEW path \in Trails, NEW c, path # <<>>,
                      Walk!Matches(path)', Still(path, c)'
               PROVE  Covered(path, c)'
    BY DEF WalkComplete
  <2>1. Covered(path, c) /\ Walk!Matches(path) /\ Still(path, c)
    BY <1>1, <1>3, Unmoved DEF WalkInv, WalkComplete
  <2>2. CASE path \in found
    BY <1>1, <2>2 DEF Covered
  <2>3. CASE yielded.path = path /\ (tool = "grep" => yielded.file)
    BY <1>1, <1>2, <2>3, Unmoved DEF Covered
  <2>4. CASE \E i \in DOMAIN stack : Ahead(i, path, c)
    <3>1. PICK i \in DOMAIN stack : Ahead(i, path, c)
      BY <2>4
    <3>2. path[Len(stack[i].path) + 1] \in stack[i].left
      <4> SUFFICES ASSUME path[Len(stack[i].path) + 1] \notin stack[i].left PROVE FALSE
        OBVIOUS
      <4> DEFINE m == Len(Walk!Top.path)
      <4>1. /\ stack[i] = Walk!Top /\ name = path[m + 1] /\ m + 1 < Len(path)
            /\ Begins(Walk!Top.path, path) /\ Walk!Top.dir = c[m] /\ info = c[m + 1]
        BY <1>4, <3>1 DEF Ahead
      <4>2. /\ c[m + 1] \in (IF m + 1 = Len(path) THEN Sought ELSE Subdirs)
            /\ m + 1 < Len(path) => Walk!CanDescend(states)
        BY <1>3, <1>4, <2>1, <4>1, AtName
      <4>3. info \in Subdirs /\ Walk!CanDescend(states)
        <5>1. Len(path) \in Nat /\ m \in Nat
          BY <1>4 DEF Trails, Frames
        <5> HIDE DEF m
        <5> QED
          BY <4>1, <4>2, <5>1
      <4> QED
        BY <4>3 DEF Walk!Dirs
    <3>3. Ahead(i, path, c)'
      BY <1>1, <3>1, <3>2 DEF Ahead
    <3> QED
      BY <1>1, <3>3 DEF Covered
  <2> QED
    BY <2>1, <2>2, <2>3, <2>4 DEF Covered
<1> QED
  BY <1>1, <1>5, <1>6, <1>7, <1>8, Unmoved DEF WalkInv

(* A directory is opened, if it is the one that was inspected.             *)
LEMMA OpenChildStep == WalkInv /\ Walk!OpenChild => WalkInv'
<1> SUFFICES ASSUME WalkInv, Walk!OpenChild PROVE WalkInv'
  OBVIOUS
<1> DEFINE n == Len(stack)
<1> DEFINE r == Append(Walk!Top.path, name)
<1>0. PICK f : f = Walk!Frame(info, r, states)
  OBVIOUS
<1>1. /\ walk = "descend" /\ info \in Walk!Dirs /\ Walk!CanDescend(states) /\ ~Walk!AtLimit
      /\ walk' = Walk!Resume /\ name' = name /\ info' = info /\ states' = states
      /\ yielded' = yielded /\ found' = found /\ entries' = entries
      /\ truncated' = truncated /\ incomplete' = incomplete
      /\ answer' = answer /\ UNCHANGED <<Walk!treeVars, Walk!asked>>
      /\ IF Walk!StillThere
         THEN stack' = Append(stack, f) /\ directories' = directories + 1 /\ open' = open + 1
         ELSE stack' = stack /\ directories' = directories /\ open' = open
  BY <1>0 DEF Walk!OpenChild, Walk!entryVars
<1>2. /\ walk' = (IF yielded = Walk!NoEntry THEN "loop" ELSE "yield")
      /\ walk' \in {"loop", "yield"} /\ Walk!NoEntry' = Walk!NoEntry
      /\ Walk!NoEntry.file = FALSE
      /\ \A path : path # <<>> /\ yielded.path = path => walk' = "yield"
  BY <1>1, ResumeIs
<1>3. stack # <<>> /\ name \in EntryNames /\ answer = "none"
      /\ open = n + (IF yielded.file THEN 1 ELSE 0)
  BY <1>1 DEF WalkInv, WalkPlaced
<1>4. /\ Walk!Top \in Frames /\ Walk!Top = stack[n] /\ states = Reach(pattern, r)
      /\ <<Walk!Top.dir, name, info>> \in was /\ info \in Nodes \ (Links \cup {Root})
      /\ FrameRight(Walk!Top) /\ n \in Nat /\ n \in DOMAIN stack /\ DOMAIN stack = 1 .. n
      /\ ~Walk!UnsafePart(r)
  BY <1>1, <1>3, WalkKnown DEF WalkInv, WalkSound, WalkEntry
<1>5. r \in Trails
  <2>1. Walk!Top.path \in Trails
    BY <1>4 DEF Frames
  <2> QED
    BY <1>3, <2>1 DEF Trails
<1>6. /\ f.dir = info /\ f.path = r /\ f.states = states /\ f.left = Walk!Listing(info)
      /\ f \in Frames /\ FrameRight(f)
  <2>1. f = [dir |-> info, path |-> r, states |-> states, left |-> Walk!Listing(info)]
    BY <1>0 DEF Walk!Frame
  <2>2. states \in SUBSET Nat /\ Walk!Listing(info) \in SUBSET EntryNames
    BY WalkKnown DEF Walk!Listing, Parted
  <2> HIDE DEF r
  <2>3. f \in Frames
    BY <1>1, <1>5, <2>1, <2>2 DEF Frames
  <2>4. info \in Subdirs
    BY <1>1, <1>4 DEF Walk!Dirs
  <2>5. Leading(r, info)
    BY <1>3, <1>4, LeadsOn DEF r
  <2>6. ~Walk!UnsafePart(r)
    BY <1>4
  <2> QED
    BY <1>4, <2>1, <2>3, <2>4, <2>5, <2>6 DEF FrameRight
<1> HIDE DEF n, r
<1>7. /\ stack' \in Seq(Frames) /\ DOMAIN stack \subseteq DOMAIN stack'
      /\ \A i \in DOMAIN stack : stack'[i] = stack[i]
      /\ \A i \in DOMAIN stack' : i \in DOMAIN stack \/ stack'[i] = f
      /\ Walk!StillThere => n + 1 \in DOMAIN stack' /\ stack'[n + 1] = f
      /\ open' = Len(stack') + (IF yielded.file THEN 1 ELSE 0) /\ open' \in Nat
      /\ directories' \in 0 .. MaxDirectories
  <2>1. CASE Walk!StillThere
    <3>1. stack' = Append(stack, f) /\ directories' = directories + 1 /\ open' = open + 1
      BY <1>1, <2>1
    <3>2. directories < MaxDirectories /\ directories \in 0 .. MaxDirectories
      BY <1>1, WalkKnown, WalkAssumption DEF Walk!AtLimit
    <3>3. /\ stack' \in Seq(Frames) /\ DOMAIN stack' = 1 .. (n + 1) /\ Len(stack') = n + 1
          /\ \A i \in 1 .. n : stack'[i] = stack[i]
          /\ stack'[n + 1] = f
      BY <1>4, <1>6, <3>1, WalkKnown DEF n
    <3>4. open' = Len(stack') + (IF yielded.file THEN 1 ELSE 0) /\ open' \in Nat
      BY <1>3, <1>4, <3>1, <3>3, WalkKnown
    <3>5. directories' \in 0 .. MaxDirectories
      BY <3>1, <3>2, WalkAssumption
    <3> QED
      BY <1>4, <3>3, <3>4, <3>5
  <2>2. CASE ~Walk!StillThere
    BY <1>1, <1>3, <2>2, WalkKnown DEF n
  <2> QED
    BY <2>1, <2>2
<1>8. WalkTyped'
  <2>1. /\ found' \in SUBSET Trails /\ states' \in SUBSET (1 .. (Len(pattern) + 1))
        /\ yielded' \in [path : Trails, file : BOOLEAN]
        /\ entries' \in 0 .. MaxEntries /\ truncated' \in BOOLEAN
        /\ incomplete' \in BOOLEAN /\ answer' = "none"
    BY <1>1, <1>3, WalkKnown
  <2> QED
    BY <1>1, <1>2, <1>7, <2>1, TypedAgain
<1>9. WalkPlaced'
  BY <1>1, <1>2, <1>3, <1>7 DEF WalkPlaced, Walk!AllClosed
<1>10. WalkSound'
  <2>1. WalkEntry'
    BY <1>2 DEF WalkEntry
  <2>2. /\ yielded # Walk!NoEntry => Good(yielded.path, Walk!Plain \cup Subdirs)
        /\ yielded.file => Good(yielded.path, Walk!Plain)
        /\ \A path \in found : Good(path, Sought)
        /\ \A i \in DOMAIN stack : FrameRight(stack[i])
    BY DEF WalkInv, WalkSound
  <2>3. \A q : /\ Good(q, Walk!Plain \cup Subdirs)' <=> Good(q, Walk!Plain \cup Subdirs)
               /\ Good(q, Walk!Plain)' <=> Good(q, Walk!Plain)
               /\ Good(q, Sought)' <=> Good(q, Sought)
    BY <1>1, Unmoved DEF Good
  <2>4. /\ yielded' # Walk!NoEntry => Good(yielded.path, Walk!Plain \cup Subdirs)'
        /\ yielded'.file => Good(yielded.path, Walk!Plain)'
    <3>1. PICK q : q = yielded.path
      OBVIOUS
    <3> QED
      BY <1>1, <2>2, <2>3, <3>1
  <2>5. (\A path \in found : Good(path, Sought))'
    BY <1>1, <2>2, <2>3
  <2>6. (\A i \in DOMAIN stack : FrameRight(stack[i]))'
    <3> SUFFICES ASSUME NEW i \in DOMAIN stack' PROVE FrameRight(stack[i])'
      OBVIOUS
    <3>1. PICK g : g = stack'[i]
      OBVIOUS
    <3>2. FrameRight(g)
      BY <1>6, <1>7, <2>2, <3>1
    <3>3. FrameRight(g)'
      BY <1>1, <3>2, Unmoved
    <3> QED
      BY <3>1, <3>3
  <2> QED
    BY <1>1, <1>2, <2>1, <2>4, <2>5, <2>6 DEF WalkSound
<1>11. WalkComplete'
  <2> SUFFICES ASSUME ~truncated', ~incomplete',
                      NEW path \in Trails, NEW c, path # <<>>,
                      Walk!Matches(path)', Still(path, c)'
               PROVE  Covered(path, c)'
    BY DEF WalkComplete
  <2>1. Covered(path, c) /\ Walk!Matches(path) /\ Still(path, c)
    BY <1>1, <1>3, Unmoved DEF WalkInv, WalkComplete
  <2>2. CASE path \in found
    BY <1>1, <2>2 DEF Covered
  <2>3. CASE yielded.path = path /\ (tool = "grep" => yielded.file)
    BY <1>1, <1>2, <2>3, Unmoved DEF Covered
  <2>4. CASE \E i \in DOMAIN stack : Ahead(i, path, c)
    <3>1. PICK i \in DOMAIN stack : Ahead(i, path, c)
      BY <2>4
    <3>2. CASE path[Len(stack[i].path) + 1] \in stack[i].left
      <4>1. Ahead(i, path, c)'
        BY <1>7, <3>1, <3>2 DEF Ahead
      <4> QED
        BY <1>7, <4>1 DEF Covered
    <3>3. CASE path[Len(stack[i].path) + 1] \notin stack[i].left
      <4> DEFINE m == Len(Walk!Top.path)
      <4>1. /\ stack[i] = Walk!Top /\ name = path[m + 1] /\ m + 1 < Len(path)
            /\ Begins(Walk!Top.path, path) /\ Walk!Top.dir = c[m] /\ info = c[m + 1]
        BY <1>1, <1>4, <3>1, <3>3 DEF Ahead, n
      <4>2. /\ m \in Nat /\ Walk!StillThere
            /\ m + 1 < Len(path) => Begins(r, path)
        BY <1>3, <2>1, <4>1, AtName DEF r, Walk!StillThere
      <4>3. Len(r) = m + 1 /\ Len(path) \in Nat
        BY <1>4 DEF r, Frames, Trails
      <4> HIDE DEF m
      <4>4. m + 2 \in 1 .. Len(path) /\ m + 1 \in 0 .. Len(path)
        BY <4>1, <4>2, <4>3
      <4>5. path[m + 2] \in f.left
        <5>1. path[m + 2] \in EntryNames
          BY <4>4 DEF Trails
        <5>2. tree[<<c[m + 1], path[m + 2]>>] \in Nodes
          <6>1. tree[<<c[(m + 2) - 1], path[m + 2]>>] = c[m + 2] /\ c[m + 2] \in Nodes
            BY <2>1, <4>4 DEF Still
          <6>2. (m + 2) - 1 = m + 1
            BY <4>2
          <6> QED
            BY <6>1, <6>2
        <5> QED
          BY <1>6, <4>1, <5>1, <5>2, WalkAssumption DEF Walk!Listing, Walk!Under
      <4>6. n + 1 \in DOMAIN stack' /\ stack'[n + 1] = f
        BY <1>7, <4>2
      <4>7. Len(f.path) = m + 1 /\ Begins(f.path, path) /\ f.dir = c[m + 1]
        BY <1>6, <4>1, <4>2, <4>3
      <4>8. (m + 1) + 1 = m + 2
        BY <4>2
      <4>9. PICK l : l = n + 1
        OBVIOUS
      <4>10. Ahead(l, path, c)'
        BY <4>5, <4>6, <4>7, <4>8, <4>9 DEF Ahead
      <4> QED
        BY <4>6, <4>9, <4>10 DEF Covered
    <3> QED
      BY <3>2, <3>3
  <2> QED
    BY <2>1, <2>2, <2>3, <2>4 DEF Covered
<1> QED
  BY <1>1, <1>8, <1>9, <1>10, <1>11, Unmoved DEF WalkInv

(* The tool is done with an entry: it has the path, or says that it may    *)
(* have missed something, or does not look for such entries.               *)
LEMMA EntryTakenStep ==
  ASSUME WalkInv, Walk!Taken, incomplete' \in BOOLEAN,
         UNCHANGED <<Walk!treeVars, Walk!asked>>,
         \/ /\ found' = found \cup {yielded.path} /\ (tool = "grep" => yielded.file)
            /\ incomplete' = incomplete
         \/ found' = found /\ incomplete'
         \/ found' = found /\ tool = "grep" /\ ~yielded.file /\ incomplete' = incomplete
  PROVE  WalkInv'
<1>1. /\ walk = "yield" /\ walk' = "loop" /\ stack' = stack /\ name' = name /\ info' = info
      /\ states' = states /\ entries' = entries /\ directories' = directories
      /\ truncated' = truncated /\ answer' = answer
      /\ yielded' = Walk!NoEntry
      /\ open' = IF yielded.file THEN open - 1 ELSE open
  BY DEF Walk!Taken, Walk!countVars
<1>2. /\ answer = "none" /\ open = Len(stack) + (IF yielded.file THEN 1 ELSE 0)
      /\ yielded # Walk!NoEntry
  BY <1>1 DEF WalkInv, WalkPlaced
<1>3. yielded.path \in Trails /\ open' = Len(stack) /\ Len(stack) \in Nat
  BY <1>1, <1>2, WalkKnown
<1>4. /\ yielded' = [path |-> <<>>, file |-> FALSE] /\ ~yielded'.file /\ <<>> \in Trails
      /\ Walk!NoEntry' = Walk!NoEntry
  BY <1>1 DEF Walk!NoEntry, Trails
<1>5. WalkTyped'
  <2>1. /\ states' \in SUBSET (1 .. (Len(pattern) + 1)) /\ stack' \in Seq(Frames)
        /\ entries' \in 0 .. MaxEntries /\ directories' \in 0 .. MaxDirectories
        /\ truncated' \in BOOLEAN /\ answer' = "none" /\ open' \in Nat
        /\ found' \in SUBSET Trails /\ yielded' \in [path : Trails, file : BOOLEAN]
    BY <1>1, <1>2, <1>3, <1>4, WalkKnown
  <2> QED
    BY <1>1, <2>1, TypedAgain
<1>6. WalkPlaced'
  BY <1>1, <1>2, <1>3, <1>4 DEF WalkPlaced, Walk!AllClosed
<1>7. WalkSound'
  <2>1. /\ Good(yielded.path, Walk!Plain \cup Subdirs)
        /\ yielded.file => Good(yielded.path, Walk!Plain)
        /\ \A path \in found : Good(path, Sought)
        /\ \A i \in DOMAIN stack : FrameRight(stack[i])
    BY <1>2 DEF WalkInv, WalkSound
  <2>2. \A path \in found' : Good(path, Sought)
    <3>1. tool = "grep" => Sought = Walk!Plain
      BY DEF Sought
    <3>2. tool # "grep" => Sought = Walk!Plain \cup Subdirs
      BY DEF Sought
    <3> QED
      BY <2>1, <3>1, <3>2
  <2>3. (\A path \in found : Good(path, Sought))'
    <3> SUFFICES ASSUME NEW path \in found' PROVE Good(path, Sought)'
      OBVIOUS
    <3>1. Good(path, Sought)' <=> Good(path, Sought)
      BY Unmoved DEF Good
    <3> QED
      BY <2>2, <3>1
  <2>4. (\A i \in DOMAIN stack : FrameRight(stack[i]))'
    BY <1>1, <2>1, Unmoved
  <2> QED
    BY <1>1, <1>4, <2>3, <2>4 DEF WalkSound, WalkEntry
<1>8. WalkComplete'
  <2> SUFFICES ASSUME ~truncated', ~incomplete',
                      NEW path \in Trails, NEW c, path # <<>>,
                      Walk!Matches(path)', Still(path, c)'
               PROVE  Covered(path, c)'
    BY DEF WalkComplete
  <2>0. ~incomplete /\ ~truncated
    BY <1>1
  <2>1. Covered(path, c)
    BY <1>1, <1>2, <2>0, Unmoved DEF WalkInv, WalkComplete
  <2>2. CASE path \in found
    BY <2>2 DEF Covered
  <2>3. CASE yielded.path = path /\ (tool = "grep" => yielded.file)
    BY <2>3 DEF Covered
  <2>4. CASE \E i \in DOMAIN stack : Ahead(i, path, c)
    <3>1. PICK i \in DOMAIN stack : Ahead(i, path, c)
      BY <2>4
    <3>2. Ahead(i, path, c)'
      BY <1>1, <3>1 DEF Ahead
    <3> QED
      BY <1>1, <3>2 DEF Covered
  <2> QED
    BY <2>1, <2>2, <2>3, <2>4 DEF Covered
<1> QED
  BY <1>5, <1>6, <1>7, <1>8, Unmoved DEF WalkInv

(* Another process changes some entries: what was there stays known, and   *)
(* what is still untouched was so before.                                  *)
LEMMA ChangedStep ==
  ASSUME WalkInv, moves < MaxMoves, NEW t \in [Walk!Slots -> Nodes \cup {None}],
         NEW slots \in SUBSET Walk!Slots, Walk!Changed(t, slots),
         \A s \in Walk!Slots \ slots : t[s] = tree[s]
  PROVE  WalkInv'
<1>1. /\ Walk!Tree(t) /\ tree' = t /\ moves' = moves + 1 /\ touched' = touched \cup slots
      /\ was' = was \cup {<<p[1], p[2], t[p]>> : p \in slots}
      /\ system' = system /\ tool' = tool /\ pattern' = pattern
      /\ walk' = walk /\ stack' = stack /\ name' = name /\ info' = info /\ states' = states
      /\ yielded' = yielded /\ found' = found /\ entries' = entries
      /\ directories' = directories /\ truncated' = truncated /\ incomplete' = incomplete
      /\ open' = open /\ answer' = answer
  BY DEF Walk!Changed, Walk!asked, Walk!walkVars, Walk!entryVars, Walk!countVars
<1>2. Walk!Slots = Walk!Dirs \X EntryNames
  BY WalkKnown
<1>3. WalkTyped'
  <2>1. Walk!TypeOK'
    <3>1. moves' \in 0 .. MaxMoves
      BY <1>1, WalkAssumption DEF WalkInv, WalkTyped, Walk!TypeOK
    <3>2. touched' \in SUBSET Walk!Slots
      BY <1>1 DEF WalkInv, WalkTyped, Walk!TypeOK
    <3> QED
      BY <1>1, <3>1, <3>2 DEF WalkInv, WalkTyped, Walk!TypeOK
  <2>2. \A p \in Walk!Slots : tree'[p] # Root
    BY <1>1, WalkAssumption DEF Walk!Tree
  <2> QED
    BY <1>1, <2>1, <2>2 DEF WalkInv, WalkTyped
<1>4. WalkPlaced'
  BY <1>1 DEF WalkInv, WalkPlaced, Walk!AllClosed, Walk!NoEntry
<1>5. \A d, m, o : <<d, m, o>> \in was' <=>
        <<d, m, o>> \in was \/ (<<d, m>> \in slots /\ o = t[<<d, m>>])
  <2> TAKE d, m, o
  <2>1. ASSUME <<d, m>> \in slots, o = t[<<d, m>>] PROVE <<d, m, o>> \in was'
    <3>1. <<d, m>>[1] = d /\ <<d, m>>[2] = m
      OBVIOUS
    <3> QED
      BY <1>1, <2>1, <3>1
  <2>2. ASSUME <<d, m, o>> \in was', <<d, m, o>> \notin was
        PROVE  <<d, m>> \in slots /\ o = t[<<d, m>>]
    <3>1. PICK p \in slots : <<d, m, o>> = <<p[1], p[2], t[p]>>
      BY <1>1, <2>2
    <3>2. p = <<d, m>>
      BY <1>2, <3>1
    <3> QED
      BY <3>1, <3>2
  <2>3. <<d, m, o>> \in was => <<d, m, o>> \in was'
    BY <1>1
  <2> QED
    BY <2>1, <2>2, <2>3
<1>6. WalkThere'
  <2>1. \A d \in Walk!Dirs, m \in EntryNames : <<d, m, t[<<d, m>>]>> \in was'
    <3> TAKE d \in Walk!Dirs, m \in EntryNames
    <3>1. <<d, m>> \in Walk!Slots
      BY <1>2
    <3> QED
      BY <1>5, <3>1 DEF WalkInv, WalkThere
  <2>2. \A d \in Walk!Dirs, m \in EntryNames : \A o :
          <<d, m, o>> \in was' /\ <<d, m>> \notin touched' => o = t[<<d, m>>]
    <3> TAKE d \in Walk!Dirs, m \in EntryNames
    <3> TAKE o
    <3>1. <<d, m>> \in Walk!Slots
      BY <1>2
    <3> QED
      BY <1>1, <1>5, <3>1 DEF WalkInv, WalkThere
  <2>3. \A d, m, o : <<d, m, o>> \in was' => d \in Walk!Dirs /\ m \in EntryNames
    <3> TAKE d, m, o
    <3>1. <<d, m>> \in slots => d \in Walk!Dirs /\ m \in EntryNames
      BY <1>2
    <3> QED
      BY <1>5, <3>1 DEF WalkInv, WalkThere
  <2> QED
    BY <1>1, <2>1, <2>2, <2>3 DEF WalkThere
<1>7. was \subseteq was'
  BY <1>1
<1>8. WalkSound'
  <2>1. \A path, o : Leading(path, o) => Leading(path, o)'
    BY <1>7 DEF Leading, Chain
  <2>2. \A path : Walk!Matches(path)' <=> Walk!Matches(path)
    BY <1>1 DEF Walk!Matches
  <2>10. \A path : Walk!UnsafePart(path)' <=> Walk!UnsafePart(path)
    BY <1>1 DEF Walk!UnsafePart
  <2>11. \A path : Allowed(path) => Allowed(path)'
    BY <1>7, <2>10 DEF Allowed, Walk!Protected, Walk!Linked, Walk!Leads
  <2>3. \A path, last : Good(path, last) => Good(path, last)'
    BY <2>1, <2>2, <2>11 DEF Good
  <2>4. \A f : FrameRight(f) => FrameRight(f)'
    <3> TAKE f
    <3>1. Reach(pattern, f.path)' = Reach(pattern, f.path)
      BY Zenon, <1>1
    <3>2. PICK q : q = f.path
      OBVIOUS
    <3>3. Walk!UnsafePart(q)' <=> Walk!UnsafePart(q)
      BY <2>10
    <3> QED
      BY <1>1, <2>1, <3>1, <3>2, <3>3 DEF FrameRight
  <2>5. WalkEntry'
    <3>1. Walk!Top' = Walk!Top
      BY <1>1 DEF Walk!Top
    <3>2. Reach(pattern, Append(Walk!Top.path, name))' = Reach(pattern, Append(Walk!Top.path, name))
      BY Zenon, <1>1, <3>1
    <3>3. PICK q : q = Append(Walk!Top.path, name)
      OBVIOUS
    <3>4. Append(Walk!Top.path, name)' = q
      BY <1>1, <3>1, <3>3
    <3>5. (~Walk!UnsafePart(q) => ~Walk!UnsafePart(q)') /\ (Allowed(q) => Allowed(q)')
      BY <2>10, <2>11
    <3> QED
      BY <1>1, <1>7, <3>1, <3>2, <3>3, <3>4, <3>5 DEF WalkInv, WalkSound, WalkEntry
  <2>6. /\ yielded # Walk!NoEntry => Good(yielded.path, Walk!Plain \cup Subdirs)
        /\ yielded.file => Good(yielded.path, Walk!Plain)
        /\ \A path \in found : Good(path, Sought)
        /\ \A i \in DOMAIN stack : FrameRight(stack[i])
    BY DEF WalkInv, WalkSound
  <2>7. /\ (yielded # Walk!NoEntry => Good(yielded.path, Walk!Plain \cup Subdirs))'
        /\ (yielded.file => Good(yielded.path, Walk!Plain))'
    <3>1. PICK q : q = yielded.path
      OBVIOUS
    <3>2. /\ Good(q, Walk!Plain \cup Subdirs) => Good(q, Walk!Plain \cup Subdirs)'
          /\ Good(q, Walk!Plain) => Good(q, Walk!Plain)'
      BY <2>1, <2>2, <2>11 DEF Good, Walk!Plain, Walk!Dirs
    <3>3. Walk!NoEntry' = Walk!NoEntry
      BY DEF Walk!NoEntry
    <3> QED
      BY <1>1, <2>6, <3>1, <3>2, <3>3
  <2>8. (\A path \in found : Good(path, Sought))'
    <3>1. Sought' = Sought
      BY <1>1 DEF Sought, Walk!Plain
    <3> SUFFICES ASSUME NEW path \in found' PROVE Good(path, Sought)'
      OBVIOUS
    <3>2. Good(path, Sought)
      BY <1>1, <2>6
    <3> QED
      BY <2>1, <2>2, <2>11, <3>1, <3>2 DEF Good
  <2>9. (\A i \in DOMAIN stack : FrameRight(stack[i]))'
    BY <1>1, <2>4, <2>6
  <2> QED
    BY <2>5, <2>7, <2>8, <2>9 DEF WalkSound
<1>9. WalkComplete'
  <2> SUFFICES ASSUME walk' # "base", answer' \in {"none", "ok"}, ~truncated', ~incomplete',
                      NEW path \in Trails, NEW c, path # <<>>,
                      Walk!Matches(path)', Still(path, c)'
               PROVE  Covered(path, c)'
    BY DEF WalkComplete
  <2>1. Walk!Matches(path)
    BY <1>1 DEF Walk!Matches
  <2>2. Still(path, c)
    <3>1. Sought' = Sought
      BY <1>1 DEF Sought, Walk!Plain
    <3>2. \A k \in 1 .. Len(path) : /\ <<c[k - 1], path[k]>> \in Walk!Slots \ touched
                                    /\ tree[<<c[k - 1], path[k]>>] = c[k]
      BY <1>1 DEF Still
    <3>3. ~Walk!UnsafePart(path) /\ ~Walk!Protected(path)
      BY <1>1 DEF Still, Walk!UnsafePart, Walk!Protected
    <3> QED
      BY <3>1, <3>2, <3>3 DEF Still
  <2>3. Covered(path, c)
    BY <1>1, <2>1, <2>2 DEF WalkInv, WalkComplete
  <2> QED
    BY <1>1, <2>3 DEF Covered, Ahead
<1> QED
  BY <1>3, <1>4, <1>6, <1>8, <1>9 DEF WalkInv

(* Every step keeps the invariant.                                         *)
LEMMA WalkStep == WalkInv /\ [Walk!Next]_walkVars => WalkInv'
<1> SUFFICES ASSUME WalkInv, [Walk!Next]_walkVars PROVE WalkInv'
  OBVIOUS
<1> USE DEF Walk!countVars
<1>1. CASE Walk!OpenBase
  BY <1>1, OpenBaseStep
<1>2. CASE Walk!BaseRefused
  BY <1>2, BaseRefusedStep
<1>3. CASE Walk!Fails
  BY <1>3, CloseStep, WalkKnown DEF Walk!Fails
<1>4. CASE Walk!Exhausted
  BY <1>4, CloseStep, WalkKnown DEF Walk!Exhausted
<1>5. CASE Walk!Finished
  BY <1>5, CloseStep, WalkKnown DEF Walk!Finished
<1>6. CASE Walk!NextEntry
  BY <1>6, NextEntryStep
<1>7. CASE Walk!Inspect
  BY <1>7, InspectStep
<1>19. CASE Walk!Guard
  BY <1>19, GuardStep
<1>8. CASE Walk!MatchEntry
  BY <1>8, MatchEntryStep
<1>9. CASE Walk!StayHere
  BY <1>9, NoDescentStep DEF Walk!StayHere
<1>10. CASE Walk!LimitReached
  BY <1>10, NoDescentStep DEF Walk!LimitReached
<1>11. CASE Walk!OpenChild
  BY <1>11, OpenChildStep
<1>12. CASE Walk!ChildChanged
  BY <1>12, CloseStep, WalkKnown DEF Walk!ChildChanged
<1>13. CASE Walk!ResultLimit
  BY <1>13, CloseStep, WalkKnown DEF Walk!ResultLimit
<1>14. CASE Walk!ListEntry
  <2>1. tool = "glob" /\ found' = found \cup {yielded.path} /\ incomplete' = incomplete
        /\ Walk!Taken /\ UNCHANGED <<Walk!treeVars, Walk!asked>>
    BY <1>14 DEF Walk!ListEntry, Walk!Taken
  <2> QED
    BY <2>1, EntryTakenStep, WalkKnown
<1>15. CASE Walk!SearchFile
  <2>1. tool = "grep" /\ Walk!Taken /\ UNCHANGED <<Walk!treeVars, Walk!asked>>
    BY <1>15 DEF Walk!SearchFile, Walk!Taken
  <2>2. \/ ~yielded.file /\ found' = found /\ incomplete' = incomplete
        \/ yielded.file /\ found' = found \cup {yielded.path} /\ incomplete' = incomplete
        \/ yielded.file /\ incomplete' = TRUE /\ found' = found
    BY <1>15 DEF Walk!SearchFile, Walk!TooLarge
  <2> QED
    BY <2>1, <2>2, EntryTakenStep, WalkKnown
<1>16. CASE Walk!Move
  <2>1. PICK p \in Walk!Slots, q \in Walk!Slots :
          /\ moves < MaxMoves /\ p # q
          /\ Walk!Changed([tree EXCEPT ![p] = None, ![q] = tree[p]], {p, q})
    BY <1>16 DEF Walk!Move
  <2>2. PICK t : t = [tree EXCEPT ![p] = None, ![q] = tree[p]]
    OBVIOUS
  <2>3. t \in [Walk!Slots -> Nodes \cup {None}]
        /\ \A s \in Walk!Slots \ {p, q} : t[s] = tree[s]
    BY <2>1, <2>2, WalkKnown
  <2>4. PICK slots : slots = {p, q}
    OBVIOUS
  <2>5. slots \in SUBSET Walk!Slots /\ Walk!Changed(t, slots)
        /\ \A s \in Walk!Slots \ slots : t[s] = tree[s]
    BY <2>1, <2>2, <2>3, <2>4
  <2> QED
    BY <2>1, <2>3, <2>5, ChangedStep
<1>17. CASE Walk!Replace
  <2>1. PICK p \in Walk!Slots, o \in Nodes \cup {None} :
          moves < MaxMoves /\ Walk!Changed([tree EXCEPT ![p] = o], {p})
    BY <1>17 DEF Walk!Replace
  <2>2. PICK t : t = [tree EXCEPT ![p] = o]
    OBVIOUS
  <2>3. t \in [Walk!Slots -> Nodes \cup {None}]
        /\ \A s \in Walk!Slots \ {p} : t[s] = tree[s]
    BY <2>1, <2>2, WalkKnown
  <2> QED
    BY <2>1, <2>2, <2>3, ChangedStep
<1>18. CASE UNCHANGED walkVars
  <2>1. /\ UNCHANGED <<Walk!treeVars, Walk!asked>> /\ walk' = walk /\ stack' = stack
        /\ name' = name /\ info' = info /\ states' = states /\ yielded' = yielded
        /\ found' = found /\ entries' = entries /\ directories' = directories
        /\ truncated' = truncated /\ incomplete' = incomplete /\ open' = open
        /\ answer' = answer
    BY <1>18 DEF walkVars, Walk!treeVars, Walk!asked
  <2>2. WalkTyped'
    BY <2>1, Unmoved DEF WalkInv, WalkTyped, Walk!TypeOK
  <2>3. WalkPlaced'
    BY <2>1 DEF WalkInv, WalkPlaced, Walk!AllClosed, Walk!NoEntry
  <2>4. WalkSound'
    <3>1. WalkEntry'
      BY <2>1, Unmoved, Zenon DEF WalkInv, WalkSound, WalkEntry, Walk!Top
    <3>2. Walk!NoEntry' = Walk!NoEntry
      BY DEF Walk!NoEntry
    <3>3. Walk!Plain' = Walk!Plain
      BY DEF Walk!Plain, Walk!Dirs
    <3>4. PICK q, file : q = yielded.path /\ file = yielded.file
      OBVIOUS
    <3>5. (yielded.path)' = q /\ (yielded.file)' = file
      BY <2>1, <3>4
    <3>6. \A path, last : Good(path, last)' <=> Good(path, last)
      BY <2>1, Unmoved
    <3> QED
      BY <2>1, <3>1, <3>2, <3>3, <3>4, <3>5, <3>6, Unmoved DEF WalkInv, WalkSound
  <2>5. WalkComplete'
    BY <2>1, Unmoved DEF WalkInv, WalkComplete, Covered, Ahead
  <2> QED
    BY <2>1, <2>2, <2>3, <2>4, <2>5, Unmoved DEF WalkInv
<1> QED
  BY <1>1, <1>2, <1>3, <1>4, <1>5, <1>6, <1>7, <1>8, <1>9, <1>10, <1>11, <1>12, <1>13, <1>14,
     <1>15, <1>16, <1>17, <1>18, <1>19 DEF Walk!Next, Walk!Walk

(* What the invariant says of the properties.                              *)
LEMMA WalkIsRight ==
  WalkInv => Walk!TypeOK /\ Walk!Sound /\ Walk!Complete /\ Walk!AllClosed
<1> SUFFICES ASSUME WalkInv PROVE Walk!Sound /\ Walk!Complete
  BY DEF WalkInv, WalkTyped, WalkPlaced
<1>1. \A path \in Trails : path # <<>> =>
        Len(path) \in Nat \ {0}
  BY DEF Trails
<1>2. Walk!Sound
  <2> SUFFICES ASSUME NEW path \in found
               PROVE  Walk!Matches(path) /\ Allowed(path) /\ Walk!Leads(was, path, Sought)
    BY DEF Walk!Sound, Walk!Wanted, Allowed, Sought
  <2>1. PICK o \in Sought : Leading(path, o)
    BY DEF WalkInv, WalkSound, Good
  <2>2. PICK c : Chain(path, o, c)
    BY <2>1 DEF Leading
  <2>3. Walk!Leads(was, path, Sought)
    BY <2>2 DEF Chain, Walk!Leads
  <2> QED
    BY <2>3 DEF WalkInv, WalkSound, Good
<1>3. Walk!Complete
  <2> SUFFICES ASSUME answer = "ok", ~truncated, ~incomplete,
                      NEW path \in Walk!Paths, Walk!Matches(path),
                      ~Walk!UnsafePart(path), ~Walk!Protected(path),
                      NEW still, still = {x \in was : <<x[1], x[2]>> \notin touched},
                      Walk!Leads(still, path, Sought)
               PROVE  path \in found
    BY Zenon DEF Walk!Complete, Walk!SaysIncomplete, Walk!Wanted, Sought
  <2>1. path \in Trails /\ Len(path) \in Nat \ {0}
    <3>1. PICK k \in 1 .. (Walk!Cardinality(Subdirs) + 1) : path \in [1 .. k -> EntryNames]
      BY DEF Walk!Paths
    <3>2. k \in Nat \ {0}
      OBVIOUS
    <3>3. path \in Seq(EntryNames)
      BY <3>1, <3>2, SeqDef
    <3>4. Len(path) = k
      BY <3>1, <3>2, <3>3, LenProperties
    <3> QED
      BY <3>2, <3>3, <3>4 DEF Trails
  <2>2. PICK c \in [0 .. Len(path) -> Nodes] :
          /\ c[0] = Root
          /\ \A k \in 1 .. Len(path) : <<c[k - 1], path[k], c[k]>> \in still
          /\ \A k \in 1 .. (Len(path) - 1) : c[k] \in Subdirs
          /\ c[Len(path)] \in Sought
    BY DEF Walk!Leads
  <2>3. Still(path, c)
    <3>1. \A k \in 1 .. Len(path) : /\ <<c[k - 1], path[k]>> \in Walk!Slots \ touched
                                    /\ tree[<<c[k - 1], path[k]>>] = c[k]
      <4> TAKE k \in 1 .. Len(path)
      <4> DEFINE x == <<c[k - 1], path[k], c[k]>>
      <4>1. x \in was /\ <<x[1], x[2]>> \notin touched
        BY <2>2
      <4>2. x[1] = c[k - 1] /\ x[2] = path[k] /\ x[3] = c[k]
        OBVIOUS
      <4> QED
        BY <4>1, <4>2, WalkKnown DEF WalkInv, WalkThere
    <3> QED
      BY <2>1, <2>2, <3>1 DEF Still
  <2>4. walk # "base"
    BY DEF WalkInv, WalkPlaced
  <2>5. Covered(path, c)
    <3>1. path # <<>>
      BY <2>1
    <3> QED
      BY <2>1, <2>3, <2>4, <3>1 DEF WalkInv, WalkComplete
  <2>6. walk = "done" /\ stack = <<>>
    BY DEF WalkInv, WalkPlaced
  <2> QED
    BY <2>5, <2>6 DEF Covered
<1> QED
  BY <1>2, <1>3

-------------------------------------------------------------------------------
(* Everything together: whichever part of the workspace moves, the others  *)
(* stay where they are.                                                    *)

PartsInv ==
  /\ part = "posix" => IInv
  /\ part = "windows" => WindowsInv
  /\ AgentsInv /\ EditsInv /\ WalkInv

(* What a step is to each of the parts.                                    *)
LEMMA PartsMove ==
  ASSUME [PartsNext]_partVars
  PROVE  /\ part' = part
         /\ part = "posix" => [Next]_vars
         /\ part = "windows" => [Windows!Next]_vars
         /\ [Agents!Next]_agentVars /\ [Edits!Next]_editVars /\ [Walk!Next]_walkVars
<1>1. CASE PartsNext
  BY <1>1 DEF PartsNext
<1>2. CASE UNCHANGED partVars
  BY <1>2 DEF partVars
<1> QED
  BY <1>1, <1>2

LEMMA PartsInitInv == PartsInit => PartsInv
  BY InitInv, WindowsInitInv, AgentsInitInv, EditsInitInv, WalkInitInv DEF PartsInit, PartsInv

LEMMA PartsStep == PartsInv /\ [PartsNext]_partVars => PartsInv'
<1> SUFFICES ASSUME PartsInv, [PartsNext]_partVars PROVE PartsInv'
  OBVIOUS
<1>1. /\ part' = part
      /\ part = "posix" => [Next]_vars
      /\ part = "windows" => [Windows!Next]_vars
      /\ [Agents!Next]_agentVars /\ [Edits!Next]_editVars /\ [Walk!Next]_walkVars
  BY PartsMove
<1>2. part' = "posix" => IInv'
  BY <1>1, PosixStep DEF PartsInv
<1>3. part' = "windows" => WindowsInv'
  BY <1>1, WindowsStep DEF PartsInv
<1>4. AgentsInv' /\ EditsInv' /\ WalkInv'
  BY <1>1, AgentsStep, EditsStep, WalkStep DEF PartsInv
<1> QED
  BY <1>2, <1>3, <1>4 DEF PartsInv

(* The invariants of all the parts hold in every reachable state.          *)
THEOREM PartsStrengthening == PartsSpec => []PartsInv
  BY PartsInitInv, PartsStep, PTL DEF PartsSpec

(* What other processes and other agents wrote is kept, on POSIX and on    *)
(* Windows, and an agent writes no more than its budget                    *)
(* (posix_atomic_commit.py:221, windows_workspace_write.py:45,             *)
(* resource_budget.py:27).                                                 *)
THEOREM AllDataKept == PartsSpec => []DataKept
<1>1. PartsInv => DataKept
  <2> SUFFICES ASSUME PartsInv PROVE DataKept
    OBVIOUS
  <2>1. part = "posix" => ForeignDataKept
    BY DEF PartsInv, IInv
  <2>2. part = "windows" => Windows!ForeignDataKept
    BY DEF PartsInv, WindowsInv
  <2>3. Agents!TypeOK /\ Agents!NothingLost
    BY AgentsKeepData DEF PartsInv, AgentsInv
  <2>4. Edits!TypeOK /\ Edits!WithinBudget
    BY DEF PartsInv, EditsInv, EditsTyped, EditsPaid
  <2> QED
    BY <2>1, <2>2, <2>3, <2>4 DEF DataKept
<1> QED
  BY <1>1, PartsStrengthening, PTL

(* A report of a commit is true, on POSIX and on Windows; of the edits     *)
(* that agents make from one version at most one is reported as done, and  *)
(* what is reported as done is there; and a call in which nothing fails    *)
(* leaves no file of its own behind (file_io.py:189, 211,                  *)
(* windows_atomic_commit.py:52).                                           *)
THEOREM AllReportsAreTrue == PartsSpec => []ReportsAreTrue
<1>1. PartsInv => ReportsAreTrue
  <2> SUFFICES ASSUME PartsInv PROVE ReportsAreTrue
    OBVIOUS
  <2>1. part = "posix" => TypeOK /\ ReportIsTrue /\ NothingLeft
    BY DEF PartsInv, IInv
  <2>2. part = "windows" => Windows!TypeOK /\ Windows!ReportIsTrue /\ Windows!NothingLeft
    BY DEF PartsInv, WindowsInv
  <2>3. Agents!OneEditWins /\ Agents!DoneIsThere
    BY AgentsDoneIsThere DEF PartsInv, AgentsInv
  <2> QED
    BY <2>1, <2>2, <2>3 DEF ReportsAreTrue
<1> QED
  BY <1>1, PartsStrengthening, PTL

(* A walk finds nothing but what matches and was there, below real         *)
(* directories, and no unsafe or protected name unless a link came to      *)
(* stand on its path; of the other names it finds all that nobody touched, *)
(* or says that it may have missed something; and it closes what it        *)
(* opened, for any workspace, patterns, limits and changes by others       *)
(* (workspace_walk.py:164-182, 348; tools.py:194).                         *)
THEOREM AllWalksAreRight == PartsSpec => []WalkRight
<1>1. PartsInv => WalkRight
  BY WalkIsRight DEF PartsInv, WalkRight
<1> QED
  BY <1>1, PartsStrengthening, PTL

(* On POSIX a reader finds a file under the name at every moment; and what *)
(* an agent puts in the place of a version is that version with the edit,  *)
(* which touches the cell that it names and no other                       *)
(* (posix_atomic_commit.py:228, file_io.py:110, tools.py:133-336).         *)
THEOREM ReplacementIsRight == PartsSpec => ReplacementRight
<1>1. PartsInv /\ [PartsNext]_partVars =>
        [/\ part = "posix" /\ Tool => (dir["target"] # None => dir'["target"] # None)
         /\ part = "edits" => Edits!EditsTheCurrent /\ Edits!OnlyTheNamedCell]_<<vars, editVars>>
  <2> SUFFICES ASSUME PartsInv, [PartsNext]_partVars
               PROVE  /\ part = "posix" /\ Tool => (dir["target"] # None => dir'["target"] # None)
                      /\ part = "edits" => Edits!EditsTheCurrent /\ Edits!OnlyTheNamedCell
    OBVIOUS
  <2>1. (part = "posix" => [Next]_vars) /\ [Edits!Next]_editVars
    BY PartsMove
  <2>2. part = "posix" /\ Tool => (dir["target"] # None => dir'["target"] # None)
    BY <2>1, TargetKept DEF PartsInv
  <2>3. Edits!EditsTheCurrent
    BY <2>1, CommitsTheCurrent DEF PartsInv
  <2>4. Edits!OnlyTheNamedCell
    BY <2>1, TouchesTheNamed DEF PartsInv
  <2> QED
    BY <2>2, <2>3, <2>4
<1> QED
  BY <1>1, PartsStrengthening, PTL DEF PartsSpec, ReplacementRight

================================================================================
