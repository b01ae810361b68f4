----------------------------- MODULE MemoryIndex ------------------------------
(***************************************************************************)
(* The conductor's overlays, which guide the builders of one alias or one  *)
(* pair, and the full-text index over overlays and canonical memory        *)
(* (overlay_state.py, retrieval.py).                                       *)
(*                                                                         *)
(* An upsert reads the row of its name in one step and writes in another;  *)
(* the columns of the two overlay tables have no unique constraint.  A     *)
(* refresh deletes and rebuilds the entries of a repository in one SQLite  *)
(* transaction, which begins with a write and so excludes other writers:   *)
(* one step here.  A key is the table, the repository and the name of an   *)
(* overlay; its text is the request that wrote it.                         *)
(***************************************************************************)
EXTENDS Naturals, Sequences, FiniteSets

CONSTANTS Upserts,      \* requests to set an overlay
          Repos, Keys,  \* repositories and names of overlays in them
          Owner(_),     \* the repository of a key
          Tasks,        \* tasks that overlays may be restricted to
          MaxMemory     \* bound: rows of canonical memory

VARIABLES asks,       \* [u |-> the key, the tasks and whether the text is blank]
          step,       \* [u |-> "idle", "update", "insert", "done" or "failed"]
          target,     \* [u |-> the row that an update writes]
          rows,       \* overlay rows, in the order of their ids
          memory,     \* rows of canonical memory: their repository and text
          index,      \* memory_fts: [entry |-> how many rows it has]
          overlapped, \* history: keys with upserts that overlapped
          last,       \* history: [key |-> the last upsert that was answered]
          fresh       \* history: repositories refreshed since their last write

indexVars == <<asks, step, target, rows, memory, index, overlapped, last, fresh>>

None == "none"

Init ==
  /\ asks \in [Upserts -> [key : Keys, tasks : {{}, Tasks}, blank : BOOLEAN]]
  /\ step = [u \in Upserts |-> "idle"] /\ target = [u \in Upserts |-> 0]
  /\ rows = <<>> /\ memory = <<>> /\ index = [e \in {} |-> 0]
  /\ overlapped = {} /\ last = [k \in Keys |-> None] /\ fresh = {}

Key(u) == asks[u].key

\* fetchone of the rows of a name: the one with the lowest id; 0 if there is none.
RowOf(key) ==
  IF \E i \in DOMAIN rows : rows[i].key = key
  THEN CHOOSE i \in DOMAIN rows :
         rows[i].key = key /\ \A j \in 1..(i - 1) : rows[j].key # key
  ELSE 0

-------------------------------------------------------------------------------
\* POST /memory/overlay/alias and /memory/overlay/pair.

Under(u) == step[u] \in {"update", "insert"}

UpsertSelect(u) ==
  /\ step[u] = "idle"
  /\ target' = [target EXCEPT ![u] = RowOf(Key(u))]
  /\ step' = [step EXCEPT ![u] = IF RowOf(Key(u)) = 0 THEN "insert" ELSE "update"]
  /\ overlapped' = IF \E v \in Upserts : Under(v) /\ Key(v) = Key(u)
                   THEN overlapped \cup {Key(u)} ELSE overlapped
  /\ UNCHANGED <<asks, rows, memory, index, last, fresh>>

UpsertWrite_Insert(u) ==
  /\ Under(u) /\ step' = [step EXCEPT ![u] = "done"]
  /\ rows' = Append(rows, [key |-> Key(u), by |-> u])
  /\ last' = [last EXCEPT ![Key(u)] = u] /\ fresh' = fresh \ {Owner(Key(u))}
  /\ UNCHANGED <<asks, target, memory, index, overlapped>>

UpsertWrite(u) ==
  /\ Under(u) /\ step' = [step EXCEPT ![u] = "done"]
  /\ rows' = IF step[u] = "insert" THEN Append(rows, [key |-> Key(u), by |-> u])
             ELSE [rows EXCEPT ![target[u]].by = u]
  /\ last' = [last EXCEPT ![Key(u)] = u] /\ fresh' = fresh \ {Owner(Key(u))}
  /\ UNCHANGED <<asks, target, memory, index, overlapped>>

\* Another writer holds the database for too long, or the process ends.
UpsertFails(u) ==
  /\ Under(u) /\ step' = [step EXCEPT ![u] = "failed"]
  /\ UNCHANGED <<asks, target, rows, memory, index, overlapped, last, fresh>>

\* Another part of the conductor writes memory, maybe without a text.
MemoryWritten(repo, blank) ==
  /\ Len(memory) < MaxMemory
  /\ memory' = Append(memory, [repo |-> repo, blank |-> blank])
  /\ fresh' = fresh \ {repo}
  /\ UNCHANGED <<asks, step, target, rows, index, overlapped, last>>

\* POST /memory/ingest: what the tables have of a repository, rows without a
\* text left out.
MemoryEntries(repo) ==
  {[source |-> "memory", id |-> i, repo |-> repo, by |-> None] :
     i \in {i \in DOMAIN memory : memory[i].repo = repo /\ ~memory[i].blank}}

OverlayEntries(repo) ==
  {[source |-> "overlay", id |-> i, repo |-> repo, by |-> rows[i].by] :
     i \in {i \in DOMAIN rows : Owner(rows[i].key) = repo /\ ~asks[rows[i].by].blank}}

Entries(repo) == MemoryEntries(repo) \cup OverlayEntries(repo)

Refresh_Adds(repo) ==
  /\ index' = [e \in DOMAIN index \cup Entries(repo) |->
                 (IF e \in DOMAIN index THEN index[e] ELSE 0)
                   + (IF e \in Entries(repo) THEN 1 ELSE 0)]
  /\ fresh' = fresh \cup {repo}
  /\ UNCHANGED <<asks, step, target, rows, memory, overlapped, last>>

Refresh(repo) ==
  /\ index' = [e \in {e \in DOMAIN index : e.repo # repo} \cup Entries(repo) |->
                 IF e.repo = repo THEN 1 ELSE index[e]]
  /\ fresh' = fresh \cup {repo}
  /\ UNCHANGED <<asks, step, target, rows, memory, overlapped, last>>

Next ==
  \/ \E u \in Upserts : UpsertSelect(u) \/ UpsertWrite(u) \/ UpsertFails(u)
  \/ \E repo \in Repos : Refresh(repo) \/ \E blank \in BOOLEAN : MemoryWritten(repo, blank)

Spec == Init /\ [][Next]_indexVars

-------------------------------------------------------------------------------
\* What a builder's prompt gets for its key and task, and what a query finds.

Applies(u, task) == asks[u].tasks = {} \/ task \in asks[u].tasks

Resolved(key, task) ==
  LET i == RowOf(key)
  IN IF i # 0 /\ Applies(rows[i].by, task) THEN {rows[i].by} ELSE {}

Relevant(e, key, task) ==
  \/ e.source = "memory"
  \/ e.source = "overlay" /\ e.repo = Owner(key) /\ Key(e.by) = key /\ Applies(e.by, task)

Hits(key, task) == {e \in DOMAIN index : Relevant(e, key, task)}

-------------------------------------------------------------------------------
TypeOK ==
  /\ step \in [Upserts -> {"idle", "update", "insert", "done", "failed"}]
  /\ \A i \in DOMAIN rows : rows[i].key = Key(rows[i].by)
  /\ \A u \in Upserts : target[u] # 0 => rows[target[u]].key = Key(u)

(* A builder is guided by the last overlay that was stored for its key,    *)
(* unless two requests for it overlapped (overlay_state.py:53).            *)
LastIsResolved ==
  \A k \in Keys \ overlapped, t \in Tasks \cup {None} :
    Resolved(k, t) = {u \in Upserts : u = last[k] /\ Applies(u, t)}

(* In a repository refreshed since its last write, a query finds each      *)
(* memory with a text once, and of the overlays what guides the builder;   *)
(* refreshing another repository changes nothing in it                     *)
(* (retrieval.py:132, 262).                                                *)
IndexIsCurrent ==
  \A r \in fresh :
    /\ \A i \in {i \in DOMAIN memory : memory[i].repo = r /\ ~memory[i].blank} :
         \E e \in DOMAIN index :
           {f \in DOMAIN index : f.source = "memory" /\ f.id = i} = {e} /\ index[e] = 1
    /\ \A k \in {k \in Keys \ overlapped : Owner(k) = r}, t \in Tasks \cup {None} :
         LET found == {e \in Hits(k, t) : e.source = "overlay"}
             guide == {u \in Resolved(k, t) : ~asks[u].blank}
         IN /\ {e.by : e \in found} = guide /\ Cardinality(found) = Cardinality(guide)
            /\ \A e \in found : index[e] = 1
================================================================================
