------------------------------- MODULE PrivateLog ------------------------------
(***************************************************************************)
(* The bounded logs of the MCP servers (private_logging.py): every server  *)
(* has a descriptor of its own for one file that any of them may rotate    *)
(* away, and appends under one lock file.  A record is two chunks, which   *)
(* os.write may take one at a time; sizes are counted in chunks.           *)
(***************************************************************************)
EXTENDS Integers, Sequences

CONSTANTS Servers,
          Records,
          MaxChunks,    \* MAX_LOG_BYTES
          MaxFiles,     \* files that are ever created under the name
          Rotates,      \* rotate_on_full: TRUE of usage.log, FALSE of server.log
          None

VARIABLES
  content,   \* the chunks of each file
  log,       \* the file under the name, or None
  rotated,   \* the file under the rotated name, or None
  flock,     \* the server that holds the lock file, or None
  pc,        \* where a server stands in write
  fd,        \* its descriptor: a file or None
  record,    \* what it is writing
  chunks,    \* chunks that it has written of it
  confirmed, \* record -> the file where write() left it whole, or None
  torn,      \* records that a write put into a file and did not confirm
  removed    \* files that the user removed (not in the code)

disk   == <<content, log, rotated>>
server == <<pc, fd, record, chunks>>
vars   == <<disk, flock, server, confirmed, torn, removed>>

Files == 1 .. MaxFiles
Size(f) == Len(content[f])
Unused == {f \in Files : content[f] = <<>> /\ f \notin {log, rotated}
                         /\ \A s \in Servers : fd[s] # f}

(* What the processes of an older version, or the user, left: any length.  *)
Init ==
  /\ \E n \in 0 .. MaxChunks + 1 :
       content = [f \in Files |-> IF f = 1 THEN [i \in 1 .. n |-> None] ELSE <<>>]
  /\ log = 1 /\ rotated = None /\ flock = None
  /\ pc = [s \in Servers |-> "idle"] /\ fd = [s \in Servers |-> None]
  /\ record = [s \in Servers |-> None] /\ chunks = [s \in Servers |-> 0]
  /\ confirmed = [r \in Records |-> None] /\ torn = {} /\ removed = {}

Goes(s, where) == pc' = [pc EXCEPT ![s] = where]

-------------------------------------------------------------------------------
(* write, by server s, of a record that has not been written or begun.     *)

Write(s, r) ==
  /\ pc[s] = "idle" /\ confirmed[r] = None /\ r \notin torn
  /\ \A t \in Servers : record[t] # r
  /\ Goes(s, "lock")
  /\ record' = [record EXCEPT ![s] = r] /\ chunks' = [chunks EXCEPT ![s] = 0]
  /\ UNCHANGED <<disk, flock, fd, confirmed, torn, removed>>

(* Fault: the transaction does not wait.                                   *)
Lock_NoWait(s) ==
  /\ pc[s] = "lock" /\ flock' = s /\ Goes(s, "refresh")
  /\ UNCHANGED <<disk, fd, record, chunks, confirmed, torn, removed>>

Lock(s) ==
  /\ pc[s] = "lock" /\ flock = None
  /\ flock' = s /\ Goes(s, "refresh")
  /\ UNCHANGED <<disk, fd, record, chunks, confirmed, torn, removed>>

(* The name is opened, and created when it is gone.                        *)
Opened(s, name) ==
  IF name # None THEN log' = name /\ fd' = [fd EXCEPT ![s] = name]
  ELSE \E f \in Unused : log' = f /\ fd' = [fd EXCEPT ![s] = f]

(* Fault: an open descriptor is taken for the file under the name.         *)
Refresh_Stale(s) ==
  /\ pc[s] = "refresh"
  /\ IF fd[s] # None THEN UNCHANGED <<log, fd>> ELSE Opened(s, log)
  /\ Goes(s, "fit")
  /\ UNCHANGED <<content, rotated, flock, record, chunks, confirmed, torn, removed>>

(* Fault: after too long a file was closed the rotation is forgotten.      *)
Refresh_Closed(s) ==
  /\ pc[s] = "refresh"
  /\ IF log # None /\ Size(log) > MaxChunks
     THEN fd' = [fd EXCEPT ![s] = None] /\ UNCHANGED log ELSE Opened(s, log)
  /\ Goes(s, "fit")
  /\ UNCHANGED <<content, rotated, flock, record, chunks, confirmed, torn, removed>>

(* _refresh_log_locked: a descriptor of another file, or of one that is    *)
(* too long, is closed, and the name is opened.  Too long a file is        *)
(* rotated in either mode.                                                 *)
Refresh(s) ==
  /\ pc[s] = "refresh"
  /\ IF log # None /\ Size(log) > MaxChunks
     THEN fd' = [fd EXCEPT ![s] = None] /\ Goes(s, "rotate") /\ UNCHANGED log
     ELSE Opened(s, log) /\ Goes(s, "fit")
  /\ UNCHANGED <<content, rotated, flock, record, chunks, confirmed, torn, removed>>

(* os.replace of _rotate_locked.                                           *)
Rotate(s) ==
  /\ pc[s] = "rotate" /\ log # None
  /\ rotated' = log /\ log' = None
  /\ fd' = [fd EXCEPT ![s] = None] /\ Goes(s, "create")
  /\ UNCHANGED <<content, flock, record, chunks, confirmed, torn, removed>>

(* ... and the open that follows.                                          *)
Create(s) ==
  /\ pc[s] = "create" /\ Opened(s, log) /\ Goes(s, "fit")
  /\ UNCHANGED <<content, rotated, flock, record, chunks, confirmed, torn, removed>>

(* Fault: the length of the record is not counted.                         *)
Fits_Any(s) == Size(fd[s]) < MaxChunks

Fits(s) == Size(fd[s]) + 2 <= MaxChunks

Fit(s) ==
  /\ pc[s] = "fit"
  /\ Goes(s, CASE Fits(s) -> "append" [] ~Fits(s) /\ Rotates -> "rotate"
               [] OTHER -> "unlock")
  /\ UNCHANGED <<disk, flock, fd, record, chunks, confirmed, torn, removed>>

(* One os.write of _write_all.                                             *)
AppendChunk(s) ==
  /\ pc[s] = "append" /\ chunks[s] < 2
  /\ content' = [content EXCEPT ![fd[s]] = Append(@, record[s])]
  /\ chunks' = [chunks EXCEPT ![s] = @ + 1]
  /\ UNCHANGED <<log, rotated, flock, pc, fd, record, confirmed, torn, removed>>

Written(s) ==
  /\ pc[s] = "append" /\ chunks[s] = 2 /\ Goes(s, "unlock")
  /\ confirmed' = [confirmed EXCEPT ![record[s]] = fd[s]]
  /\ UNCHANGED <<disk, flock, fd, record, chunks, torn, removed>>

Torn(s) == IF chunks[s] > 0 THEN torn \cup {record[s]} ELSE torn

(* A system call fails: the lock is given back, and the caller hears of it.*)
Fails(s) ==
  /\ \/ pc[s] \in {"refresh", "rotate", "create"}
     \/ pc[s] = "append" /\ chunks[s] < 2
  /\ Goes(s, "unlock") /\ torn' = Torn(s)
  /\ UNCHANGED <<disk, flock, fd, record, chunks, confirmed, removed>>

Unlock(s) ==
  /\ pc[s] = "unlock" /\ flock' = (IF flock = s THEN None ELSE flock) /\ Goes(s, "idle")
  /\ record' = [record EXCEPT ![s] = None] /\ chunks' = [chunks EXCEPT ![s] = 0]
  /\ UNCHANGED <<disk, fd, confirmed, torn, removed>>

(* The process is killed; another takes its place.                         *)
Killed(s) ==
  /\ pc[s] # "idle"
  /\ flock' = (IF flock = s THEN None ELSE flock) /\ Goes(s, "idle")
  /\ fd' = [fd EXCEPT ![s] = None] /\ record' = [record EXCEPT ![s] = None]
  /\ chunks' = [chunks EXCEPT ![s] = 0]
  /\ torn' = IF pc[s] = "append" THEN Torn(s) ELSE torn
  /\ UNCHANGED <<disk, confirmed, removed>>

(* The user removes the log; the lock file does not keep anyone from that. *)
RemoveLog ==
  /\ log # None /\ log' = None /\ removed' = removed \cup {log}
  /\ UNCHANGED <<content, rotated, flock, server, confirmed, torn>>

-------------------------------------------------------------------------------
Next == \/ \E s \in Servers :
             \/ \E r \in Records : Write(s, r)
             \/ Lock(s) \/ Refresh(s) \/ Rotate(s) \/ Create(s) \/ Fit(s)
             \/ AppendChunk(s) \/ Written(s) \/ Fails(s) \/ Unlock(s) \/ Killed(s)
        \/ RemoveLog

Spec == Init /\ [][Next]_vars

-------------------------------------------------------------------------------
(* Properties.                                                             *)

TypeOK ==
  /\ content \in [Files -> Seq(Records \cup {None})]
  /\ log \in Files \cup {None} /\ rotated \in Files \cup {None}
  /\ flock \in Servers \cup {None}
  /\ pc \in [Servers -> {"idle", "lock", "refresh", "rotate", "create", "fit",
                         "append", "unlock"}]
  /\ fd \in [Servers -> Files \cup {None}]
  /\ record \in [Servers -> Records \cup {None}]
  /\ chunks \in [Servers -> 0 .. 2]
  /\ confirmed \in [Records -> Files \cup {None}]
  /\ torn \subseteq Records /\ removed \subseteq Files
  /\ \A s \in Servers : pc[s] \in {"fit", "append"} => fd[s] # None

Places(r) == {p \in Files \X (1 .. MaxChunks + 1) :
                p[2] <= Size(p[1]) /\ content[p[1]][p[2]] = r}

(* A record that was confirmed is in one piece, though others append to    *)
(* the same file, and it is there once (private_logging.py:142-165).       *)
ConfirmedWhole == \A r \in Records : confirmed[r] # None =>
  \E p \in Places(r) : p[1] = confirmed[r] /\ Places(r) = {p, <<p[1], p[2] + 1>>}

(* No file that the servers write outgrows the limit, whoever of them      *)
(* computed what remains (private_logging.py:150-156).                     *)
NeverTooLong == \A f \in Files \ {1} : Size(f) <= MaxChunks

(* A record is confirmed in the file that readers find under the name, and *)
(* not in one that another server has rotated away; only the user can      *)
(* remove that file from under the writer (private_logging.py:97-113).     *)
ConfirmedInPlace == \A r \in Records :
  confirmed'[r] # confirmed[r] => confirmed'[r] = log \/ confirmed'[r] \in removed

(* The file that a rotation drops is followed by a full one: two servers   *)
(* that found the log full together do not rotate twice and lose the       *)
(* older records (private_logging.py:115-125).                             *)
FullIsRotated == rotated' # rotated =>
  Size(log) + 2 > MaxChunks /\ (Rotates \/ Size(log) > MaxChunks)
================================================================================
