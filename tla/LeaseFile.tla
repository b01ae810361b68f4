------------------------------- MODULE LeaseFile -------------------------------
(***************************************************************************)
(* The workspace lease as it lies on disk (execution_lock.py,              *)
(* lease_inheritance.py) and what ties a tool to the directory it was      *)
(* taken for (workspace_guard.py, file_io.py): a lock file per directory   *)
(* object, an advisory lock on its open file description on POSIX, an      *)
(* exclusive open on Windows, copies of the descriptor in tool children.   *)
(*                                                                         *)
(* A workspace is named by a path.  Several paths reach one directory, and *)
(* at any moment another process moves a path to another directory.        *)
(* Identities (device and inode) are the directories themselves; every     *)
(* call that inspects or opens by path sees where the path leads then.  A  *)
(* missing directory is refused like another one, and is not told apart.   *)
(***************************************************************************)
EXTENDS LeaseDomain

VARIABLES
  system,     \* os.name
  at,         \* the directory a path leads to
  phase,      \* where a server's delegation stands
  config,     \* its workspace and expected_workspace_identity
  fd,         \* the server's copy of the lease's description
  lock,       \* the directory whose lock file a description has open
  locked,     \* descriptions that hold their file's lock
  copies,     \* processes with a descriptor of a description
  step,       \* where a tool child stands
  kind,       \* what it does: work on files, or run a command
  request,    \* path, identity and description it was given
  root        \* the directory it works in

serverVars == <<phase, config, fd>>
lockVars   == <<lock, locked, copies>>
toolVars   == <<step, kind, request, root>>
vars == <<system, at, serverVars, lockVars, toolVars>>

Holding == {"locked", "running"}
Begun   == {"born", "configured", "located", "rooted", "working"}
Alive(t) == step[t] \in Begun
Places  == Dirs \cup {NoDir}
Configs == [path : Paths, token : Dirs]
Requests == [path : Paths, token : Dirs, open : Opens]

(* workspace_identity is the expected one: the name still leads there.     *)
Same(c) == at[c.path] = c.token

Init ==
  /\ system \in {"posix", "nt"}
  /\ at \in [Paths -> Dirs]
  /\ phase = [s \in Owners |-> "idle"]
  /\ config = [s \in Owners |-> NoDir]
  /\ fd = [s \in Owners |-> NoOpen]
  /\ lock = [o \in Opens |-> NoDir]
  /\ locked = {}
  /\ copies = [o \in Opens |-> {}]
  /\ step = [t \in Tools |-> "none"]
  /\ kind = [t \in Tools |-> "file"]
  /\ request = [t \in Tools |-> NoOpen]
  /\ root = [t \in Tools |-> NoDir]

-------------------------------------------------------------------------------
(* Descriptors.                                                            *)
Closed(p) == [o \in Opens |-> copies[o] \ {p}]

(* Fault: the lock is given up explicitly, whoever else has the file.      *)
Close_Unlocks(p) ==
  /\ copies' = Closed(p)
  /\ locked' = {o \in locked : p \notin copies[o]}
  /\ lock' = [o \in Opens |-> IF Closed(p)[o] = {} THEN NoDir ELSE lock[o]]

(* A description lives until its last copy is closed, and holds its lock   *)
(* until then.                                                             *)
Close(p) ==
  /\ copies' = Closed(p)
  /\ locked' = {o \in locked : Closed(p)[o] # {}}
  /\ lock' = [o \in Opens |-> IF Closed(p)[o] = {} THEN NoDir ELSE lock[o]]

(* pass_fds, or a duplicated handle that the child is to inherit           *)
Inherited(o, t) == [copies EXCEPT ![o] = @ \cup {t}]

(* The descriptions of the lock file named after a directory's identity    *)
InUse(d) == {o \in Opens : lock[o] = d}

-------------------------------------------------------------------------------
(* The server.                                                             *)

(* Config: the identity is captured when the delegation is configured      *)
Configure(s) ==
  /\ phase[s] = "idle"
  /\ \E p \in Paths :
       config' = [config EXCEPT ![s] = [path |-> p, token |-> at[p]]]
  /\ phase' = [phase EXCEPT ![s] = "configured"]
  /\ UNCHANGED <<system, at, fd, lockVars, toolVars>>

(* The first half of acquire_workspace_lease and _open_lock_file: the      *)
(* identity is compared, its lock file opened.  On Windows the open is     *)
(* exclusive and so is the lock.                                           *)
OpenLock(s) ==
  /\ phase[s] = "configured"
  /\ Same(config[s])
  /\ system = "nt" => InUse(config[s].token) = {}
  /\ \E o \in Opens :
       /\ lock[o] = NoDir
       /\ copies' = [copies EXCEPT ![o] = {s}]
       /\ lock' = [lock EXCEPT ![o] = config[s].token]
       /\ locked' = IF system = "nt" THEN locked \cup {o} ELSE locked
       /\ fd' = [fd EXCEPT ![s] = o]
  /\ phase' = [phase EXCEPT ![s] = "opened"]
  /\ UNCHANGED <<system, at, config, toolVars>>

(* Fault: the lock is taken on a file that another description has locked  *)
LockFile_Shared(s) ==
  /\ phase[s] = "opened"
  /\ locked' = locked \cup {fd[s]}
  /\ phase' = [phase EXCEPT ![s] = "locked"]
  /\ UNCHANGED <<system, at, config, fd, lock, copies, toolVars>>

(* _lock_fd: flock without waiting                                         *)
LockFile(s) ==
  /\ phase[s] = "opened"
  /\ system = "posix" => locked \cap InUse(config[s].token) = {}
  /\ locked' = locked \cup {fd[s]}
  /\ phase' = [phase EXCEPT ![s] = "locked"]
  /\ UNCHANGED <<system, at, config, fd, lock, copies, toolVars>>

(* The identity is compared again under the lock.                          *)
Acquired(s) ==
  /\ phase[s] = "locked"
  /\ Same(config[s])
  /\ phase' = [phase EXCEPT ![s] = "running"]
  /\ UNCHANGED <<system, at, config, fd, lockVars, toolVars>>

(* Every way a delegation ends: a check or a call on the lock file failed, *)
(* another execution has it, the run is over (a child that did not end is  *)
(* given up), or the server dies.  release closes its own descriptor.      *)
Release(s) ==
  /\ phase[s] # "idle"
  /\ Close(s)
  /\ phase' = [phase EXCEPT ![s] = "idle"]
  /\ config' = [config EXCEPT ![s] = NoDir]
  /\ fd' = [fd EXCEPT ![s] = NoOpen]
  /\ UNCHANGED <<system, at, toolVars>>

(* _launch_tool_call, _start_tool: the child gets a copy of the descriptor *)
LaunchTool(s, t) ==
  /\ phase[s] = "running" /\ step[t] = "none"
  /\ Same(config[s])
  /\ \E k \in {"file", "command"} : kind' = [kind EXCEPT ![t] = k]
  /\ request' = [request EXCEPT
       ![t] = [path |-> config[s].path, token |-> config[s].token,
               open |-> fd[s]]]
  /\ copies' = Inherited(fd[s], t)
  /\ step' = [step EXCEPT ![t] = "born"]
  /\ UNCHANGED <<system, at, serverVars, lock, locked, root>>

-------------------------------------------------------------------------------
(* The tool child.                                                         *)
Advance(t, from, to) ==
  /\ step[t] = from
  /\ step' = [step EXCEPT ![t] = to]
  /\ UNCHANGED <<system, at, serverVars, lockVars, kind, request>>

(* _config: the child configures itself with the token it was given        *)
ConfigureTool(t) ==
  /\ Advance(t, "born", "configured")
  /\ Same(request[t])
  /\ UNCHANGED root

(* _location and the start of a walk: the path is compared once more       *)
Locate(t) ==
  /\ Advance(t, "configured", "located")
  /\ kind[t] = "file"
  /\ Same(request[t])
  /\ UNCHANGED root

(* The root is opened under the name the path was resolved to, which may   *)
(* be any that led there: other processes move links meanwhile.            *)
OpenRoot(t) ==
  /\ Advance(t, "located", "rooted")
  /\ \E p \in Paths : root' = [root EXCEPT ![t] = at[p]]

(* Fault: what was opened is not inspected.                                *)
CheckRoot_Trusted(t) ==
  /\ Advance(t, "rooted", "working")
  /\ UNCHANGED root

(* require_workspace_stat on the open directory, and the final path of the *)
(* open handle on Windows; from here all is done below this descriptor.    *)
CheckRoot(t) ==
  /\ Advance(t, "rooted", "working")
  /\ root[t] = request[t].token
  /\ UNCHANGED root

(* _start_host_command: the shell starts in the directory under the path   *)
RunCommand(t) ==
  /\ Advance(t, "configured", "working")
  /\ kind[t] = "command"
  /\ root' = [root EXCEPT ![t] = at[request[t].path]]

(* The child answers, fails a check or is killed, its server being there   *)
(* or not: its descriptors are closed.                                     *)
EndTool(t) ==
  /\ Alive(t)
  /\ Close(t)
  /\ step' = [step EXCEPT ![t] = "none"]
  /\ root' = [root EXCEPT ![t] = NoDir]
  /\ request' = [request EXCEPT ![t] = NoOpen]
  /\ kind' = [kind EXCEPT ![t] = "file"]
  /\ UNCHANGED <<system, at, serverVars>>

-------------------------------------------------------------------------------
(* Another process moves a directory, or a link to one.                    *)
Move ==
  /\ \E p \in Paths, d \in Dirs : at[p] # d /\ at' = [at EXCEPT ![p] = d]
  /\ UNCHANGED <<system, serverVars, lockVars, toolVars>>

Next ==
  \/ Move
  \/ \E s \in Owners :
       \/ Configure(s) \/ OpenLock(s) \/ LockFile(s) \/ Acquired(s) \/ Release(s)
       \/ \E t \in Tools : LaunchTool(s, t)
  \/ \E t \in Tools :
       \/ ConfigureTool(t) \/ Locate(t) \/ OpenRoot(t) \/ CheckRoot(t)
       \/ RunCommand(t) \/ EndTool(t)

Spec == Init /\ [][Next]_vars

-------------------------------------------------------------------------------
TypeOK ==
  /\ system \in {"posix", "nt"}
  /\ at \in [Paths -> Dirs]
  /\ phase \in [Owners -> Holding \cup {"idle", "configured", "opened"}]
  /\ config \in [Owners -> Configs \cup {NoDir}]
  /\ fd \in [Owners -> Opens \cup {NoOpen}]
  /\ lock \in [Opens -> Places]
  /\ locked \in SUBSET Opens
  /\ copies \in [Opens -> SUBSET (Owners \cup Tools)]
  /\ step \in [Tools -> Begun \cup {"none"}]
  /\ kind \in [Tools -> {"file", "command"}]
  /\ request \in [Tools -> Requests \cup {NoOpen}]
  /\ root \in [Tools -> Places]

(* Two executions never have one directory at once, under whatever paths   *)
(* they reach it, and a child that outlives its server keeps it taken      *)
(* (execution_lock.py:302).                                                *)
OneExecution ==
  /\ \A s, z \in Owners :
       phase[s] \in Holding /\ phase[z] \in Holding /\ config[s].token = config[z].token => s = z
  /\ \A t \in Tools, s \in Owners :
       Alive(t) /\ phase[s] \in Holding /\ config[s].token = request[t].token
         => fd[s] = request[t].open

(* A tool on files works in the directory whose lease it holds, and no     *)
(* tool of another delegation works there, though paths move between any   *)
(* two of its steps (workspace_guard.py:72, file_io.py:65).                *)
WorksInLease ==
  /\ \A t \in Tools : step[t] = "working" /\ kind[t] = "file" =>
       /\ request[t].open \in locked
       /\ root[t] = lock[request[t].open]
  /\ \A t, u \in Tools :
       /\ step[t] = "working" /\ kind[t] = "file"
       /\ Alive(u) /\ request[u].token = root[t]
       => request[u].open = request[t].open

(* The lease is exact: one execution in a directory, and its tools in the  *)
(* directory of its lease.                                                 *)
LeaseExact == TypeOK /\ OneExecution /\ WorksInLease
================================================================================
