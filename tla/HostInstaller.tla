----------------------------- MODULE HostInstaller -----------------------------
(***************************************************************************)
(* Installing and uninstalling the MCP server for a host: a run takes the  *)
(* host's lock (a directory), builds a generation of the runtime of its    *)
(* own, writes the configuration if there is none, switches the host's     *)
(* registration to the generation and prunes old ones; its EXIT trap undoes*)
(* what did not succeed (install.sh, uninstall.sh, adapters/codex/*.sh,    *)
(* scripts/installer_path_guard.py).                                       *)
(*                                                                         *)
(* Claude's registration is removed and added by commands of its own, which*)
(* may fail with or without effect; that of Codex is replaced at once      *)
(* (CodexConfig).  Each host has its lock, its registration and its        *)
(* generations; both share the configuration file.                         *)
(***************************************************************************)
EXTENDS Naturals, FiniteSets, Sequences

CONSTANTS Runs,       \* runs of an installer; each names the generation it makes
          None,       \* no registration, no file, no owner
          Other,      \* a registration or configuration made by somebody else
          MaxFaults,  \* bound: commands that fail, signals, changes by somebody else
          MaxOutside  \* bound: changes by somebody else among them

VARIABLES host, what,  \* "claude" or "codex"; "install" or "uninstall"
          step,        \* where a run stands
          before,      \* the registration it found, Other if there is no host program
          switching,   \* REGISTRATION_TRANSACTION, CONFIG_MUTATED
          preserve,    \* PRESERVE_GENERATION: undoing failed
          succeeded,   \* INSTALL_SUCCEEDED, UNINSTALL_SUCCEEDED
          deaf,        \* signals are ignored
          lock,        \* the run that made the lock directory
          registered,  \* the generation that the host starts
          runtime,     \* a generation: "none", "partial" or "complete"
          born,        \* generations in the order of their creation
          settings,    \* who ever wrote config.json
          origin,      \* history: the registration when the lock was taken
          faults, outside

runVars == <<host, what, step, before, switching, preserve, succeeded, deaf>>
vars == <<runVars, lock, registered, runtime, born, settings, origin, faults, outside>>

Hosts == {"claude", "codex"}

Init ==
  /\ host = [r \in Runs |-> "claude"] /\ what = [r \in Runs |-> "install"]
  /\ step = [r \in Runs |-> "idle"] /\ before = [r \in Runs |-> None]
  /\ switching = [r \in Runs |-> FALSE] /\ preserve = [r \in Runs |-> FALSE]
  /\ succeeded = [r \in Runs |-> FALSE] /\ deaf = [r \in Runs |-> FALSE]
  /\ lock = [h \in Hosts |-> None] /\ registered = [h \in Hosts |-> None]
  /\ runtime = [r \in Runs |-> "none"] /\ born = <<>> /\ settings = {}
  /\ origin = [h \in Hosts |-> None]
  /\ faults = 0 /\ outside = 0

-------------------------------------------------------------------------------
Works == UNCHANGED faults
Fails == faults + outside < MaxFaults /\ faults' = faults + 1
Refused(bad) == (bad /\ Works) \/ Fails

Goto(r, label) == step' = [step EXCEPT ![r] = label]
Current(r) == registered[host[r]]
Register(r, g) == registered' = [registered EXCEPT ![host[r]] = g]
\* The process ends, and its variables with it.
Gone(r, label) ==
  /\ Goto(r, label) /\ what' = [what EXCEPT ![r] = "install"]
  /\ before' = [before EXCEPT ![r] = None]
  /\ switching' = [switching EXCEPT ![r] = FALSE]
  /\ preserve' = [preserve EXCEPT ![r] = FALSE]
  /\ succeeded' = [succeeded EXCEPT ![r] = FALSE] /\ deaf' = [deaf EXCEPT ![r] = FALSE]
Preserve(r) == preserve' = [preserve EXCEPT ![r] = TRUE]

\* A directory or a file of the home that is not private and real is refused.
Refuse(r) ==
  /\ step[r] = "idle" /\ Gone(r, "done") /\ Fails
  /\ UNCHANGED <<host, lock, registered, runtime, born, settings, origin, outside>>

\* mkdir: the lock is there, or it is not.
Lock(r) ==
  /\ step[r] = "idle"
  /\ \E h \in Hosts, w \in {"install", "uninstall"} :
       /\ host' = [host EXCEPT ![r] = h]
       /\ IF lock[h] = None
          THEN /\ lock' = [lock EXCEPT ![h] = r] /\ what' = [what EXCEPT ![r] = w]
               /\ origin' = [origin EXCEPT ![h] = registered[h]]
               /\ Goto(r, IF h = "claude" THEN "snapshot"
                          ELSE IF w = "install" THEN "make" ELSE "configure")
          ELSE Goto(r, "done") /\ UNCHANGED <<what, lock, origin>>
  /\ UNCHANGED <<before, switching, preserve, succeeded, deaf, registered,
                 runtime, born, settings, faults, outside>>

\* Somebody else's registration is never touched; without Claude there is none.
Snapshot(r) ==
  /\ step[r] = "snapshot"
  /\ \/ /\ Current(r) # Other /\ before' = [before EXCEPT ![r] = Current(r)]
        /\ Goto(r, IF what[r] = "install" THEN "make" ELSE "check") /\ Works
     \/ /\ what[r] = "install" /\ before' = [before EXCEPT ![r] = Other]
        /\ Goto(r, "make") /\ Fails
     \/ Refused(Current(r) = Other) /\ Goto(r, "exit") /\ UNCHANGED before
  /\ UNCHANGED <<host, what, switching, preserve, succeeded, deaf, lock, registered,
                 runtime, born, settings, origin, outside>>

MakeGeneration(r) ==
  /\ step[r] = "make" /\ Goto(r, "build")
  /\ runtime' = [runtime EXCEPT ![r] = "partial"] /\ born' = Append(born, r)
  /\ UNCHANGED <<host, what, before, switching, preserve, succeeded, deaf, lock,
                 registered, settings, origin, faults, outside>>

\* venv, validate_venv_python, pip and mcp_smoke.
Build(r) ==
  /\ step[r] = "build"
  /\ \/ runtime' = [runtime EXCEPT ![r] = "complete"] /\ Goto(r, "look") /\ Works
     \/ Fails /\ Goto(r, "exit") /\ UNCHANGED runtime
  /\ UNCHANGED <<host, what, before, switching, preserve, succeeded, deaf, lock,
                 registered, born, settings, origin, outside>>

-------------------------------------------------------------------------------
\* The configuration: looked for, then published under a name that must be free.

Switch(r) == IF host[r] = "codex" THEN "configure"
             ELSE IF before[r] = Other THEN "finish" ELSE "check"

LookForSettings(r) ==
  /\ step[r] = "look" /\ Goto(r, IF settings = {} THEN "publish" ELSE Switch(r))
  /\ UNCHANGED <<host, what, before, switching, preserve, succeeded, deaf, lock,
                 registered, runtime, born, settings, origin, faults, outside>>

\* Fault: published by a rename.
Publish_Replaces(r) ==
  /\ step[r] = "publish" /\ settings' = settings \cup {r} /\ Goto(r, Switch(r))
  /\ UNCHANGED <<host, what, before, switching, preserve, succeeded, deaf, lock,
                 registered, runtime, born, origin, faults, outside>>

\* write_exclusive: os.link refuses a name that has appeared.
Publish(r) ==
  /\ step[r] = "publish"
  /\ \/ settings = {} /\ settings' = {r} /\ Goto(r, Switch(r)) /\ Works
     \/ settings = {} /\ settings' = {r} /\ Goto(r, "exit") /\ Fails
     \/ Refused(settings # {}) /\ Goto(r, "exit") /\ UNCHANGED settings
  /\ UNCHANGED <<host, what, before, switching, preserve, succeeded, deaf, lock,
                 registered, runtime, born, origin, outside>>

-------------------------------------------------------------------------------
\* The registration of Claude: compared, removed, compared, added, compared.

\* A command works, or fails, and a failing one may have done its work.
Command(r, possible, value, next) ==
  \/ possible /\ Register(r, value) /\ Goto(r, next) /\ Works
  \/ possible /\ Register(r, value) /\ Goto(r, "exit") /\ Fails
  \/ Refused(~possible) /\ Goto(r, "exit") /\ UNCHANGED registered

Check(r) ==
  /\ step[r] = "check"
  /\ \/ /\ Current(r) = before[r] /\ Works
        /\ Goto(r, IF before[r] # None THEN "remove"
                   ELSE IF what[r] = "install" THEN "add" ELSE "finish")
        /\ switching' = [switching EXCEPT ![r] = before[r] # None \/ what[r] = "install"]
     \/ /\ Refused(Current(r) # before[r]) /\ Goto(r, "exit")
        /\ switching' = [switching EXCEPT ![r] = what[r] = "install"]
  /\ UNCHANGED <<host, what, before, preserve, succeeded, deaf, lock, registered,
                 runtime, born, settings, origin, outside>>

Remove(r) ==
  /\ step[r] = "remove" /\ Command(r, Current(r) # None, None, "gone")
  /\ UNCHANGED <<host, what, before, switching, preserve, succeeded, deaf, lock,
                 runtime, born, settings, origin, outside>>

VerifyGone(r) ==
  /\ step[r] = "gone"
  /\ \/ /\ Current(r) = None /\ Works
        /\ Goto(r, IF what[r] = "install" THEN "add" ELSE "finish")
     \/ Refused(Current(r) # None) /\ Goto(r, "exit")
  /\ UNCHANGED <<host, what, before, switching, preserve, succeeded, deaf, lock,
                 registered, runtime, born, settings, origin, outside>>

Add(r) ==
  /\ step[r] = "add" /\ Command(r, Current(r) = None, r, "verify")
  /\ UNCHANGED <<host, what, before, switching, preserve, succeeded, deaf, lock,
                 runtime, born, settings, origin, outside>>

\* Codex: the configuration is replaced at once, unless the entry is somebody else's;
\* uninstalling runs in one of the generations.
Configure(r) ==
  /\ step[r] = "configure"
  /\ LET new == IF what[r] = "install" THEN r ELSE None
         able == Current(r) # Other
                   /\ \E g \in Runs : host[g] = "codex" /\ runtime[g] = "complete"
     IN \/ /\ able /\ Register(r, new) /\ Works /\ Goto(r, "verify")
           /\ before' = [before EXCEPT ![r] = Current(r)]
           /\ switching' = [switching EXCEPT ![r] = TRUE]
        \/ /\ Refused(~able) /\ Goto(r, "exit")
           /\ UNCHANGED <<before, switching, registered>>
  /\ UNCHANGED <<host, what, preserve, succeeded, deaf, lock, runtime, born, settings,
                 origin, outside>>

Verify(r) ==
  /\ step[r] = "verify"
  /\ LET new == IF what[r] = "install" THEN r ELSE None
     IN \/ Current(r) = new /\ Works /\ Goto(r, "finish")
        \/ Refused(Current(r) # new) /\ Goto(r, "exit")
  /\ UNCHANGED <<host, what, before, switching, preserve, succeeded, deaf, lock,
                 registered, runtime, born, settings, origin, outside>>

\* Success and the end of the transaction are one command.
Finish(r) ==
  /\ step[r] = "finish"
  /\ succeeded' = [succeeded EXCEPT ![r] = TRUE]
  /\ switching' = [switching EXCEPT ![r] = FALSE]
  /\ Goto(r, IF what[r] = "install" /\ before[r] # Other THEN "prune" ELSE "exit")
  /\ UNCHANGED <<host, what, before, preserve, deaf, lock, registered, runtime, born,
                 settings, origin, faults, outside>>

-------------------------------------------------------------------------------
\* prune_generations: this one and the newest of the others are kept.

Siblings(r) == {g \in Runs : host[g] = host[r] /\ runtime[g] # "none"}
Order(g) == CHOOSE i \in 1 .. Len(born) : born[i] = g
Newest(S) == {g \in S : \A f \in S : Order(f) <= Order(g)}

\* Fault: the newest generation is taken for the one to keep.
Superfluous_Oldest(r) == Siblings(r) \ {CHOOSE g \in Siblings(r) : \A f \in Siblings(r) :
                                          Order(g) <= Order(f)}
Superfluous(r) == Siblings(r) \ ({r} \cup Newest(Siblings(r) \ {r}))

Prune(r) ==
  /\ step[r] = "prune" /\ Goto(r, "exit")
  /\ \E S \in SUBSET Superfluous(r), left \in {"none", "partial"} :
       /\ IF S = Superfluous(r) /\ left = "none" THEN Works ELSE Fails
       /\ runtime' = [g \in Runs |-> IF g \in S THEN left ELSE runtime[g]]
  /\ UNCHANGED <<host, what, before, switching, preserve, succeeded, deaf, lock,
                 registered, born, settings, origin, outside>>

-------------------------------------------------------------------------------
\* on_exit

Exit(r) ==
  /\ step[r] = "exit"
  /\ switching' = [switching EXCEPT ![r] = FALSE]
  /\ deaf' = [deaf EXCEPT ![r] = host[r] = "codex" \/ switching[r]]
  /\ Goto(r, IF switching[r] /\ ~succeeded[r] THEN "restore" ELSE "cleanup")
  /\ UNCHANGED <<host, what, before, preserve, succeeded, lock, registered, runtime,
                 born, settings, origin, faults, outside>>

\* restore_registration; configure.py rollback, which refuses a newer text.
Restore(r) ==
  /\ step[r] = "restore"
  /\ LET claude == host[r] = "claude"
         new == IF what[r] = "install" THEN r ELSE None
         known == IF claude THEN {before[r], r, None} ELSE {new}
     IN \/ /\ Fails /\ Preserve(r) /\ Goto(r, "cleanup")
           /\ UNCHANGED registered \/ (claude /\ Current(r) = r /\ Register(r, None))
        \/ /\ claude /\ Current(r) = before[r] /\ Works
           /\ Goto(r, "cleanup") /\ UNCHANGED <<registered, preserve>>
        \/ /\ claude /\ Current(r) \in {r, None} \ {before[r]} /\ Works
           /\ Register(r, None) /\ Goto(r, "again") /\ UNCHANGED preserve
        \/ /\ ~claude /\ Current(r) = new /\ Works
           /\ Register(r, before[r]) /\ Goto(r, "cleanup") /\ UNCHANGED preserve
        \/ /\ Current(r) \notin known /\ Works
           /\ Preserve(r) /\ Goto(r, "cleanup") /\ UNCHANGED registered
  /\ UNCHANGED <<host, what, before, switching, succeeded, deaf, lock, runtime, born,
                 settings, origin, outside>>

AddAgain(r) ==
  /\ step[r] = "again" /\ Goto(r, "cleanup")
  /\ \/ /\ Current(r) = None /\ Register(r, before[r]) /\ Works /\ UNCHANGED preserve
     \/ /\ Refused(Current(r) # None) /\ Preserve(r)
        /\ UNCHANGED registered \/ (Current(r) = None /\ Register(r, before[r]))
  /\ UNCHANGED <<host, what, before, switching, succeeded, deaf, lock, runtime, born,
                 settings, origin, outside>>

\* Fault: the generation of a failed run goes, whatever is registered.
CleanUp_Always(r) ==
  /\ step[r] = "cleanup" /\ Goto(r, "unlock")
  /\ runtime' = IF succeeded[r] THEN runtime ELSE [runtime EXCEPT ![r] = "none"]
  /\ UNCHANGED <<host, what, before, switching, preserve, succeeded, deaf, lock,
                 registered, born, settings, origin, faults, outside>>

\* delete_generation, which may stop half way.
CleanUp(r) ==
  /\ step[r] = "cleanup" /\ Goto(r, "unlock")
  /\ IF succeeded[r] \/ preserve[r] \/ runtime[r] = "none" \/ what[r] = "uninstall"
     THEN UNCHANGED <<runtime, faults>>
     ELSE \E left \in {"none", "partial"} :
            /\ runtime' = [runtime EXCEPT ![r] = left]
            /\ IF left = "none" THEN Works ELSE Fails
  /\ UNCHANGED <<host, what, before, switching, preserve, succeeded, deaf, lock,
                 registered, born, settings, origin, outside>>

Unlock(r) ==
  /\ step[r] = "unlock" /\ Gone(r, "done")
  /\ lock' = [lock EXCEPT ![host[r]] = None]
  /\ UNCHANGED <<host, registered, runtime, born, settings, origin, faults, outside>>

-------------------------------------------------------------------------------
\* Signals, kills, and others.

\* INT, TERM or HUP runs the EXIT trap; in the trap of Claude's scripts it ends it.
Interrupted(r) == step[r] \notin {"idle", "done", "dead"} /\ Fails

Signal(r) ==
  /\ Interrupted(r) /\ ~deaf[r] /\ step[r] # "exit"
  /\ IF step[r] \in {"cleanup", "unlock"}
     THEN Gone(r, "dead") /\ UNCHANGED host
     ELSE Goto(r, "exit") /\ UNCHANGED <<host, what, before, switching, preserve,
                                        succeeded, deaf>>
  /\ UNCHANGED <<lock, registered, runtime, born, settings, origin, outside>>

Kill(r) ==
  /\ Interrupted(r) /\ Gone(r, "dead")
  /\ UNCHANGED <<host, lock, registered, runtime, born, settings, origin, outside>>

\* The operator removes the lock of a run that is known to be dead.
RemoveLock(h) ==
  /\ lock[h] # None /\ step[lock[h]] = "dead" /\ lock' = [lock EXCEPT ![h] = None]
  /\ UNCHANGED <<runVars, registered, runtime, born, settings, origin, faults, outside>>

Outside(h) ==
  /\ outside < MaxOutside /\ faults + outside < MaxFaults /\ outside' = outside + 1
  /\ \/ \E g \in {None, Other} \ {registered[h]} :
          registered' = [registered EXCEPT ![h] = g] /\ UNCHANGED settings
     \/ settings = {} /\ settings' = {Other} /\ UNCHANGED registered
  /\ UNCHANGED <<runVars, lock, runtime, born, origin, faults>>

Step(r) ==
  \/ Refuse(r) \/ Lock(r) \/ Snapshot(r) \/ MakeGeneration(r) \/ Build(r)
  \/ LookForSettings(r) \/ Publish(r) \/ Check(r) \/ Remove(r) \/ VerifyGone(r)
  \/ Add(r) \/ Configure(r) \/ Verify(r) \/ Finish(r) \/ Prune(r) \/ Exit(r)
  \/ Restore(r) \/ AddAgain(r) \/ CleanUp(r) \/ Unlock(r) \/ Signal(r) \/ Kill(r)

Next == (\E r \in Runs : Step(r)) \/ (\E h \in Hosts : RemoveLock(h) \/ Outside(h))

Spec == Init /\ [][Next]_vars

-------------------------------------------------------------------------------
\* The state is of the types that the scripts give it.
TypeOK ==
  /\ host \in [Runs -> Hosts] /\ what \in [Runs -> {"install", "uninstall"}]
  /\ step \in [Runs -> {"idle", "snapshot", "make", "build", "look", "publish",
                        "check", "remove", "gone", "add", "configure", "verify", "finish",
                        "prune", "exit", "restore", "again", "cleanup", "unlock", "done",
                        "dead"}]
  /\ before \in [Runs -> Runs \cup {None, Other}]
  /\ switching \in [Runs -> BOOLEAN] /\ preserve \in [Runs -> BOOLEAN]
  /\ succeeded \in [Runs -> BOOLEAN] /\ deaf \in [Runs -> BOOLEAN]
  /\ lock \in [Hosts -> Runs \cup {None}] /\ origin \in [Hosts -> Runs \cup {None, Other}]
  /\ registered \in [Hosts -> Runs \cup {None, Other}]
  /\ runtime \in [Runs -> {"none", "partial", "complete"}]
  /\ settings \subseteq Runs \cup {Other}

(* What the host is told to start is a complete runtime, after every step  *)
(* of every run, failed, interrupted or killed wherever it was, and after  *)
(* the pruning of later runs (install.sh:178, installer_path_guard.py:403).*)
RegistrationLive ==
  \A h \in Hosts : registered[h] \in Runs => runtime[registered[h]] = "complete"

(* "failures preserve the active runtime": a run that fails has put the    *)
(* registration back when it gives up its lock, or has said that it could  *)
(* not (SECURITY.md:88, install.sh:369).                                   *)
FailurePreserves ==
  \A r \in Runs :
    step[r] = "unlock" /\ ~succeeded[r] /\ ~preserve[r] /\ outside = 0 =>
      Current(r) = origin[host[r]]

(* A run that succeeds has registered its generation, or removed the       *)
(* registration, and an installation keeps one of the older generations.   *)
SuccessIsReal ==
  \A r \in Runs :
    step[r] = "unlock" /\ succeeded[r] /\ outside = 0 /\ before[r] # Other =>
      /\ Current(r) = IF what[r] = "install" THEN r ELSE None
      /\ what[r] = "install" /\ before[r] \in Runs => Cardinality(Siblings(r)) > 1

(* The configuration, with the user's key in it, is written by one of them *)
(* only: installers of both hosts and an editor that start without one do  *)
(* not replace each other's (installer_path_guard.py:141).                 *)
SettingsWrittenOnce == Cardinality(settings) <= 1
================================================================================
