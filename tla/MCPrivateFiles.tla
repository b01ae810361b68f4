----------------------------- MODULE MCPrivateFiles -----------------------------
(***************************************************************************)
(* The protocols over files of the home directory, which share no state,   *)
(* side by side: the journal of mutations (JournalStore, and on Windows    *)
(* WindowsJournal, which has the same state), the usage log and the server *)
(* log (PrivateLog), the transaction over the configuration of Codex       *)
(* (CodexConfig, and WindowsConfig), what it makes of the entry there      *)
(* (CodexPolicy), and the installers (HostInstaller).  In a behaviour,     *)
(* part says which of them moves: the states add up and do not multiply.   *)
(***************************************************************************)
EXTENDS WindowsJournal, TLC

CONSTANTS Parts, Servers, Records, MaxChunks, MaxFiles, MaxEdits, MaxFailures,
          Other, MaxFaults, MaxOutside

VARIABLES part,
  content, log, rotated, flock, logPc, fd, record, chunks, logged, torn, removed,
  job, configPc, base, new, forced, config, temp, kept, backup, manifest, result,
  edits, owed, overruled, failures,
  host, what, step, before, switching, preserve, succeeded, deaf, lock, registered,
  runtime, born, settings, origin, faults, outside,
  entry, ran

Usage  == INSTANCE PrivateLog
            WITH Rotates <- TRUE, pc <- logPc, confirmed <- logged
Server == INSTANCE PrivateLog
            WITH Rotates <- FALSE, pc <- logPc, confirmed <- logged
Codex  == INSTANCE WindowsConfig WITH pc <- configPc
Policy == INSTANCE CodexPolicy
            WITH Generations <- Servers, Foreign <- Other, Absent <- None
Install == INSTANCE HostInstaller WITH Runs <- Records

ASSUME LogAssumption ==
  /\ MaxFiles \in Nat \ {0} /\ MaxChunks \in Nat
  /\ None \notin Servers /\ None \notin Records /\ None \notin 1 .. MaxFiles

ASSUME CodexAssumption ==
  /\ MaxEdits \in Nat \ {0} /\ MaxFailures \in Nat
  /\ None \notin Codex!AnyFile /\ None \notin Codex!Texts
  /\ None \notin [existed : BOOLEAN, original : Codex!Texts, installed : Codex!Texts]

ASSUME InstallAssumption ==
  IsFiniteSet(Records) /\ Other \notin Records /\ Other # None

ASSUME PolicyAssumption ==
  /\ Other \notin Servers
  /\ None \notin {"enough", "default"} /\ None \notin [names : SUBSET Policy!Tools]

logVars   == <<content, log, rotated, flock, logPc, fd, record, chunks, logged,
               torn, removed>>
codexVars == <<job, configPc, base, new, forced, config, temp, kept, backup,
               manifest, result, edits, owed, overruled, failures>>
hostVars  == <<host, what, step, before, switching, preserve, succeeded, deaf, lock,
               registered, runtime, born, settings, origin, faults, outside>>
policyVars == <<entry, ran>>
partVars  == <<part, vars, logVars, codexVars, hostVars, policyVars>>

PartsInit ==
  /\ part \in Parts /\ Init /\ Usage!Init /\ Codex!Init /\ Install!Init
  /\ Policy!Init
  /\ part \notin {"usage", "server"} => content[1] = <<>>
  /\ part \notin {"codex", "windows"} => config = None

PartsNext ==
  \/ /\ \/ part = "journal" /\ Next
        \/ part = "journalWindows" /\ NextWindows
     /\ UNCHANGED <<part, logVars, codexVars, hostVars, policyVars>>
  \/ /\ \/ part = "usage" /\ Usage!Next
        \/ part = "server" /\ Server!Next
     /\ UNCHANGED <<part, vars, codexVars, hostVars, policyVars>>
  \/ /\ \/ part = "codex" /\ Codex!Next
        \/ part = "windows" /\ Codex!WindowsNext
     /\ UNCHANGED <<part, vars, logVars, hostVars, policyVars>>
  \/ /\ part = "install" /\ Install!Next
     /\ UNCHANGED <<part, vars, logVars, codexVars, policyVars>>
  \/ /\ part = "policy" /\ Policy!Next
     /\ UNCHANGED <<part, vars, logVars, codexVars, hostVars>>

PartsSpec == PartsInit /\ [][PartsNext]_partVars

Symmetry == Permutations(Servers) \cup Permutations(Records)

-------------------------------------------------------------------------------
(* Over kills, failing calls and losses of power, the journal's records    *)
(* are whole, a confirmed intent and its warnings stay until they are      *)
(* acknowledged, what was reported as removed stays away, and a listing    *)
(* never meets more than it accepts (transaction_journal.py:217-495).      *)
JournalKept ==
  TypeOK /\ RecordsWhole /\ ConfirmedStays /\ RemovedStaysAway /\ NeverOverfull

(* A line that was confirmed is in the log once and in one piece, and no   *)
(* log outgrows its limit (private_logging.py:142-165).                    *)
LinesWhole == Usage!TypeOK /\ Usage!ConfirmedWhole /\ Usage!NeverTooLong

(* A line is confirmed in the file that readers find under the name, not   *)
(* in one that another server has rotated away, and only a full log is     *)
(* rotated, once (private_logging.py:97-125).  Unless it is forced, an     *)
(* installation leaves the entries of others alone, and keeps the user's   *)
(* tools and option in its own, which it switches on                       *)
(* (configure_policy.py:212-269).                                          *)
StepsRight ==
  [][/\ part = "usage"  => Usage!ConfirmedInPlace /\ Usage!FullIsRotated
     /\ part = "server" => Server!ConfirmedInPlace /\ Server!FullIsRotated
     /\ part = "policy" => Policy!ChoicesKept]_partVars

(* Wherever the transaction over the configuration of Codex is cut short,  *)
(* no text of another editor is lost, but for what a forced restore is     *)
(* told to replace, the replaced text can be restored, and a transaction   *)
(* that reports its failure is undone (configure.py:281-407); an entry     *)
(* that it installs is accepted by what reads it.  Wherever an installer   *)
(* is, the host is told to start a complete runtime, a failure has put     *)
(* the registration back or says that it could not, a success has          *)
(* registered its generation and keeps an older one, and the user's        *)
(* settings are never written over (install.sh:178, SECURITY.md:88).       *)
ConfigurationKept ==
  /\ part \in {"codex", "windows"} =>
       Codex!TypeOK /\ Codex!EditsKept /\ Codex!RollbackPossible /\ Codex!FailureUndone
  /\ part = "windows" => Codex!NameKept
  /\ part = "policy" => Policy!TypeOK /\ Policy!InstallSettles
  /\ part = "install" =>
       /\ Install!TypeOK /\ Install!RegistrationLive /\ Install!FailurePreserves
       /\ Install!SuccessIsReal /\ Install!SettingsWrittenOnce

(* "refusing to overwrite newer edits": only an operator who forces a      *)
(* rollback replaces a newer text (configure.py:414).                      *)
NewerEditsKept == Codex!NewerEditsKept
================================================================================
