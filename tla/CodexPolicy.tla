------------------------------ MODULE CodexPolicy ------------------------------
(***************************************************************************)
(* Whose entry mcp_servers.gpt of Codex's configuration is, and what an    *)
(* installation makes of it (configure_policy.py).  The user may change    *)
(* any field, and a program that writes TOML may drop the comment that     *)
(* marks the entry; each edit of the file by the adapter is a transaction  *)
(* of CodexConfig, and a refusal leaves the file as it is.                 *)
(***************************************************************************)
CONSTANTS Generations,  \* runtimes below the root of the managed ones
          Foreign,      \* any other command, or none
          Absent        \* no entry, no field

VARIABLES entry, ran  \* ran: the last thing that was done

policyVars == <<entry, ran>>

Tools == {"execute", "recover"}  \* the starting of work, and its recovery

(* launch: what env_vars forwards, or a field that is not kept (args, env, *)
(* cwd) or another transport (url).  timeout: under the old or the new default, or one of  *)
(* them or more.  choice: what only gets a default (approval modes, the    *)
(* start's timeout).                                                       *)
Values ==
  [marker |-> BOOLEAN, command |-> Generations \cup {Foreign}, enabled |-> BOOLEAN,
   launch |-> {Absent, "some", "exact", "unapproved", "field", "url"},
   tools |-> {Absent} \cup {[names |-> s] : s \in SUBSET Tools},
   disabled |-> SUBSET Tools, timeout |-> {Absent, "short", "legacy", "enough"},
   choice |-> {Absent, "default", "own"}]

Empty == [marker |-> FALSE, command |-> Foreign, enabled |-> FALSE, launch |-> Absent,
          tools |-> Absent, disabled |-> {}, timeout |-> Absent, choice |-> Absent]

Named(tools) == IF tools = Absent THEN Tools ELSE tools.names

(* _is_owned_entry: by its comment, or else by what it starts.             *)
Owned(e) == e.marker \/ (e.launch # "url" /\ e.command \in Generations)

Preservable(e) == e.launch \in {Absent, "some", "exact"}

(* Fault: a list of tools is taken as it is.                               *)
WithRecovery_Never(tools) == [names |-> Named(tools)]

(* An explicit list that can start work gets the tools that recover it.    *)
WithRecovery(tools) ==
  [names |-> Named(tools) \cup (IF "execute" \in Named(tools) THEN {"recover"} ELSE {})]

Default(value, d) == IF value = Absent THEN d ELSE value

(* Fault: the defaults are written over what is there.                     *)
Defaults_Reset(e, g) ==
  [e EXCEPT !.marker = TRUE, !.command = g, !.enabled = TRUE, !.launch = "exact",
            !.tools = WithRecovery(e.tools),
            !.timeout = "enough", !.choice = "default"]

(* _apply_defaults.                                                        *)
Defaults(e, g) ==
  [e EXCEPT !.marker = TRUE, !.command = g, !.enabled = TRUE, !.launch = "exact",
            !.tools = WithRecovery(e.tools),
            !.timeout = IF e.timeout \in {Absent, "legacy"} THEN "enough" ELSE @,
            !.choice = Default(@, "default")]

Callable(e) == Named(e.tools) \ e.disabled

(* _validate_recovery_visibility, and the check of the timeout.            *)
Acceptable(e) ==
  /\ "execute" \in Callable(e) => "recover" \notin e.disabled
  /\ e.timeout = "enough"

(* configure_install, from what it finds to what it leaves, or a refusal.  *)
Installed(e, g, force) ==
  IF force \/ e = Absent THEN Defaults(Empty, g) ELSE Defaults(e, g)
Accepted(e, g, force) ==
  /\ ~force /\ e # Absent => Owned(e) /\ Preservable(e)
  /\ Acceptable(Installed(e, g, force))

-------------------------------------------------------------------------------
Init == entry = Absent /\ ran = "nothing"

Done(what, force) == ran' = IF force THEN "forced" ELSE what

Install(g, force) ==
  \/ /\ Accepted(entry, g, force)
     /\ entry' = Installed(entry, g, force) /\ Done("install", force)
  \/ ~Accepted(entry, g, force) /\ ran' = "refused" /\ UNCHANGED entry

(* configure_uninstall.                                                    *)
Uninstall(force) ==
  /\ entry # Absent
  /\ \/ /\ Owned(entry) \/ force
        /\ entry' = Absent /\ Done("uninstall", force)
     \/ ~Owned(entry) /\ ~force /\ ran' = "refused" /\ UNCHANGED entry

(* The user writes an entry, or changes a field of one.                    *)
Change ==
  /\ ran' = "user"
  /\ \/ entry = Absent /\ entry' = Empty
     \/ entry # Absent /\ \E f \in DOMAIN Values \ {"marker"} : \E v \in Values[f] :
          entry' = [entry EXCEPT ![f] = v]

DropComments ==
  entry # Absent /\ ran' = "user" /\ entry' = [entry EXCEPT !.marker = FALSE]

Next == \/ \E g \in Generations, force \in BOOLEAN : Install(g, force)
        \/ \E force \in BOOLEAN : Uninstall(force)
        \/ Change \/ DropComments

Spec == Init /\ [][Next]_policyVars

-------------------------------------------------------------------------------
(* Properties.                                                             *)

TypeOK == entry = Absent \/ \A f \in DOMAIN Values : entry[f] \in Values[f]

(* validate_registration_payload, which looks at what Codex makes of it.   *)
Registered(e, g) == e.enabled /\ e.command = g /\ e.launch = "exact"

(* Whatever entry an installation accepts, it makes one that passes the    *)
(* check afterwards, that can be recovered whenever it can start work,     *)
(* that an uninstallation recognises, also after the comment is lost, and  *)
(* that the next installation leaves alone (configure_policy.py:212-269).  *)
InstallSettles ==
  entry # Absent /\ ran \in {"install", "forced"} => \E g \in Generations :
    /\ Registered(entry, g)
    /\ "execute" \in Callable(entry) => "recover" \in Callable(entry)
    /\ Owned([entry EXCEPT !.marker = FALSE])
    /\ Accepted(entry, g, FALSE) /\ Installed(entry, g, FALSE) = entry

(* Without force, an entry of somebody else is neither changed nor         *)
(* removed, and of an own one the user's tools, disabled tools and option  *)
(* stay; that it was switched off does not (configure_policy.py:212-232,   *)
(* 248-269, 332-346).                                                      *)
ChoicesKept ==
  entry # Absent /\ ran' \in {"install", "uninstall"} =>
    /\ entry.marker \/ entry.command # Foreign
    /\ entry' # Absent =>
         /\ entry'.disabled = entry.disabled
         /\ entry.choice \in {Absent, entry'.choice}
         /\ Named(entry'.tools) \ {"recover"} = Named(entry.tools) \ {"recover"}
================================================================================
