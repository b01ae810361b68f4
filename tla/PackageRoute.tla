------------------------------ MODULE PackageRoute -----------------------------
(***************************************************************************)
(* The packaging routes of the conductor for one job: package and          *)
(* retry-package of conductor/main.py, with memory_writer.py,              *)
(* package_semantics.py and the approvals of governance.py, the telemetry  *)
(* of reliability.py and the report of invariants.py on packages.          *)
(*                                                                         *)
(* As in ExecuteRoute, requests are served by concurrent threads, every    *)
(* commit is a step, and a request may end between any two.  The result    *)
(* of the execution is part of the request: the route does not read        *)
(* execution_state.                                                        *)
(***************************************************************************)
EXTENDS Naturals, FiniteSets

CONSTANTS Requests, \* requests about the job, each served once
          Keys,     \* idempotency keys, given or derived from the body
          Roles,    \* the x-operator-role headers requests carry
          Statuses  \* the execution statuses that are packaged

ASSUME RequestAssumption == {"none", "in_progress"} \cap Requests = {}
ASSUME RoleAssumption == Roles \subseteq {"admin", "operator", "system", "guest"}
ASSUME StatusAssumption == Statuses \subseteq {"completed", "blocked", "failed", "finalizing"}

VARIABLES
  pc,       \* where a request stands
  req,      \* what it asks for
  answer,   \* what its client was told
  row,      \* a key's latest row: none, in_progress, or the request that completed it
  last,     \* the key of the job's latest row
  packaged, \* some row of the job is completed
  replayOf, \* the request whose response a replay returned
  counted,  \* a retry found a completed package
  memory,   \* rows of memory: which request wrote one of which kind
  ledger,   \* operator_action_ledger
  events,   \* telemetry_event: the phases of requests that were recorded
  began,    \* requests that began to write
  late,     \* a request of its key had begun when it arrived (not in the code)
  again     \* the job had a completed package when it arrived (not in the code)

vars == <<pc, req, answer, row, last, packaged, replayOf, counted, memory,
          ledger, events, began, late, again>>
marks == <<late, again>>

(* What a client sends: besides its key and its role, the status and the   *)
(* alternatives of the result, surprises of its review, and for a retry    *)
(* whether duplicates are wanted and approved.                             *)
Calls == [route : {"package", "retry"}, key : Keys, role : Roles,
          status : Statuses, alternatives : BOOLEAN, issues : BOOLEAN,
          duplicates : BOOLEAN, approval : {"none", "wrong", "good"}]
Idle  == [route |-> "none"]

(* ALLOWED_ROLES                                                           *)
Allowed(action) ==
  IF action = "retry" THEN {"admin"} ELSE {"admin", "operator", "system"}

(* classify_package_status                                                 *)
Canonical == {"completed"}
DraftOnly == {"blocked", "failed"}
Mode(status) == CASE status \in Canonical -> "canonical"
                  [] status \in DraftOnly -> "draft_only"
                  [] OTHER -> "rejected"

Init ==
  /\ pc = [r \in Requests |-> "new"]
  /\ req = [r \in Requests |-> Idle]
  /\ answer = [r \in Requests |-> "none"]
  /\ row = [k \in Keys |-> "none"] /\ last = "none" /\ packaged = FALSE
  /\ replayOf = [r \in Requests |-> "none"]
  /\ counted = [r \in Requests |-> FALSE]
  /\ memory = {} /\ ledger = {} /\ events = {} /\ began = {}
  /\ late = [r \in Requests |-> FALSE] /\ again = [r \in Requests |-> FALSE]

At(r, label)   == pc[r] = label
Goto(r, label) == pc' = [pc EXCEPT ![r] = label] /\ UNCHANGED answer
Answer(r, a)   == /\ pc' = [pc EXCEPT ![r] = "end"]
                  /\ answer' = [answer EXCEPT ![r] = a]
Entered(r, action, approved) ==
  ledger' = ledger \cup {[request |-> r, action |-> action, approved |-> approved]}

(* TelemetryService.emit, with a commit of its own.                        *)
Emit(r, phase) == events' = events \cup {[request |-> r, phase |-> phase]}

Done(k) == row[k] \in Requests

(* A request of the client, which sends an approval with the wish for      *)
(* duplicates, and the parts of a result, where the code looks at them.    *)
Arrive(r) ==
  /\ At(r, "new")
  /\ \E c \in Calls :
       /\ c.route = "package" => ~c.duplicates
       /\ ~c.duplicates => c.approval = "none"
       /\ c.issues => c.status = "completed"
       /\ c.alternatives => Mode(c.status) # "rejected"
       /\ req' = [req EXCEPT ![r] = c]
       /\ late' = [late EXCEPT ![r] = \E q \in began : req[q].key = c.key]
       /\ Goto(r, IF c.route = "retry" THEN "count" ELSE "classify")
  /\ again' = [again EXCEPT ![r] = packaged]
  /\ UNCHANGED <<row, events, last, packaged, replayOf, counted, memory, ledger, began>>

-------------------------------------------------------------------------------
(* retry_package, retry_package_validate_and_record                        *)

Count(r) ==
  /\ At(r, "count")
  /\ counted' = [counted EXCEPT ![r] = packaged]
  /\ Goto(r, "approve")
  /\ UNCHANGED <<req, events, row, last, packaged, replayOf, memory, ledger, began,
                 marks>>

(* Fault: a reason code is not asked for, nor the token compared.          *)
Approved_AnyToken(c) == c.approval # "none"

(* require_retry_package_approval: the token and a reason code are right.  *)
Approved(c) == c.approval = "good"

ApproveRetry(r) ==
  /\ At(r, "approve")
  /\ LET c == req[r] IN
     \/ /\ c.role \notin Allowed("retry")
        /\ Answer(r, "forbidden") /\ UNCHANGED ledger
     \/ /\ c.role \in Allowed("retry")
        /\ counted[r] /\ ~c.duplicates
        /\ Entered(r, "retry", FALSE) /\ Answer(r, "conflict")
     \/ /\ c.role \in Allowed("retry")
        /\ counted[r] /\ c.duplicates /\ ~Approved(c)
        /\ Answer(r, "conflict") /\ UNCHANGED ledger
     \/ /\ c.role \in Allowed("retry")
        /\ counted[r] => c.duplicates /\ Approved(c)
        /\ Entered(r, "retry", TRUE) /\ Goto(r, "classify")
  /\ UNCHANGED <<req, events, row, last, packaged, replayOf, counted, memory, began,
                 marks>>

-------------------------------------------------------------------------------
(* package_execution                                                       *)

Classify(r) ==
  /\ At(r, "classify")
  /\ IF Mode(req[r].status) = "rejected"
     THEN Answer(r, "rejected") /\ Emit(r, "validate")
     ELSE Goto(r, "lookup") /\ UNCHANGED events
  /\ UNCHANGED <<req, row, last, packaged, replayOf, counted, memory, ledger, began,
                 marks>>

(* Fault: a package that was not completed is begun again.                 *)
Lookup_Restarts(r) ==
  /\ At(r, "lookup")
  /\ LET found == row[req[r].key] IN
     \/ /\ found \notin Requests
        /\ Goto(r, "insert") /\ UNCHANGED <<ledger, replayOf>>
     \/ /\ found \in Requests
        /\ replayOf' = [replayOf EXCEPT ![r] = found]
        /\ Entered(r, "replay", TRUE) /\ Answer(r, "replay")
  /\ UNCHANGED <<req, events, row, last, packaged, counted, memory, began, marks>>

(* Fault: every row that is found is replayed.                             *)
Lookup_ReplaysAnyRow(r) ==
  /\ At(r, "lookup")
  /\ LET found == row[req[r].key] IN
     \/ found = "none" /\ Goto(r, "insert") /\ UNCHANGED <<ledger, replayOf>>
     \/ /\ found # "none"
        /\ replayOf' = [replayOf EXCEPT ![r] = found]
        /\ Entered(r, "replay", TRUE) /\ Answer(r, "replay")
  /\ UNCHANGED <<req, events, row, last, packaged, counted, memory, began, marks>>

Lookup(r) ==
  /\ At(r, "lookup")
  /\ LET found == row[req[r].key] IN
     \/ /\ found = "none"
        /\ Goto(r, "insert") /\ UNCHANGED <<ledger, events, replayOf>>
     \/ /\ found # "none" /\ req[r].role \notin Allowed("replay")
        /\ Answer(r, "forbidden") /\ UNCHANGED <<ledger, events, replayOf>>
     \/ /\ found = "in_progress" /\ req[r].role \in Allowed("replay")
        /\ Emit(r, "replay") /\ Answer(r, "in_progress")
        /\ UNCHANGED <<ledger, replayOf>>
     \/ /\ found \in Requests /\ req[r].role \in Allowed("replay")
        /\ replayOf' = [replayOf EXCEPT ![r] = found]
        /\ Entered(r, "replay", TRUE) /\ Goto(r, "replay") /\ UNCHANGED events
  /\ UNCHANGED <<req, row, last, packaged, counted, memory, began, marks>>

(* The response that was read with the row.                                *)
Replay(r) ==
  /\ At(r, "replay")
  /\ Emit(r, "replay") /\ Answer(r, "replay")
  /\ UNCHANGED <<req, row, last, packaged, replayOf, counted, memory, ledger, began,
                 marks>>

(* The INSERT of a row in progress, which no constraint refuses.           *)
Insert(r) ==
  /\ At(r, "insert")
  /\ row' = [row EXCEPT ![req[r].key] = "in_progress"]
  /\ last' = req[r].key /\ began' = began \cup {r}
  /\ Goto(r, "chosen")
  /\ UNCHANGED <<req, events, packaged, replayOf, counted, memory, ledger, marks>>

-------------------------------------------------------------------------------
(* write_package: three commits, one after the other                       *)

Writes(r, kind) == memory' = memory \cup {[request |-> r, kind |-> kind]}

WantsChosen(c) == Mode(c.status) = "canonical"
WantsFrontier(c) == c.alternatives
WantsResidual(c) == c.issues \/ c.status # "completed"

WriteChosen(r) ==
  /\ At(r, "chosen")
  /\ IF WantsChosen(req[r]) THEN Writes(r, "chosen") ELSE UNCHANGED memory
  /\ Goto(r, "frontier")
  /\ UNCHANGED <<req, events, row, last, packaged, replayOf, counted, ledger, began,
                 marks>>

(* Fault: the row is completed before the residual memory is written.      *)
WriteFrontier_Completes(r) ==
  /\ At(r, "frontier")
  /\ IF WantsFrontier(req[r]) THEN Writes(r, "frontier") ELSE UNCHANGED memory
  /\ row' = [row EXCEPT ![req[r].key] = r] /\ packaged' = TRUE
  /\ Goto(r, "residual")
  /\ UNCHANGED <<req, events, last, replayOf, counted, ledger, began, marks>>

WriteFrontier(r) ==
  /\ At(r, "frontier")
  /\ IF WantsFrontier(req[r]) THEN Writes(r, "frontier") ELSE UNCHANGED memory
  /\ Goto(r, "residual")
  /\ UNCHANGED <<req, events, row, last, packaged, replayOf, counted, ledger, began,
                 marks>>

WriteResidual(r) ==
  /\ At(r, "residual")
  /\ IF WantsResidual(req[r]) THEN Writes(r, "residual") ELSE UNCHANGED memory
  /\ Goto(r, "complete")
  /\ UNCHANGED <<req, events, row, last, packaged, replayOf, counted, ledger, began,
                 marks>>

(* Fault: the row stays in progress.                                       *)
Complete_OnlyTells(r) ==
  /\ At(r, "complete") /\ Goto(r, "final")
  /\ UNCHANGED <<req, row, last, packaged, replayOf, counted, memory, ledger, events,
                 began, marks>>

(* The UPDATE of the rows of the job and the key, with the response.       *)
Complete(r) ==
  /\ At(r, "complete")
  /\ row' = [row EXCEPT ![req[r].key] = r] /\ packaged' = TRUE
  /\ Goto(r, "final")
  /\ UNCHANGED <<req, last, replayOf, counted, memory, ledger, events, began, marks>>

Final(r) ==
  /\ At(r, "final")
  /\ Emit(r, "final") /\ Answer(r, "ok")
  /\ UNCHANGED <<req, row, last, packaged, replayOf, counted, memory, ledger, began,
                 marks>>

(* An exception nobody catches, or the end of the process.                 *)
Abort(r) ==
  /\ pc[r] \notin {"new", "end"}
  /\ Answer(r, "error")
  /\ UNCHANGED <<req, events, row, last, packaged, replayOf, counted, memory, ledger, began,
                 marks>>

-------------------------------------------------------------------------------
Serve(r) ==
  \/ Arrive(r) \/ Count(r) \/ ApproveRetry(r) \/ Classify(r) \/ Lookup(r)
  \/ Insert(r) \/ WriteChosen(r) \/ WriteFrontier(r) \/ WriteResidual(r)
  \/ Replay(r) \/ Complete(r) \/ Final(r) \/ Abort(r)

Next == \E r \in Requests : Serve(r)

Spec == Init /\ [][Next]_vars

-------------------------------------------------------------------------------
(* Properties.                                                             *)

(* _package_checks, _memory_checks of the report on the job, which read    *)
(* its latest row: the response of a row in progress is empty.             *)
PayloadValid == last = "none" \/ Done(last)
MemoryGated ==
  last # "none" /\ Done(last) /\ [request |-> row[last], kind |-> "chosen"] \in memory
    => Mode(req[row[last]].status) = "canonical"
Report == PayloadValid /\ MemoryGated

(* What get_job_telemetry lists of a request.                              *)
Told(r) == {e.phase : e \in {x \in events : x.request = r}}

Kinds == {"chosen", "frontier", "residual"}
Wanted(c) == {k \in Kinds : \/ k = "chosen" /\ WantsChosen(c)
                            \/ k = "frontier" /\ WantsFrontier(c)
                            \/ k = "residual" /\ WantsResidual(c)}
Written(r) == {k \in Kinds : [request |-> r, kind |-> k] \in memory}

TypeOK ==
  /\ pc \in [Requests -> {"new", "count", "approve", "classify", "lookup",
                          "insert", "chosen", "frontier", "residual",
                          "complete", "final", "replay", "end"}]
  /\ req \in [Requests -> Calls \cup {Idle}]
  /\ answer \in [Requests -> {"none", "forbidden", "conflict", "rejected",
                              "in_progress", "replay", "ok", "error"}]
  /\ row \in [Keys -> Requests \cup {"none", "in_progress"}]
  /\ last \in Keys \cup {"none"} /\ packaged \in BOOLEAN
  /\ replayOf \in [Requests -> Requests \cup {"none"}]
  /\ counted \in [Requests -> BOOLEAN]
  /\ memory \in SUBSET [request : Requests, kind : Kinds]
  /\ ledger \in SUBSET [request : Requests, action : {"retry", "replay"},
                        approved : BOOLEAN]
  /\ events \in SUBSET [request : Requests, phase : {"validate", "replay", "final"}]
  /\ began \in SUBSET Requests
  /\ late \in [Requests -> BOOLEAN] /\ again \in [Requests -> BOOLEAN]

(* A package whose row is completed, or that was answered with success,    *)
(* has all of its memory, and what a replay returns is such a package of   *)
(* the same key (main.py:435-479, memory_writer.py:42-51).                 *)
CompletedIsWhole ==
  LET Whole(r) == Written(r) = Wanted(req[r]) IN
  /\ \A k \in Keys : Done(k) => Whole(row[k]) /\ req[row[k]].key = k
  /\ \A r \in Requests : answer[r] = "ok" => Whole(r)
  /\ \A r \in Requests : answer[r] = "replay" =>
       Whole(replayOf[r]) /\ req[replayOf[r]].key = req[r].key

(* A key writes its memory once: a request that arrives after one that     *)
(* began writes nothing, not even what that one left out when it was lost  *)
(* (main.py:368-414).                                                      *)
NoSecondWrite == \A m \in memory : ~late[m.request]

(* A retry that arrives after a completed package of the job and writes    *)
(* again was approved for it, and is in the ledger, whatever completes     *)
(* between its count and its writes (main.py:562, governance.py:36-51).    *)
DuplicatesApproved ==
  \A r \in Requests :
    req[r].route = "retry" /\ again[r] /\ Written(r) # {} =>
      /\ req[r].role = "admin" /\ req[r].duplicates /\ req[r].approval = "good"
      /\ [request |-> r, action |-> "retry", approved |-> TRUE] \in ledger

(* The telemetry is what clients were told: who got an answer of the route *)
(* has an event, and an event of a finished package is of one that is      *)
(* completed and whole, though the request may end between the two commits *)
(* (main.py:349-494, reliability.py:39).                                   *)
EventsTrue ==
  /\ \A r \in Requests : answer[r] \in {"ok", "replay", "rejected", "in_progress"} =>
       Told(r) # {}
  /\ \A r \in Requests : "final" \in Told(r) =>
       packaged /\ Written(r) = Wanted(req[r])

(* The report on a job never finds memory of a package that should have    *)
(* none, and where it finds no response, the package is under way or was   *)
(* lost (invariants.py:34-57).                                             *)
ReportRight ==
  /\ MemoryGated
  /\ ~Report =>
       \E r \in began : req[r].key = last /\ answer[r] # "ok"
================================================================================
