------------------------------ MODULE ProviderCall -----------------------------
(***************************************************************************)
(* One call of the model provider by the agent loop: call_with_retry of    *)
(* gpt_mcp/provider_retry.py, the subprocess of each attempt               *)
(* (provider_process.py, provider_child.py, provider_response.py), the     *)
(* deadline of the run (hard_deadline.py) and the child's watch on its     *)
(* parent (parent_liveness.py).                                            *)
(*                                                                         *)
(* The server's thread, the child, and the clocks take steps on their own. *)
(* The machine may be suspended, which the monotonic clock does not count, *)
(* and its wall clock may be set.  Times are whole units.                  *)
(***************************************************************************)
EXTENDS Integers

CONSTANTS RunSeconds,     \* what is left of the run when the call begins
          RequestSeconds, \* API_READ_TIMEOUT_SECONDS
          Backoff,        \* API_RETRY_BACKOFF_SECONDS
          Retries,        \* API_RETRY_ATTEMPTS
          Horizon,        \* the model's clock stops here
          MaxAsleep,      \* time the machine is suspended, at most
          MaxSkew         \* by which the wall clock is set, at most

VARIABLES
  now,       \* the time that has passed: the continuous clock
  asleep,    \* of which the machine was suspended
  skew,      \* by which the wall clock was set
  pc,        \* where the server's thread stands; "gone": the server died
  attempt,   \* the attempt under way
  requestEnd,\* the deadline of the attempt
  byRun,     \* which is that of the run
  verdict,   \* what the attempt came to
  wakes,     \* the monotonic time at which a backoff ends
  cancelled, \* the cancel event
  child,     \* absent, running, an answer it exited with, crashed, killed
  childEnd,  \* the deadline of its watchdog
  watched,   \* the parent's end of the liveness pipe is open
  outcome,   \* what the call returned or raised
  began,     \* the time at which the last child was started (not in the code)
  reasons    \* why attempts were repeated (not in the code)

clock  == <<now, asleep, skew>>
thread == <<pc, attempt, requestEnd, byRun, verdict, wakes, outcome>>
helper == <<child, childEnd, watched>>
ghosts == <<began, reasons>>
vars   == <<clock, thread, cancelled, helper, ghosts>>

-------------------------------------------------------------------------------
(* hard_deadline.py                                                        *)

Monotonic == now - asleep
Realtime  == now + skew

(* The clock that each supported platform has for it counts suspension.    *)
Continuous == now

After(seconds) == [mono |-> Monotonic + seconds, real |-> Realtime + seconds,
                   cont |-> Continuous + seconds]

Smallest(s) == CHOOSE x \in s : \A y \in s : x <= y

(* Fault: only the monotonic clock is looked at.                           *)
Remaining_Monotonic(d) == d.mono - Monotonic
Remaining(d) == Smallest({d.mono - Monotonic, d.real - Realtime, d.cont - Continuous})

RunDeadline == [mono |-> RunSeconds, real |-> RunSeconds, cont |-> RunSeconds]

(* The deadline of a request, unless that of the run comes first.          *)
Limited(seconds) ==
  LET d == RunDeadline
      l == After(seconds) IN
  IF Remaining(d) <= seconds THEN d ELSE
  [mono |-> Smallest({d.mono, l.mono}), real |-> Smallest({d.real, l.real}),
   cont |-> Smallest({d.cont, l.cont})]

-------------------------------------------------------------------------------
Answers == {"ok", "transient", "permanent"}
Alive   == child = "running"

Init ==
  /\ now = 0 /\ asleep = 0 /\ skew = 0
  /\ pc = "check" /\ attempt = 0
  /\ requestEnd = [mono |-> 0, real |-> 0, cont |-> 0] /\ byRun = FALSE
  /\ verdict = "none" /\ wakes = 0 /\ cancelled = FALSE
  /\ child = "absent" /\ childEnd = [mono |-> 0, real |-> 0, cont |-> 0]
  /\ watched = FALSE
  /\ outcome = "none" /\ began = 0 /\ reasons = {}

(* The environment: time, suspension, a set clock, the parent's cancel,    *)
(* and the end of the server's process, which closes its descriptors.      *)
Tick ==
  /\ now < Horizon
  /\ now' = now + 1
  /\ UNCHANGED <<asleep, skew, thread, cancelled, helper, ghosts>>

Suspend ==
  /\ now < Horizon /\ asleep < MaxAsleep
  /\ now' = now + 1 /\ asleep' = asleep + 1
  /\ UNCHANGED <<skew, thread, cancelled, helper, ghosts>>

SetClock ==
  /\ skew = 0 /\ skew' \in -MaxSkew .. MaxSkew
  /\ UNCHANGED <<now, asleep, thread, cancelled, helper, ghosts>>

Cancel ==
  /\ ~cancelled /\ cancelled' = TRUE
  /\ UNCHANGED <<clock, thread, helper, ghosts>>

ServerDies ==
  /\ pc # "gone" /\ pc' = "gone" /\ watched' = FALSE
  /\ UNCHANGED <<clock, attempt, requestEnd, byRun, verdict, wakes, cancelled,
                 outcome, child, childEnd, ghosts>>

-------------------------------------------------------------------------------
(* call_with_retry                                                         *)

Ends(how) == pc' = "done" /\ outcome' = how

CheckCancel ==
  /\ pc = "check"
  /\ IF cancelled THEN Ends("cancelled") ELSE pc' = "start" /\ UNCHANGED outcome
  /\ UNCHANGED <<clock, attempt, requestEnd, byRun, verdict, wakes, cancelled,
                 helper, ghosts>>

(* _start_provider; the child is told what is left, and starts its watch.  *)
Launched ==
  /\ child' = "running" /\ watched' = TRUE /\ began' = now
  /\ childEnd' = After(Remaining(requestEnd'))

(* Fault: the time that is left is looked at before the backoff only.      *)
Start_Unchecked ==
  /\ pc = "start"
  /\ requestEnd' = Limited(RequestSeconds)
  /\ byRun' = (Remaining(RunDeadline) <= RequestSeconds)
  /\ Launched
  /\ pc' = "wait"
  /\ UNCHANGED <<clock, attempt, verdict, wakes, cancelled, outcome, reasons>>

(* request_in_subprocess up to the wait: no child is started without time, *)
(* or with a request that is too large, and one that cannot be started is  *)
(* a failure of the client.                                                *)
Start ==
  /\ pc = "start"
  /\ requestEnd' = Limited(RequestSeconds)
  /\ byRun' = (Remaining(RunDeadline) <= RequestSeconds)
  /\ \/ /\ Remaining(requestEnd') > 0
        /\ Launched
        /\ pc' = "wait" /\ UNCHANGED outcome
     \/ /\ Remaining(requestEnd') <= 0
        /\ Ends("deadline") /\ UNCHANGED <<child, watched, childEnd, began>>
     \/ /\ Remaining(requestEnd') > 0
        /\ \E how \in {"deadline", "permanent"} : Ends(how)
        /\ UNCHANGED <<child, watched, childEnd, began>>
  /\ UNCHANGED <<clock, attempt, verdict, wakes, cancelled, reasons>>

(* _decode_response, of a child that exited with success.                  *)
Decoded == IF child \in Answers THEN child ELSE "permanent"

(* _wait_for_provider: the pipe has been read to its end, or the thread    *)
(* looks at the cancel event and then at the deadline.                     *)
Await ==
  /\ pc = "wait"
  /\ \/ child # "running" /\ verdict' = Decoded
     \/ cancelled /\ verdict' = "cancelled"
     \/ /\ Remaining(requestEnd) <= 0
        /\ verdict' = IF byRun THEN "deadline" ELSE "transient"
  /\ pc' = "stop"
  /\ UNCHANGED <<clock, attempt, requestEnd, byRun, wakes, cancelled, outcome,
                 helper, ghosts>>

(* Fault: the child is left to its own watchdog.                           *)
Stop_Leaves ==
  /\ pc = "stop"
  /\ pc' = "judge"
  /\ UNCHANGED <<clock, attempt, requestEnd, byRun, verdict, wakes, cancelled,
                 outcome, helper, ghosts>>

(* _stop_process: terminated, then killed, each with a time to end in.     *)
StopsOrNot ==
  \/ child' = (IF Alive THEN "killed" ELSE child)
     /\ pc' = "judge" /\ UNCHANGED outcome
  \/ Alive /\ Ends("cleanup") /\ UNCHANGED child

(* _cleanup_provider_process: the pipe to the child's watchdog is closed,  *)
(* whether the child could be stopped or not.                              *)
Stop ==
  /\ pc = "stop"
  /\ watched' = FALSE
  /\ StopsOrNot
  /\ UNCHANGED <<clock, attempt, requestEnd, byRun, verdict, wakes, cancelled,
                 childEnd, ghosts>>

(* Fault: an error of the client is taken for a transient one.             *)
Retryable_AnyError(v) == v \in {"transient", "permanent"}
Retryable(v) == v = "transient"

(* Fault: the attempts are counted from the wrong end.                     *)
Repeats_OneMore == Retryable(verdict) /\ attempt <= Retries
Repeats == Retryable(verdict) /\ attempt < Retries

(* What follows from an attempt; before the next one, the backoff, cut to  *)
(* what is left of the run.                                                *)
Judge ==
  /\ pc = "judge"
  /\ \/ /\ ~Repeats
        /\ Ends(IF Retryable(verdict) THEN "unreachable" ELSE verdict)
        /\ UNCHANGED <<wakes, reasons>>
     \/ /\ Repeats /\ Remaining(RunDeadline) <= 0
        /\ Ends("deadline") /\ UNCHANGED <<wakes, reasons>>
     \/ /\ Repeats /\ Remaining(RunDeadline) > 0
        /\ wakes' = Monotonic + Smallest({Backoff * (attempt + 1),
                                          Remaining(RunDeadline)})
        /\ reasons' = reasons \cup {verdict}
        /\ pc' = "backoff" /\ UNCHANGED outcome
  /\ UNCHANGED <<clock, attempt, requestEnd, byRun, verdict, cancelled, helper,
                 began>>

(* Fault: the backoff waits for a cancel, and for nothing else.            *)
Wake_EventOnly ==
  /\ pc = "backoff" /\ cancelled
  /\ Ends("cancelled") /\ UNCHANGED <<attempt, verdict>>
  /\ UNCHANGED <<clock, requestEnd, byRun, wakes, cancelled, helper, ghosts>>

(* wait_before_retry.                                                      *)
Wake ==
  /\ pc = "backoff"
  /\ \/ cancelled /\ Ends("cancelled") /\ UNCHANGED <<attempt, verdict>>
     \/ /\ ~cancelled /\ Monotonic >= wakes
        /\ attempt' = attempt + 1 /\ verdict' = "none"
        /\ pc' = "check" /\ UNCHANGED outcome
  /\ UNCHANGED <<clock, requestEnd, byRun, wakes, cancelled, helper, ghosts>>

-------------------------------------------------------------------------------
(* The child                                                               *)

(* execute_request, and what it writes: an answer, an error that may be    *)
(* repeated or not; or the process ends without one.                       *)
ChildAnswers ==
  /\ Alive
  /\ child' \in Answers \cup {"crashed"}
  /\ UNCHANGED <<clock, thread, cancelled, childEnd, watched, ghosts>>

(* Fault: the watchdog itself ends when its pipe is closed.                *)
ChildWatchdog_WhileWatched ==
  /\ Alive
  /\ watched /\ Remaining(childEnd) <= 0
  /\ child' = "crashed"
  /\ UNCHANGED <<clock, thread, cancelled, childEnd, watched, ghosts>>

(* _exit_if_stalled: the pipe was closed, or its time is over.             *)
ChildWatchdog ==
  /\ Alive
  /\ ~watched \/ Remaining(childEnd) <= 0
  /\ child' = "crashed"
  /\ UNCHANGED <<clock, thread, cancelled, childEnd, watched, ghosts>>

-------------------------------------------------------------------------------
Thread == CheckCancel \/ Start \/ Await \/ Stop \/ Judge \/ Wake

Next == \/ Thread \/ ChildAnswers \/ ChildWatchdog
        \/ Tick \/ Suspend \/ SetClock \/ Cancel \/ ServerDies

Spec == Init /\ [][Next]_vars

-------------------------------------------------------------------------------
(* Properties.                                                             *)

Outcomes == {"ok", "permanent", "cancelled", "deadline", "unreachable", "cleanup"}
Deadlines == [mono : Int, real : Int, cont : Int]

TypeOK ==
  /\ now \in Nat /\ asleep \in Nat /\ skew \in Int
  /\ pc \in {"check", "start", "wait", "stop", "judge", "backoff", "done", "gone"}
  /\ attempt \in 0 .. Retries
  /\ requestEnd \in Deadlines /\ byRun \in BOOLEAN
  /\ verdict \in Answers \cup {"none", "cancelled", "deadline"}
  /\ wakes \in Int /\ cancelled \in BOOLEAN
  /\ child \in Answers \cup {"absent", "running", "crashed", "killed"}
  /\ childEnd \in Deadlines /\ watched \in BOOLEAN
  /\ outcome \in Outcomes \cup {"none"}
  /\ began \in Nat /\ reasons \in SUBSET (Answers \cup {"cancelled", "deadline"})

(* No request is begun when the time of the run is over, however the time  *)
(* passed: awake, suspended in a backoff, or with the wall clock set back  *)
(* (hard_deadline.py:1, provider_process.py:238-240).                      *)
NothingPastDeadline == child # "absent" => began < RunSeconds

(* A call that is over leaves no child behind, unless the child could not  *)
(* be killed, which the call then reports; and no attempt is begun while   *)
(* the child of another lives (provider_process.py:210-226).               *)
NoChildLeft ==
  /\ Alive => pc \in {"wait", "stop", "gone"} \/ outcome = "cleanup"
  /\ Alive => (watched <=> pc \in {"wait", "stop"})

(* A request is repeated only for failures that say so: neither a refusal  *)
(* nor an answer that cannot be read, cancelled or late is tried again     *)
(* (provider_retry.py:62-80).                                              *)
RepeatsTransientOnly ==
  /\ reasons \subseteq {"transient"}
  /\ attempt > 0 => reasons # {}
  /\ outcome = "ok" => child = "ok"

(* A cancel or the end of the run ends the call, also when the provider    *)
(* never answers.                                                          *)
CallEnds == <>(pc \in {"done", "gone"})

(* A child ends, also one that could not be killed in time, and one whose  *)
(* server is gone (parent_liveness.py:1).                                  *)
ChildrenEnd == []<>~Alive
================================================================================
