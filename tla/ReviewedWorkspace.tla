--------------------------- MODULE ReviewedWorkspace ---------------------------
(***************************************************************************)
(* What the lease and the journal of gpt-as-subagent promise the host:     *)
(* delegations touch a workspace one at a time; a change is announced      *)
(* before it is made; a delegation opens only when every announced change  *)
(* has been reviewed, and what was reviewed is never touched again.        *)
(* MutationCalls implements this module (MutationCalls!Promise).           *)
(***************************************************************************)
CONSTANT Tx

VARIABLES open,      \* a delegation, or what it left running, is at work
          announced, \* changes announced so far
          pending,   \* those not reviewed yet
          changed    \* those made

wvars == <<open, announced, pending, changed>>

Init == open = FALSE /\ announced = {} /\ pending = {} /\ changed = {}

Open == /\ ~open /\ pending = {}
        /\ open' = TRUE
        /\ UNCHANGED <<announced, pending, changed>>

Announce(t) == /\ open /\ t \notin announced
               /\ announced' = announced \cup {t}
               /\ pending' = pending \cup {t}
               /\ UNCHANGED <<open, changed>>

Change(t) == /\ open /\ t \in pending
             /\ changed' = changed \cup {t}
             /\ UNCHANGED <<open, announced, pending>>

Close == /\ open
         /\ open' = FALSE
         /\ UNCHANGED <<announced, pending, changed>>

Review(t) == /\ ~open /\ t \in pending
             /\ pending' = pending \ {t}
             /\ UNCHANGED <<open, announced, changed>>

Next == Open \/ Close \/ \E t \in Tx : Announce(t) \/ Change(t) \/ Review(t)

Spec == Init /\ [][Next]_wvars
================================================================================
