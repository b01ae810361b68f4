--------------------------- MODULE ExecuteRouteProofs ---------------------------
(***************************************************************************)
(* Proofs about ExecuteRoute, for every set of requests and keys and every *)
(* threshold.  The properties speak of what requests have done; what makes *)
(* them inductive is where each request stands: a request that arrived     *)
(* late, or after a cancellation, never gets as far as the INSERT, and the *)
(* streaks anybody has read are covered by runs already observed.          *)
(***************************************************************************)
EXTENDS ExecuteRoute, FiniteSetTheorems, TLAPS

-------------------------------------------------------------------------------
(* The inductive invariant.                                                *)

BeforeInsert == {"new", "authorize", "cancel", "check", "lookup", "insert"}
AfterRun     == {"store", "read", "observe", "control"}

Arrived ==
  \A r \in Requests :
    /\ pc[r] = "new" => ~late[r] /\ ~after[r]
    /\ pc[r] # "new" => req[r] \in Calls
    /\ pc[r] # "end" => answer[r] = "none"

Running ==
  \A r \in Requests :
    /\ r \in runs => pc[r] \notin BeforeInsert
    /\ pc[r] \in AfterRun \cup {"run"} => r \in runs
    /\ pc[r] \in AfterRun <=> result[r] # "none" /\ pc[r] # "end"

(* A key that a run has used has a row for ever, and a late request knows. *)
KeyInv ==
  \A r \in Requests :
    /\ r \in runs => row[req[r].key] # "none"
    /\ late[r] => /\ row[req[r].key] # "none"
                  /\ pc[r] # "insert" /\ r \notin runs

(* A completed row is that of a run of its key which ended.                *)
RowInv ==
  \A k \in Keys : row[k] \in Requests =>
    /\ row[k] \in runs
    /\ result[row[k]] # "none"
    /\ req[row[k]].key = k

(* A request that arrived after a cancellation stops at the check.         *)
CancelInv ==
  \A r \in Requests :
    /\ answer[r] = "cancelled_job" => cancelled
    /\ after[r] => /\ cancelled /\ r \notin runs
                   /\ pc[r] \in {"authorize", "cancel", "check", "end"}

(* A control request past its authorization is in the ledger.              *)
EntryInv ==
  \A r \in Requests :
    /\ pc[r] = "cancel" =>
         \E e \in ledger : e.action = "cancel" /\ e.role = "operator"
    /\ pc[r] \notin {"new", "authorize", "end"} /\ req[r].route # "execute" =>
         \E e \in ledger : e.request = r /\ e.action = req[r].route

Agrees(e) == /\ e.escalated <=> e.streak >= Threshold
             /\ e.level > 0 <=> e.escalated

(* The failed runs that are not still to be observed.                      *)
Counted == {r \in runs : result[r] \in Failures
                         /\ pc[r] \notin {"store", "read", "observe"}}

StreakInv ==
  /\ Agrees(esc) /\ esc.streak <= Cardinality(Counted)
  /\ \A r \in Requests :
       Agrees(seen[r]) /\ seen[r].streak <= Cardinality(Counted)

IInv == /\ TypeOK /\ Arrived /\ Running
        /\ KeyInv /\ RowInv /\ ReplayIsFaithful /\ CancelInv
        /\ EntryInv /\ LedgerFirst /\ StreakInv

-------------------------------------------------------------------------------
LEMMA InitEstablishes == Init => IInv
<1> SUFFICES ASSUME Init PROVE IInv
  OBVIOUS
<1> USE DEF Init
<1>1. TypeOK
  <2>1. NoStreak \in Rows
    BY DEF Rows, NoStreak
  <2> QED
    BY <2>1 DEF TypeOK, Failures
<1>2. Arrived /\ Running /\ KeyInv /\ CancelInv /\ EntryInv
  BY DEF Arrived, Running, BeforeInsert, AfterRun, KeyInv, CancelInv, EntryInv
<1>3. RowInv /\ ReplayIsFaithful /\ LedgerFirst
  BY RequestAssumption DEF RowInv, ReplayIsFaithful, LedgerFirst
<1>4. StreakInv
  <2>1. Counted = {}
    BY DEF Counted
  <2> QED
    BY <2>1, FS_EmptySet, ThresholdAssumption
    DEF StreakInv, Agrees, NoStreak
<1> QED
  BY <1>1, <1>2, <1>3, <1>4 DEF IInv

(* There are finitely many requests, so the counted runs can be counted.   *)
LEMMA CountedGrows ==
  ASSUME IInv, TypeOK', Counted \subseteq Counted'
  PROVE  /\ IsFiniteSet(Counted) /\ IsFiniteSet(Counted')
         /\ Cardinality(Counted) \in Nat /\ Cardinality(Counted') \in Nat
         /\ Cardinality(Counted) <= Cardinality(Counted')
<1>1. Counted \subseteq Requests /\ Counted' \subseteq Requests
  BY DEF Counted, IInv, TypeOK
<1> QED
  BY <1>1, FiniteAssumption, FS_Subset, FS_CardinalityType

(* A step that leaves the escalation row alone keeps StreakInv if no       *)
(* counted run ceases to be counted.                                       *)
LEMMA StreakKept ==
  ASSUME IInv, TypeOK', Counted \subseteq Counted', esc' = esc,
         \A r \in Requests : seen'[r] \in {seen[r], esc}
  PROVE  StreakInv'
<1>1. esc.streak \in Nat /\ \A r \in Requests : seen[r].streak \in Nat
  BY DEF IInv, TypeOK, Rows
<1> QED
  BY <1>1, CountedGrows DEF IInv, StreakInv, Agrees

(* A new entry of the ledger is well formed.                               *)
LEMMA EnteredType ==
  ASSUME IInv, NEW r \in Requests, pc[r] # "new",
         NEW action \in Routes \cup {"replay"}, Entered(r, action)
  PROVE  /\ ledger' \in SUBSET [request : Requests, role : Roles,
                                action : Routes \cup {"replay"}]
         /\ ledger \subseteq ledger'
         /\ [request |-> r, action |-> action, role |-> req[r].role] \in ledger'
  BY DEF Entered, IInv, TypeOK, Arrived, Calls

(* Every step of a request keeps the invariant.                            *)
LEMMA StepPreserves == ASSUME IInv, [Next]_vars PROVE IInv'
<1>1. ASSUME NEW r \in Requests, Arrive(r) PROVE IInv'
  <2>1. TypeOK'
    BY <1>1
    DEF Arrive, At, Goto, IInv, TypeOK, Rows, Calls, Routes, Failures, Idle
  <2>2. Arrived'
    BY <1>1 DEF Arrive, At, Goto, IInv, Arrived, TypeOK, Calls
  <2>3. Running'
    BY <1>1
    DEF Arrive, At, Goto, IInv, Running, Arrived, TypeOK, BeforeInsert,
        AfterRun, Failures
  <2>4. KeyInv'
    BY <1>1
    DEF Arrive, At, Goto, IInv, KeyInv, Arrived, Running, TypeOK,
        BeforeInsert, AfterRun, Calls
  <2>5. RowInv'
    BY <1>1, RequestAssumption
    DEF Arrive, At, Goto, IInv, RowInv, Arrived, Running, TypeOK,
        BeforeInsert, AfterRun, Failures
  <2>6. ReplayIsFaithful'
    BY <1>1, RequestAssumption
    DEF Arrive, At, Goto, IInv, ReplayIsFaithful, RowInv, Running, Arrived,
        TypeOK, BeforeInsert, AfterRun, Failures, Calls
  <2>7. CancelInv'
    BY <1>1
    DEF Arrive, At, Goto, IInv, CancelInv, Arrived, Running, TypeOK,
        BeforeInsert, AfterRun
  <2>8. EntryInv'
    BY <1>1
    DEF Arrive, At, Goto, IInv, EntryInv, TypeOK, Arrived, Calls, Allowed
  <2>9. LedgerFirst'
    BY <1>1
    DEF Arrive, At, Goto, IInv, LedgerFirst, EntryInv, TypeOK, Arrived,
        Running, BeforeInsert, AfterRun, Calls
  <2>10. StreakInv'
    <3>1. Counted \subseteq Counted'
      BY <1>1
      DEF Arrive, At, Goto, IInv, Counted, TypeOK, Running, BeforeInsert,
          AfterRun
    <3> QED
      BY <1>1, <2>1, <3>1, StreakKept DEF Arrive, At, Goto, IInv, TypeOK
  <2> QED
    BY <2>1, <2>2, <2>3, <2>4, <2>5, <2>6, <2>7, <2>8, <2>9, <2>10 DEF IInv
<1>2. ASSUME NEW r \in Requests, Authorize(r) PROVE IInv'
  <2>1. TypeOK'
    <3>1. pc[r] # "new" /\ req[r] \in Calls
      BY <1>2 DEF Authorize, At, IInv, Arrived
    <3>2. /\ ledger \subseteq ledger'
          /\ ledger' \in SUBSET [request : Requests, role : Roles,
                                 action : Routes \cup {"replay"}]
      BY <1>2, <3>1, EnteredType DEF Authorize, IInv, TypeOK, Calls
    <3> QED
      BY <1>2, <3>2 DEF Authorize, At, Goto, Answer, IInv, TypeOK
  <2>2. Arrived'
    BY <1>2
    DEF Authorize, At, Goto, Answer, Entered, IInv, Arrived, TypeOK, Calls
  <2>3. Running'
    BY <1>2
    DEF Authorize, At, Goto, Answer, Entered, IInv, Running, Arrived, TypeOK,
        BeforeInsert, AfterRun, Failures
  <2>4. KeyInv'
    BY <1>2
    DEF Authorize, At, Goto, Answer, Entered, IInv, KeyInv, Arrived, Running,
        TypeOK, BeforeInsert, AfterRun, Calls
  <2>5. RowInv'
    BY <1>2, RequestAssumption
    DEF Authorize, At, Goto, Answer, Entered, IInv, RowInv, Arrived, Running,
        TypeOK, BeforeInsert, AfterRun, Failures
  <2>6. ReplayIsFaithful'
    BY <1>2, RequestAssumption
    DEF Authorize, At, Goto, Answer, Entered, IInv, ReplayIsFaithful, RowInv,
        Running, Arrived, TypeOK, BeforeInsert, AfterRun, Failures, Calls
  <2>7. CancelInv'
    BY <1>2
    DEF Authorize, At, Goto, Answer, Entered, IInv, CancelInv, Arrived,
        Running, TypeOK, BeforeInsert, AfterRun
  <2>8. EntryInv'
    <3>1. pc[r] = "authorize" /\ req[r] \in Calls /\ ledger \subseteq ledger'
      BY <1>2 DEF Authorize, At, IInv, Arrived, Entered
    <3>2. \A q \in Requests \ {r} : pc'[q] = pc[q]
      BY <1>2 DEF Authorize, Goto, Answer, IInv, TypeOK
    <3>3. pc'[r] # "end" =>
            /\ [request |-> r, action |-> req[r].route, role |-> "operator"]
                 \in ledger'
            /\ pc'[r] = "cancel" => req[r].route = "cancel"
      BY <1>2, <3>1
      DEF Authorize, Goto, Answer, Entered, Allowed, IInv, TypeOK
    <3> QED
      BY <1>2, <3>1, <3>2, <3>3 DEF Authorize, IInv, EntryInv
  <2>9. LedgerFirst'
    BY <1>2
    DEF Authorize, At, Goto, Answer, Entered, IInv, LedgerFirst, EntryInv,
        TypeOK, Arrived, Running, BeforeInsert, AfterRun, Calls
  <2>10. StreakInv'
    <3>1. Counted \subseteq Counted'
      BY <1>2
      DEF Authorize, At, Goto, Answer, Entered, IInv, Counted, TypeOK, Running,
          BeforeInsert, AfterRun
    <3> QED
      BY <1>2, <2>1, <3>1, StreakKept
      DEF Authorize, At, Goto, Answer, Entered, IInv, TypeOK
  <2> QED
    BY <2>1, <2>2, <2>3, <2>4, <2>5, <2>6, <2>7, <2>8, <2>9, <2>10 DEF IInv
<1>3. ASSUME NEW r \in Requests, Cancel(r) PROVE IInv'
  <2>1. TypeOK'
    BY <1>3
    DEF Cancel, At, Answer, IInv, TypeOK, Rows, Calls, Routes, Failures, Idle
  <2>2. Arrived'
    BY <1>3 DEF Cancel, At, Answer, IInv, Arrived, TypeOK, Calls
  <2>3. Running'
    BY <1>3
    DEF Cancel, At, Answer, IInv, Running, Arrived, TypeOK, BeforeInsert,
        AfterRun, Failures
  <2>4. KeyInv'
    BY <1>3
    DEF Cancel, At, Answer, IInv, KeyInv, Arrived, Running, TypeOK,
        BeforeInsert, AfterRun, Calls
  <2>5. RowInv'
    BY <1>3, RequestAssumption
    DEF Cancel, At, Answer, IInv, RowInv, Arrived, Running, TypeOK,
        BeforeInsert, AfterRun, Failures
  <2>6. ReplayIsFaithful'
    BY <1>3, RequestAssumption
    DEF Cancel, At, Answer, IInv, ReplayIsFaithful, RowInv, Running, Arrived,
        TypeOK, BeforeInsert, AfterRun, Failures, Calls
  <2>7. CancelInv'
    BY <1>3
    DEF Cancel, At, Answer, IInv, CancelInv, Arrived, Running, TypeOK,
        BeforeInsert, AfterRun
  <2>8. EntryInv'
    BY <1>3
    DEF Cancel, At, Answer, IInv, EntryInv, TypeOK, Arrived, Calls, Allowed
  <2>9. LedgerFirst'
    BY <1>3
    DEF Cancel, At, Answer, IInv, LedgerFirst, EntryInv, TypeOK, Arrived,
        Running, BeforeInsert, AfterRun, Calls
  <2>10. StreakInv'
    <3>1. Counted \subseteq Counted'
      BY <1>3
      DEF Cancel, At, Answer, IInv, Counted, TypeOK, Running, BeforeInsert,
          AfterRun
    <3> QED
      BY <1>3, <2>1, <3>1, StreakKept DEF Cancel, At, Answer, IInv, TypeOK
  <2> QED
    BY <2>1, <2>2, <2>3, <2>4, <2>5, <2>6, <2>7, <2>8, <2>9, <2>10 DEF IInv
<1>4. ASSUME NEW r \in Requests, CheckCancelled(r) PROVE IInv'
  <2>1. TypeOK'
    BY <1>4
    DEF CheckCancelled, At, Goto, Answer, IInv, TypeOK, Rows, Calls, Routes,
        Failures, Idle
  <2>2. Arrived'
    BY <1>4 DEF CheckCancelled, At, Goto, Answer, IInv, Arrived, TypeOK, Calls
  <2>3. Running'
    BY <1>4
    DEF CheckCancelled, At, Goto, Answer, IInv, Running, Arrived, TypeOK,
        BeforeInsert, AfterRun, Failures
  <2>4. KeyInv'
    BY <1>4
    DEF CheckCancelled, At, Goto, Answer, IInv, KeyInv, Arrived, Running,
        TypeOK, BeforeInsert, AfterRun, Calls
  <2>5. RowInv'
    BY <1>4, RequestAssumption
    DEF CheckCancelled, At, Goto, Answer, IInv, RowInv, Arrived, Running,
        TypeOK, BeforeInsert, AfterRun, Failures
  <2>6. ReplayIsFaithful'
    BY <1>4, RequestAssumption
    DEF CheckCancelled, At, Goto, Answer, IInv, ReplayIsFaithful, RowInv,
        Running, Arrived, TypeOK, BeforeInsert, AfterRun, Failures, Calls
  <2>7. CancelInv'
    BY <1>4
    DEF CheckCancelled, At, Goto, Answer, IInv, CancelInv, Arrived, Running,
        TypeOK, BeforeInsert, AfterRun
  <2>8. EntryInv'
    BY <1>4
    DEF CheckCancelled, At, Goto, Answer, IInv, EntryInv, TypeOK, Arrived,
        Calls, Allowed
  <2>9. LedgerFirst'
    BY <1>4
    DEF CheckCancelled, At, Goto, Answer, IInv, LedgerFirst, EntryInv, TypeOK,
        Arrived, Running, BeforeInsert, AfterRun, Calls
  <2>10. StreakInv'
    <3>1. Counted \subseteq Counted'
      BY <1>4
      DEF CheckCancelled, At, Goto, Answer, IInv, Counted, TypeOK, Running,
          BeforeInsert, AfterRun
    <3> QED
      BY <1>4, <2>1, <3>1, StreakKept
      DEF CheckCancelled, At, Goto, Answer, IInv, TypeOK
  <2> QED
    BY <2>1, <2>2, <2>3, <2>4, <2>5, <2>6, <2>7, <2>8, <2>9, <2>10 DEF IInv
<1>5. ASSUME NEW r \in Requests, Lookup(r) PROVE IInv'
  <2>1. TypeOK'
    <3>1. /\ ledger \subseteq ledger'
          /\ ledger' \in SUBSET [request : Requests, role : Roles,
                                 action : Routes \cup {"replay"}]
      BY <1>5, EnteredType DEF Lookup, At, Replay, IInv, TypeOK
    <3>2. req[r] \in Calls
      BY <1>5 DEF Lookup, At, IInv, Arrived
    <3>3. replayOf' \in [Requests -> Requests \cup {"none"}]
      BY <1>5, <3>2 DEF Lookup, Replay, IInv, TypeOK, Calls
    <3> QED
      BY <1>5, <3>1, <3>3
      DEF Lookup, At, Goto, Answer, Replay, IInv, TypeOK
  <2>2. Arrived'
    BY <1>5
    DEF Lookup, At, Goto, Answer, Entered, Replay, IInv, Arrived, TypeOK,
        Calls
  <2>3. Running'
    BY <1>5
    DEF Lookup, At, Goto, Answer, Entered, Replay, IInv, Running, Arrived,
        TypeOK, BeforeInsert, AfterRun, Failures
  <2>4. KeyInv'
    BY <1>5
    DEF Lookup, At, Goto, Answer, Entered, Replay, IInv, KeyInv, Arrived,
        Running, TypeOK, BeforeInsert, AfterRun, Calls
  <2>5. RowInv'
    BY <1>5, RequestAssumption
    DEF Lookup, At, Goto, Answer, Entered, Replay, IInv, RowInv, Arrived,
        Running, TypeOK, BeforeInsert, AfterRun, Failures
  <2>6. ReplayIsFaithful'
    BY <1>5, RequestAssumption
    DEF Lookup, At, Goto, Answer, Entered, Replay, IInv, ReplayIsFaithful,
        RowInv, Running, Arrived, TypeOK, BeforeInsert, AfterRun, Failures, Calls
  <2>7. CancelInv'
    BY <1>5
    DEF Lookup, At, Goto, Answer, Entered, Replay, IInv, CancelInv, Arrived,
        Running, TypeOK, BeforeInsert, AfterRun
  <2>8. EntryInv'
    BY <1>5
    DEF Lookup, At, Goto, Answer, Entered, Replay, IInv, EntryInv, TypeOK,
        Arrived, Calls, Allowed
  <2>9. LedgerFirst'
    <3>1. ledger \subseteq ledger' /\ UNCHANGED <<cancelled, runs, req>>
      BY <1>5 DEF Lookup, Replay, Entered
    <3>2. \A q \in Requests : answer'[q] = "replay" =>
            \/ answer[q] = "replay"
            \/ [request |-> q, action |-> "replay", role |-> req[q].role]
                 \in ledger'
      BY <1>5 DEF Lookup, Goto, Answer, Replay, Entered, IInv, TypeOK
    <3>3. \A q \in Requests : answer'[q] = "replay" =>
            \E e \in ledger' : e.request = q /\ e.action = "replay"
      <4>1. ASSUME NEW q \in Requests, answer[q] = "replay"
            PROVE  \E e \in ledger' : e.request = q /\ e.action = "replay"
        BY <3>1, <4>1 DEF IInv, LedgerFirst
      <4>2. ASSUME NEW q \in Requests,
                   [request |-> q, action |-> "replay", role |-> req[q].role]
                     \in ledger'
            PROVE  \E e \in ledger' : e.request = q /\ e.action = "replay"
        BY <4>2
      <4> QED
        BY <3>2, <4>1, <4>2
    <3>4. /\ cancelled' => \E e \in ledger' : /\ e.action = "cancel"
                                              /\ e.role = "operator"
          /\ \A q \in runs' : req'[q].route # "execute" =>
               \E e \in ledger' : e.request = q /\ e.action = req'[q].route
      BY <3>1 DEF IInv, LedgerFirst
    <3> QED
      BY <3>3, <3>4 DEF LedgerFirst
  <2>10. StreakInv'
    <3>1. Counted \subseteq Counted'
      BY <1>5
      DEF Lookup, At, Goto, Answer, Entered, Replay, IInv, Counted, TypeOK,
          Running, BeforeInsert, AfterRun
    <3> QED
      BY <1>5, <2>1, <3>1, StreakKept
      DEF Lookup, At, Goto, Answer, Entered, Replay, IInv, TypeOK
  <2> QED
    BY <2>1, <2>2, <2>3, <2>4, <2>5, <2>6, <2>7, <2>8, <2>9, <2>10 DEF IInv
<1>6. ASSUME NEW r \in Requests, Insert(r) PROVE IInv'
  <2>1. TypeOK'
    BY <1>6
    DEF Insert, At, Goto, IInv, TypeOK, Rows, Calls, Routes, Failures, Idle
  <2>2. Arrived'
    BY <1>6 DEF Insert, At, Goto, IInv, Arrived, TypeOK, Calls
  <2>3. Running'
    BY <1>6
    DEF Insert, At, Goto, IInv, Running, Arrived, TypeOK, BeforeInsert,
        AfterRun, Failures
  <2>4. KeyInv'
    BY <1>6
    DEF Insert, At, Goto, IInv, KeyInv, Arrived, Running, TypeOK,
        BeforeInsert, AfterRun, Calls
  <2>5. RowInv'
    BY <1>6, RequestAssumption
    DEF Insert, At, Goto, IInv, RowInv, Arrived, Running, TypeOK,
        BeforeInsert, AfterRun, Failures
  <2>6. ReplayIsFaithful'
    BY <1>6, RequestAssumption
    DEF Insert, At, Goto, IInv, ReplayIsFaithful, RowInv, Running, Arrived,
        TypeOK, BeforeInsert, AfterRun, Failures, Calls
  <2>7. CancelInv'
    BY <1>6
    DEF Insert, At, Goto, IInv, CancelInv, Arrived, Running, TypeOK,
        BeforeInsert, AfterRun
  <2>8. EntryInv'
    BY <1>6
    DEF Insert, At, Goto, IInv, EntryInv, TypeOK, Arrived, Calls, Allowed
  <2>9. LedgerFirst'
    BY <1>6
    DEF Insert, At, Goto, IInv, LedgerFirst, EntryInv, TypeOK, Arrived,
        Running, BeforeInsert, AfterRun, Calls
  <2>10. StreakInv'
    <3>1. Counted \subseteq Counted'
      BY <1>6
      DEF Insert, At, Goto, IInv, Counted, TypeOK, Running, BeforeInsert,
          AfterRun
    <3> QED
      BY <1>6, <2>1, <3>1, StreakKept DEF Insert, At, Goto, IInv, TypeOK
  <2> QED
    BY <2>1, <2>2, <2>3, <2>4, <2>5, <2>6, <2>7, <2>8, <2>9, <2>10 DEF IInv
<1>7. ASSUME NEW r \in Requests, SaveCheckpoint(r) PROVE IInv'
  <2>1. TypeOK'
    BY <1>7
    DEF SaveCheckpoint, At, IInv, TypeOK, Rows, Calls, Routes, Failures, Idle
  <2>2. Arrived'
    BY <1>7 DEF SaveCheckpoint, At, IInv, Arrived, TypeOK, Calls
  <2>3. Running'
    BY <1>7
    DEF SaveCheckpoint, At, IInv, Running, Arrived, TypeOK, BeforeInsert,
        AfterRun, Failures
  <2>4. KeyInv'
    BY <1>7
    DEF SaveCheckpoint, At, IInv, KeyInv, Arrived, Running, TypeOK,
        BeforeInsert, AfterRun, Calls
  <2>5. RowInv'
    BY <1>7, RequestAssumption
    DEF SaveCheckpoint, At, IInv, RowInv, Arrived, Running, TypeOK,
        BeforeInsert, AfterRun, Failures
  <2>6. ReplayIsFaithful'
    BY <1>7, RequestAssumption
    DEF SaveCheckpoint, At, IInv, ReplayIsFaithful, RowInv, Running, Arrived,
        TypeOK, BeforeInsert, AfterRun, Failures, Calls
  <2>7. CancelInv'
    BY <1>7
    DEF SaveCheckpoint, At, IInv, CancelInv, Arrived, Running, TypeOK,
        BeforeInsert, AfterRun
  <2>8. EntryInv'
    BY <1>7
    DEF SaveCheckpoint, At, IInv, EntryInv, TypeOK, Arrived, Calls, Allowed
  <2>9. LedgerFirst'
    BY <1>7
    DEF SaveCheckpoint, At, IInv, LedgerFirst, EntryInv, TypeOK, Arrived,
        Running, BeforeInsert, AfterRun, Calls
  <2>10. StreakInv'
    <3>1. Counted \subseteq Counted'
      BY <1>7
      DEF SaveCheckpoint, At, IInv, Counted, TypeOK, Running, BeforeInsert,
          AfterRun
    <3> QED
      BY <1>7, <2>1, <3>1, StreakKept DEF SaveCheckpoint, At, IInv, TypeOK
  <2> QED
    BY <2>1, <2>2, <2>3, <2>4, <2>5, <2>6, <2>7, <2>8, <2>9, <2>10 DEF IInv
<1>8. ASSUME NEW r \in Requests, RunEnds(r) PROVE IInv'
  <2>1. TypeOK'
    BY <1>8
    DEF RunEnds, At, Goto, IInv, TypeOK, Rows, Calls, Routes, Failures, Idle
  <2>2. Arrived'
    BY <1>8 DEF RunEnds, At, Goto, IInv, Arrived, TypeOK, Calls
  <2>3. Running'
    BY <1>8
    DEF RunEnds, At, Goto, IInv, Running, Arrived, TypeOK, BeforeInsert,
        AfterRun, Failures
  <2>4. KeyInv'
    BY <1>8
    DEF RunEnds, At, Goto, IInv, KeyInv, Arrived, Running, TypeOK,
        BeforeInsert, AfterRun, Calls
  <2>5. RowInv'
    BY <1>8, RequestAssumption
    DEF RunEnds, At, Goto, IInv, RowInv, Arrived, Running, TypeOK,
        BeforeInsert, AfterRun, Failures
  <2>6. ReplayIsFaithful'
    BY <1>8, RequestAssumption
    DEF RunEnds, At, Goto, IInv, ReplayIsFaithful, RowInv, Running, Arrived,
        TypeOK, BeforeInsert, AfterRun, Failures, Calls
  <2>7. CancelInv'
    BY <1>8
    DEF RunEnds, At, Goto, IInv, CancelInv, Arrived, Running, TypeOK,
        BeforeInsert, AfterRun
  <2>8. EntryInv'
    BY <1>8
    DEF RunEnds, At, Goto, IInv, EntryInv, TypeOK, Arrived, Calls, Allowed
  <2>9. LedgerFirst'
    BY <1>8
    DEF RunEnds, At, Goto, IInv, LedgerFirst, EntryInv, TypeOK, Arrived,
        Running, BeforeInsert, AfterRun, Calls
  <2>10. StreakInv'
    <3>1. Counted \subseteq Counted'
      BY <1>8
      DEF RunEnds, At, Goto, IInv, Counted, TypeOK, Running, BeforeInsert,
          AfterRun, Failures
    <3> QED
      BY <1>8, <2>1, <3>1, StreakKept DEF RunEnds, At, Goto, IInv, TypeOK
  <2> QED
    BY <2>1, <2>2, <2>3, <2>4, <2>5, <2>6, <2>7, <2>8, <2>9, <2>10 DEF IInv
<1>9. ASSUME NEW r \in Requests, Store(r) PROVE IInv'
  <2>1. TypeOK'
    BY <1>9
    DEF Store, At, Goto, IInv, TypeOK, Rows, Calls, Routes, Failures, Idle
  <2>2. Arrived'
    BY <1>9 DEF Store, At, Goto, IInv, Arrived, TypeOK, Calls
  <2>3. Running'
    BY <1>9
    DEF Store, At, Goto, IInv, Running, Arrived, TypeOK, BeforeInsert,
        AfterRun, Failures
  <2>4. KeyInv'
    BY <1>9, RequestAssumption
    DEF Store, At, Goto, IInv, KeyInv, Arrived, Running, TypeOK, BeforeInsert,
        AfterRun, Calls
  <2>5. RowInv'
    BY <1>9, RequestAssumption
    DEF Store, At, Goto, IInv, RowInv, Arrived, Running, TypeOK, BeforeInsert,
        AfterRun, Failures
  <2>6. ReplayIsFaithful'
    BY <1>9, RequestAssumption
    DEF Store, At, Goto, IInv, ReplayIsFaithful, RowInv, Running, Arrived,
        TypeOK, BeforeInsert, AfterRun, Failures, Calls
  <2>7. CancelInv'
    BY <1>9
    DEF Store, At, Goto, IInv, CancelInv, Arrived, Running, TypeOK,
        BeforeInsert, AfterRun
  <2>8. EntryInv'
    BY <1>9
    DEF Store, At, Goto, IInv, EntryInv, TypeOK, Arrived, Calls, Allowed
  <2>9. LedgerFirst'
    BY <1>9
    DEF Store, At, Goto, IInv, LedgerFirst, EntryInv, TypeOK, Arrived,
        Running, BeforeInsert, AfterRun, Calls
  <2>10. StreakInv'
    <3>1. Counted \subseteq Counted'
      BY <1>9
      DEF Store, At, Goto, IInv, Counted, TypeOK, Running, BeforeInsert,
          AfterRun
    <3> QED
      BY <1>9, <2>1, <3>1, StreakKept DEF Store, At, Goto, IInv, TypeOK
  <2> QED
    BY <2>1, <2>2, <2>3, <2>4, <2>5, <2>6, <2>7, <2>8, <2>9, <2>10 DEF IInv
<1>10. ASSUME NEW r \in Requests, ReadEscalation(r) PROVE IInv'
  <2>1. TypeOK'
    BY <1>10
    DEF ReadEscalation, At, Goto, IInv, TypeOK, Rows, Calls, Routes, Failures,
        Idle
  <2>2. Arrived'
    BY <1>10 DEF ReadEscalation, At, Goto, IInv, Arrived, TypeOK, Calls
  <2>3. Running'
    BY <1>10
    DEF ReadEscalation, At, Goto, IInv, Running, Arrived, TypeOK,
        BeforeInsert, AfterRun, Failures
  <2>4. KeyInv'
    BY <1>10
    DEF ReadEscalation, At, Goto, IInv, KeyInv, Arrived, Running, TypeOK,
        BeforeInsert, AfterRun, Calls
  <2>5. RowInv'
    BY <1>10, RequestAssumption
    DEF ReadEscalation, At, Goto, IInv, RowInv, Arrived, Running, TypeOK,
        BeforeInsert, AfterRun, Failures
  <2>6. ReplayIsFaithful'
    BY <1>10, RequestAssumption
    DEF ReadEscalation, At, Goto, IInv, ReplayIsFaithful, RowInv, Running,
        Arrived, TypeOK, BeforeInsert, AfterRun, Failures, Calls
  <2>7. CancelInv'
    BY <1>10
    DEF ReadEscalation, At, Goto, IInv, CancelInv, Arrived, Running, TypeOK,
        BeforeInsert, AfterRun
  <2>8. EntryInv'
    BY <1>10
    DEF ReadEscalation, At, Goto, IInv, EntryInv, TypeOK, Arrived, Calls,
        Allowed
  <2>9. LedgerFirst'
    BY <1>10
    DEF ReadEscalation, At, Goto, IInv, LedgerFirst, EntryInv, TypeOK,
        Arrived, Running, BeforeInsert, AfterRun, Calls
  <2>10. StreakInv'
    <3>1. Counted \subseteq Counted'
      BY <1>10
      DEF ReadEscalation, At, Goto, IInv, Counted, TypeOK, Running,
          BeforeInsert, AfterRun
    <3> QED
      BY <1>10, <2>1, <3>1, StreakKept
      DEF ReadEscalation, At, Goto, IInv, TypeOK
  <2> QED
    BY <2>1, <2>2, <2>3, <2>4, <2>5, <2>6, <2>7, <2>8, <2>9, <2>10 DEF IInv
<1>11. ASSUME NEW r \in Requests, Observe(r) PROVE IInv'
  <2>1. TypeOK'
    <3>1. seen[r] \in Rows /\ NoStreak \in Rows
      BY DEF IInv, TypeOK, Rows, NoStreak
    <3>2. Escalated(seen[r], result[r]) \in Rows
      BY <3>1 DEF Escalated, Rows, Smaller
    <3> QED
      BY <1>11, <3>1, <3>2 DEF Observe, At, Goto, IInv, TypeOK
  <2>2. Arrived'
    BY <1>11 DEF Observe, At, Goto, IInv, Arrived, TypeOK, Calls
  <2>3. Running'
    BY <1>11
    DEF Observe, At, Goto, IInv, Running, Arrived, TypeOK, BeforeInsert,
        AfterRun, Failures
  <2>4. KeyInv'
    BY <1>11
    DEF Observe, At, Goto, IInv, KeyInv, Arrived, Running, TypeOK,
        BeforeInsert, AfterRun, Calls
  <2>5. RowInv'
    BY <1>11, RequestAssumption
    DEF Observe, At, Goto, IInv, RowInv, Arrived, Running, TypeOK,
        BeforeInsert, AfterRun, Failures
  <2>6. ReplayIsFaithful'
    BY <1>11, RequestAssumption
    DEF Observe, At, Goto, IInv, ReplayIsFaithful, RowInv, Running, Arrived,
        TypeOK, BeforeInsert, AfterRun, Failures, Calls
  <2>7. CancelInv'
    BY <1>11
    DEF Observe, At, Goto, IInv, CancelInv, Arrived, Running, TypeOK,
        BeforeInsert, AfterRun
  <2>8. EntryInv'
    BY <1>11
    DEF Observe, At, Goto, IInv, EntryInv, TypeOK, Arrived, Calls, Allowed
  <2>9. LedgerFirst'
    BY <1>11
    DEF Observe, At, Goto, IInv, LedgerFirst, EntryInv, TypeOK, Arrived,
        Running, BeforeInsert, AfterRun, Calls
  <2>10. StreakInv'
    <3>1. pc[r] = "observe" /\ r \in runs /\ result[r] # "none"
      BY <1>11 DEF Observe, At, IInv, Running, AfterRun
    <3>2. Counted \subseteq Counted' /\ r \notin Counted
      BY <1>11, <3>1 DEF Observe, At, Goto, IInv, Counted, TypeOK
    <3>3. result[r] \in Failures => r \in Counted'
      BY <1>11, <3>1 DEF Observe, At, Goto, IInv, Counted, TypeOK
    <3>4. result[r] \in Failures =>
            Cardinality(Counted) + 1 <= Cardinality(Counted')
      <4>1. SUFFICES ASSUME result[r] \in Failures
                     PROVE  Cardinality(Counted) + 1 <= Cardinality(Counted')
        OBVIOUS
      <4>2. Cardinality(Counted \cup {r}) = Cardinality(Counted) + 1
        BY <2>1, <3>2, CountedGrows, FS_AddElement
      <4>3. Counted \cup {r} \subseteq Counted'
        BY <3>2, <3>3, <4>1
      <4> QED
        BY <2>1, <3>2, <4>2, <4>3, CountedGrows, FS_Subset
    <3>5. Agrees(esc') /\ esc'.streak <= Cardinality(Counted')
      <4>1. seen[r] \in Rows /\ Agrees(seen[r])
            /\ seen[r].streak <= Cardinality(Counted)
        BY DEF IInv, TypeOK, StreakInv
      <4>2. esc' = Escalated(seen[r], result[r])
        BY <1>11 DEF Observe
      <4> QED
        BY <2>1, <3>2, <3>4, <4>1, <4>2, CountedGrows, ThresholdAssumption
        DEF Escalated, Rows, Agrees, NoStreak, Smaller
    <3>6. \A q \in Requests :
            Agrees(seen'[q]) /\ seen'[q].streak <= Cardinality(Counted')
      <4>1. \A q \in Requests : seen'[q] \in {seen[q], NoStreak}
        BY <1>11 DEF Observe, IInv, TypeOK
      <4> QED
        BY <2>1, <3>2, <4>1, CountedGrows, ThresholdAssumption
        DEF IInv, TypeOK, Rows, StreakInv, Agrees, NoStreak
    <3> QED
      BY <3>5, <3>6 DEF StreakInv
  <2> QED
    BY <2>1, <2>2, <2>3, <2>4, <2>5, <2>6, <2>7, <2>8, <2>9, <2>10 DEF IInv
<1>12. ASSUME NEW r \in Requests, UpdateControl(r) PROVE IInv'
  <2>1. TypeOK'
    BY <1>12
    DEF UpdateControl, At, Answer, IInv, TypeOK, Rows, Calls, Routes,
        Failures, Idle
  <2>2. Arrived'
    BY <1>12 DEF UpdateControl, At, Answer, IInv, Arrived, TypeOK, Calls
  <2>3. Running'
    BY <1>12
    DEF UpdateControl, At, Answer, IInv, Running, Arrived, TypeOK,
        BeforeInsert, AfterRun, Failures
  <2>4. KeyInv'
    BY <1>12
    DEF UpdateControl, At, Answer, IInv, KeyInv, Arrived, Running, TypeOK,
        BeforeInsert, AfterRun, Calls
  <2>5. RowInv'
    BY <1>12, RequestAssumption
    DEF UpdateControl, At, Answer, IInv, RowInv, Arrived, Running, TypeOK,
        BeforeInsert, AfterRun, Failures
  <2>6. ReplayIsFaithful'
    BY <1>12, RequestAssumption
    DEF UpdateControl, At, Answer, IInv, ReplayIsFaithful, RowInv, Running,
        Arrived, TypeOK, BeforeInsert, AfterRun, Failures, Calls
  <2>7. CancelInv'
    BY <1>12
    DEF UpdateControl, At, Answer, IInv, CancelInv, Arrived, Running, TypeOK,
        BeforeInsert, AfterRun
  <2>8. EntryInv'
    BY <1>12
    DEF UpdateControl, At, Answer, IInv, EntryInv, TypeOK, Arrived, Calls,
        Allowed
  <2>9. LedgerFirst'
    BY <1>12
    DEF UpdateControl, At, Answer, IInv, LedgerFirst, EntryInv, TypeOK,
        Arrived, Running, BeforeInsert, AfterRun, Calls
  <2>10. StreakInv'
    <3>1. Counted \subseteq Counted'
      BY <1>12
      DEF UpdateControl, At, Answer, IInv, Counted, TypeOK, Running,
          BeforeInsert, AfterRun
    <3> QED
      BY <1>12, <2>1, <3>1, StreakKept
      DEF UpdateControl, At, Answer, IInv, TypeOK
  <2> QED
    BY <2>1, <2>2, <2>3, <2>4, <2>5, <2>6, <2>7, <2>8, <2>9, <2>10 DEF IInv
<1>13. ASSUME NEW r \in Requests, Abort(r) PROVE IInv'
  <2>1. TypeOK'
    BY <1>13
    DEF Abort, Answer, IInv, TypeOK, Rows, Calls, Routes, Failures, Idle
  <2>2. Arrived'
    BY <1>13 DEF Abort, Answer, IInv, Arrived, TypeOK, Calls
  <2>3. Running'
    BY <1>13
    DEF Abort, Answer, IInv, Running, Arrived, TypeOK, BeforeInsert, AfterRun,
        Failures
  <2>4. KeyInv'
    BY <1>13
    DEF Abort, Answer, IInv, KeyInv, Arrived, Running, TypeOK, BeforeInsert,
        AfterRun, Calls
  <2>5. RowInv'
    BY <1>13, RequestAssumption
    DEF Abort, Answer, IInv, RowInv, Arrived, Running, TypeOK, BeforeInsert,
        AfterRun, Failures
  <2>6. ReplayIsFaithful'
    BY <1>13, RequestAssumption
    DEF Abort, Answer, IInv, ReplayIsFaithful, RowInv, Running, Arrived,
        TypeOK, BeforeInsert, AfterRun, Failures, Calls
  <2>7. CancelInv'
    BY <1>13
    DEF Abort, Answer, IInv, CancelInv, Arrived, Running, TypeOK,
        BeforeInsert, AfterRun
  <2>8. EntryInv'
    BY <1>13
    DEF Abort, Answer, IInv, EntryInv, TypeOK, Arrived, Calls, Allowed
  <2>9. LedgerFirst'
    BY <1>13
    DEF Abort, Answer, IInv, LedgerFirst, EntryInv, TypeOK, Arrived, Running,
        BeforeInsert, AfterRun, Calls
  <2>10. StreakInv'
    <3>1. Counted \subseteq Counted'
      BY <1>13
      DEF Abort, Answer, IInv, Counted, TypeOK, Running, BeforeInsert, AfterRun
    <3> QED
      BY <1>13, <2>1, <3>1, StreakKept DEF Abort, Answer, IInv, TypeOK
  <2> QED
    BY <2>1, <2>2, <2>3, <2>4, <2>5, <2>6, <2>7, <2>8, <2>9, <2>10 DEF IInv
<1>14. CASE UNCHANGED vars
  <2>1. TypeOK' /\ Arrived' /\ Running' /\ KeyInv' /\ RowInv'
    BY <1>14 DEF vars, IInv, TypeOK, Arrived, Running, KeyInv, RowInv
  <2>2. ReplayIsFaithful' /\ CancelInv' /\ EntryInv' /\ LedgerFirst'
    BY <1>14
    DEF vars, IInv, ReplayIsFaithful, CancelInv, EntryInv, LedgerFirst
  <2>3. Counted' = Counted
    BY <1>14 DEF vars, Counted
  <2>4. StreakInv'
    BY <1>14, <2>3 DEF vars, IInv, StreakInv
  <2> QED
    BY <2>1, <2>2, <2>4 DEF IInv
<1> QED
  BY <1>1, <1>2, <1>3, <1>4, <1>5, <1>6, <1>7, <1>8, <1>9, <1>10, <1>11,
     <1>12, <1>13, <1>14
  DEF Next, Serve

(* Where requests stand, which keys are used and what was counted is as    *)
(* IInv says, in every reachable state.                                    *)
THEOREM Strengthening == Spec => []IInv
  BY InitEstablishes, StepPreserves, PTL DEF Spec

-------------------------------------------------------------------------------
(* Every variable has its type.                                            *)
THEOREM TypeCorrect == Spec => []TypeOK
<1>1. IInv => TypeOK
  BY DEF IInv
<1> QED
  BY <1>1, Strengthening, PTL

(* A request never runs a key that had been run when it arrived: the row   *)
(* of a used key is there for ever, whatever became of the run             *)
(* (main.py:181-238).                                                      *)
THEOREM UsedKeysAreNotRerun == Spec => []NoRerun
<1>1. IInv => NoRerun
  BY DEF IInv, TypeOK, KeyInv, NoRerun
<1> QED
  BY <1>1, Strengthening, PTL

(* A replay returns the response of a run of its key, and that run ended   *)
(* (main.py:191-215).                                                      *)
THEOREM ReplaysAreFaithful == Spec => []ReplayIsFaithful
<1>1. IInv => ReplayIsFaithful
  BY DEF IInv
<1> QED
  BY <1>1, Strengthening, PTL

(* Nothing runs for a request that arrived after a cancellation was        *)
(* answered (main.py:160-180, 313-329).                                    *)
THEOREM CancellationStands == Spec => []CancelStands
<1>1. IInv => CancelStands
  BY DEF IInv, TypeOK, CancelInv, CancelStands
<1> QED
  BY <1>1, Strengthening, PTL

(* Cancellations, control runs and replays are in the ledger               *)
(* (governance.py:53-74).                                                  *)
THEOREM EffectsAreInLedger == Spec => []LedgerFirst
<1>1. IInv => LedgerFirst
  BY DEF IInv
<1> QED
  BY <1>1, Strengthening, PTL

(* The escalation row agrees with itself and counts no failure twice,      *)
(* although observers lose each other's updates (escalation.py:21-52).     *)
THEOREM EscalationIsSound == Spec => []EscalationAgrees
<1>1. ASSUME IInv PROVE EscalationAgrees
  <2>1. Agrees(esc) /\ esc.streak <= Cardinality(Counted) /\ esc.streak \in Nat
    BY <1>1 DEF IInv, StreakInv, TypeOK, Rows
  <2>2. Counted \subseteq {r \in runs : result[r] \in Failures}
    BY DEF Counted
  <2>3. IsFiniteSet({r \in runs : result[r] \in Failures})
    <3>1. {r \in runs : result[r] \in Failures} \subseteq Requests
      BY <1>1 DEF IInv, TypeOK
    <3> QED
      BY <3>1, FiniteAssumption, FS_Subset
  <2> DEFINE failing == {r \in runs : result[r] \in Failures}
  <2>4. /\ Cardinality(Counted) <= Cardinality(failing)
        /\ Cardinality(Counted) \in Nat /\ Cardinality(failing) \in Nat
    BY <2>2, <2>3, FS_Subset, FS_CardinalityType
  <2> QED
    BY <2>1, <2>4 DEF Agrees, EscalationAgrees
<1> QED
  BY <1>1, Strengthening, PTL
===============================================================================
