---- MODULE ConductorProofs ----
(***************************************************************************)
(* Proofs about the parts of the conductor that MCConductor puts side by   *)
(* side, for all values of the constants: any number of requests, keys,    *)
(* runs and files.                                                         *)
(*                                                                         *)
(* PackageRoute: what a request has written is told by where it stands,    *)
(* and a row that is completed names a request that has written            *)
(* everything; so the properties hold although overlapping requests of one *)
(* key insert a row each and take the completed row of the other back to   *)
(* in progress.                                                            *)
(*                                                                         *)
(* ExecutionStages: a run's plan and diff stay what they are while it      *)
(* writes, and a repair has an outcome only when its writes are over; the  *)
(* row is that of the run that saved last; and as long as no two runs have *)
(* been under way at once, a run that moves moves alone.                   *)
(***************************************************************************)
EXTENDS TLAPS, MCConductor

(* The packaging routes: their inductive invariant.                        *)

Writing == {"chosen", "frontier", "residual", "complete"}
Fresh   == {"new", "count", "approve", "classify", "lookup"}

Arrived ==
  \A r \in Requests :
    /\ pc[r] = "new" => ~late[r] /\ ~again[r]
    /\ pc[r] # "new" => req[r] \in Calls
    /\ pc[r] # "end" => answer[r] = "none"

(* Who has begun to write, and what it has written so far.                 *)
Begun ==
  \A r \in Requests :
    /\ pc[r] \in Writing \cup {"final"} => r \in began
    /\ r \in began => pc[r] \in Writing \cup {"final", "end"}
    /\ answer[r] = "ok" => r \in began

SoFar ==
  \A r \in Requests :
    /\ r \notin began \/ pc[r] = "chosen" => Written(r) = {}
    /\ pc[r] = "frontier" => Written(r) = Wanted(req[r]) \cap {"chosen"}
    /\ pc[r] = "residual" =>
         Written(r) = Wanted(req[r]) \cap {"chosen", "frontier"}
    /\ pc[r] = "complete" => Written(r) = Wanted(req[r])

Finished(r) == /\ r \in began /\ pc[r] \in {"final", "end"}
               /\ Written(r) = Wanted(req[r]) /\ packaged

Succeeded ==
  /\ \A r \in Requests : /\ pc[r] = "final" => Finished(r)
                         /\ answer[r] = "ok" => Finished(r)
  /\ \A e \in events : e.phase = "final" => Finished(e.request)

(* A completed row is of a request of its key that is finished; a row in   *)
(* progress, of one that has not said it succeeded.                        *)
RowInv ==
  /\ \A k \in Keys : row[k] \in Requests =>
       Finished(row[k]) /\ req[row[k]].key = k
  /\ \A k \in Keys : row[k] = "in_progress" =>
       \E q \in began : /\ req[q].key = k
                        /\ pc[q] # "final" /\ answer[q] # "ok"
  /\ last # "none" => last \in Keys /\ row[last] # "none"

(* A key that a request began with has a row for ever, and a late request  *)
(* knows.                                                                  *)
KeyInv ==
  \A r \in Requests :
    /\ r \in began => row[req[r].key] # "none"
    /\ late[r] => row[req[r].key] # "none" /\ pc[r] # "insert" /\ r \notin began

ReplayInv ==
  \A r \in Requests :
    /\ pc[r] \in Fresh => replayOf[r] = "none"
    /\ pc[r] = "replay" \/ answer[r] = "replay" => replayOf[r] # "none"
    /\ replayOf[r] # "none" =>
         Finished(replayOf[r]) /\ req[replayOf[r]].key = req[r].key

(* A retry that arrived after a completed package has counted it when it   *)
(* asks for the approval, and has the approval after it.                   *)
Granted(r) ==
  /\ req[r].role = "admin" /\ req[r].duplicates /\ req[r].approval = "good"
  /\ [request |-> r, action |-> "retry", approved |-> TRUE] \in ledger

ApprovalInv ==
  \A r \in Requests :
    /\ again[r] => packaged
    /\ again[r] /\ pc[r] = "approve" => counted[r]
    /\ pc[r] \in {"count", "approve"} => req[r].route = "retry"
    /\ /\ again[r] /\ pc[r] # "new" /\ req[r].route = "retry"
       /\ pc[r] \in {"classify", "lookup", "insert"} \/ r \in began
       => Granted(r)

(* Who got an answer of the route has an event.                            *)
EventInv ==
  \A r \in Requests :
    answer[r] \in {"ok", "replay", "rejected", "in_progress"} =>
      \E e \in events : e.request = r

PackInv == /\ TypeOK /\ Arrived /\ Begun /\ SoFar /\ Succeeded /\ RowInv
        /\ KeyInv /\ ReplayInv /\ ApprovalInv /\ EventInv

LEMMA PackInit == Init => PackInv
<1> SUFFICES ASSUME Init PROVE PackInv
  OBVIOUS
<1> USE DEF Init
<1>1. TypeOK
  BY DEF TypeOK
<1>2. Arrived /\ Begun /\ KeyInv /\ ReplayInv /\ ApprovalInv /\ EventInv
  BY DEF Arrived, Begun, Writing, KeyInv, ReplayInv, ApprovalInv, EventInv
<1>3. SoFar
  BY DEF SoFar, Written
<1>4. Succeeded /\ RowInv
  BY RequestAssumption DEF Succeeded, RowInv
<1> QED
  BY <1>1, <1>2, <1>3, <1>4 DEF PackInv

(* What a write adds, and to whom.                                         *)
LEMMA WritesOne ==
  ASSUME NEW r \in Requests, NEW k \in Kinds, Writes(r, k)
  PROVE  /\ Written(r)' = Written(r) \cup {k}
         /\ \A q \in Requests \ {r} : Written(q)' = Written(q)
  BY DEF Writes, Written

(* What a request writes at each stage is what it still wants.             *)
LEMMA WantedKinds ==
  ASSUME NEW c \in Calls
  PROVE  /\ Wanted(c) \subseteq Kinds
         /\ "chosen" \in Wanted(c) <=> WantsChosen(c)
         /\ "frontier" \in Wanted(c) <=> WantsFrontier(c)
         /\ "residual" \in Wanted(c) <=> WantsResidual(c)
  BY DEF Wanted, Kinds

(* An entry of the ledger, and an event, is well formed.                   *)
LEMMA EnteredType ==
  ASSUME TypeOK, NEW r \in Requests, NEW action \in {"retry", "replay"},
         NEW approved \in BOOLEAN,
         Entered(r, action, approved) \/ UNCHANGED ledger
  PROVE  ledger' \in SUBSET [request : Requests, action : {"retry", "replay"},
                             approved : BOOLEAN]
  BY DEF Entered, TypeOK

LEMMA EmitType ==
  ASSUME TypeOK, NEW r \in Requests,
         NEW ph \in {"validate", "replay", "final"}, Emit(r, ph)
  PROVE  events' \in SUBSET [request : Requests,
                             phase : {"validate", "replay", "final"}]
  BY DEF Emit, TypeOK

(* A step that takes nobody past the approval and removes no entry keeps   *)
(* the grants.                                                             *)
LEMMA GrantsStay ==
  ASSUME PackInv, NEW r \in Requests, UNCHANGED <<req, again>>,
         ledger \subseteq ledger', packaged => packaged',
         \A q \in Requests \ {r} :
           /\ pc'[q] = pc[q] /\ counted'[q] = counted[q]
           /\ q \in began' => q \in began,
         again[r] /\ pc'[r] = "approve" => counted'[r],
         pc'[r] \in {"count", "approve"} => pc[r] = "count",
         pc[r] # "new",
         pc'[r] \in {"classify", "lookup", "insert"} \/ r \in began' =>
           pc[r] \in {"classify", "lookup", "insert"} \/ r \in began
  PROVE  ApprovalInv'
<1>1. \A q \in Requests : Granted(q) => Granted(q)'
  BY DEF Granted
<1> QED
  BY <1>1 DEF PackInv, ApprovalInv

LEMMA EmitTells ==
  ASSUME NEW r, NEW ph, Emit(r, ph)
  PROVE  \E e \in events' : e.request = r
<1>1. [request |-> r, phase |-> ph] \in events'
  BY DEF Emit
<1> QED
  BY <1>1

(* A step of the packaging routes keeps the invariant.                     *)
LEMMA PackStep == ASSUME PackInv, [Next]_vars PROVE PackInv'
<1>1. ASSUME NEW r \in Requests, Arrive(r) PROVE PackInv'
  <2>1. TypeOK'
    BY <1>1, RequestAssumption
    DEF Arrive, At, Goto, marks, PackInv, TypeOK, Kinds, Calls
  <2>2. Arrived'
    BY <1>1 DEF Arrive, At, Goto, marks, PackInv, Arrived, TypeOK
  <2>3. Begun'
    BY <1>1 DEF Arrive, At, Goto, marks, PackInv, Begun, Arrived, TypeOK, Writing
  <2>4. SoFar'
    BY <1>1
    DEF Arrive, At, Goto, marks, PackInv, SoFar, Arrived, Begun, TypeOK, Writing,
        Written
  <2>5. Succeeded'
    BY <1>1
    DEF Arrive, At, Goto, marks, PackInv, Succeeded, Finished, Arrived, Begun,
        SoFar, TypeOK, Writing, Written
  <2>6. RowInv'
    BY <1>1, RequestAssumption
    DEF Arrive, At, Goto, marks, PackInv, RowInv, Finished, Arrived, Begun,
        TypeOK, Writing, Written
  <2>7. KeyInv'
    BY <1>1
    DEF Arrive, At, Goto, marks, PackInv, KeyInv, Arrived, Begun, TypeOK, Writing,
        Calls
  <2>8. ReplayInv'
    BY <1>1, RequestAssumption
    DEF Arrive, At, Goto, marks, PackInv, ReplayInv, Finished, Fresh, Arrived,
        Begun, TypeOK, Writing, RowInv, Calls, Written
  <2>9. ApprovalInv'
    <3>1. \A q \in Requests \ {r} : /\ pc'[q] = pc[q] /\ req'[q] = req[q]
                                    /\ again'[q] = again[q]
      BY <1>1 DEF Arrive, At, Goto, PackInv, TypeOK
    <3>2. /\ UNCHANGED <<packaged, counted, ledger, began>>
          /\ again'[r] = packaged /\ pc'[r] \in {"count", "classify"}
          /\ pc'[r] = "count" <=> req'[r].route = "retry"
      BY <1>1 DEF Arrive, At, Goto, PackInv, TypeOK, Calls
    <3>3. r \notin began
      BY <1>1 DEF Arrive, At, PackInv, Begun, Writing
    <3>4. \A q \in Requests \ {r} : Granted(q) => Granted(q)'
      BY <3>1, <3>2 DEF Granted
    <3>5. /\ again'[r] => packaged'
          /\ pc'[r] \in {"count", "approve"} => req'[r].route = "retry"
          /\ pc'[r] # "approve" /\ r \notin began'
          /\ req'[r].route = "retry" =>
               pc'[r] \notin {"classify", "lookup", "insert"}
      BY <3>2, <3>3
    <3> QED
      BY <3>1, <3>2, <3>4, <3>5 DEF PackInv, ApprovalInv
  <2>10. EventInv'
    BY <1>1 DEF Arrive, At, Goto, marks, PackInv, EventInv, Arrived, TypeOK
  <2> QED
    BY <2>1, <2>2, <2>3, <2>4, <2>5, <2>6, <2>7, <2>8, <2>9, <2>10 DEF PackInv
<1>2. ASSUME NEW r \in Requests, Count(r) PROVE PackInv'
  <2>1. TypeOK'
    BY <1>2, RequestAssumption DEF Count, At, Goto, marks, PackInv, TypeOK, Kinds
  <2>2. Arrived'
    BY <1>2 DEF Count, At, Goto, marks, PackInv, Arrived, TypeOK
  <2>3. Begun'
    BY <1>2 DEF Count, At, Goto, marks, PackInv, Begun, Arrived, TypeOK, Writing
  <2>4. SoFar'
    BY <1>2
    DEF Count, At, Goto, marks, PackInv, SoFar, Arrived, Begun, TypeOK, Writing,
        Written
  <2>5. Succeeded'
    BY <1>2
    DEF Count, At, Goto, marks, PackInv, Succeeded, Finished, Arrived, Begun,
        SoFar, TypeOK, Writing, Written
  <2>6. RowInv'
    BY <1>2, RequestAssumption
    DEF Count, At, Goto, marks, PackInv, RowInv, Finished, Arrived, Begun, TypeOK,
        Writing, Written
  <2>7. KeyInv'
    BY <1>2
    DEF Count, At, Goto, marks, PackInv, KeyInv, Arrived, Begun, TypeOK, Writing,
        Calls
  <2>8. ReplayInv'
    BY <1>2, RequestAssumption
    DEF Count, At, Goto, marks, PackInv, ReplayInv, Finished, Fresh, Arrived,
        Begun, TypeOK, Writing, RowInv, Calls, Written
  <2>9. ApprovalInv'
    <3>1. /\ UNCHANGED <<req, again>> /\ ledger \subseteq ledger'
          /\ packaged => packaged'
      BY <1>2 DEF Count, At, Goto, marks
    <3>2. \A q \in Requests \ {r} :
            /\ pc'[q] = pc[q] /\ counted'[q] = counted[q]
            /\ q \in began' => q \in began
      BY <1>2 DEF Count, At, Goto, marks, PackInv, TypeOK
    <3>3. /\ again[r] /\ pc'[r] = "approve" => counted'[r]
          /\ pc'[r] \in {"count", "approve"} => pc[r] = "count"
          /\ pc[r] # "new"
          /\ pc'[r] \in {"classify", "lookup", "insert"} \/ r \in began' =>
               pc[r] \in {"classify", "lookup", "insert"} \/ r \in began
      BY <1>2 DEF Count, At, Goto, marks, PackInv, TypeOK, ApprovalInv
    <3> QED
      BY <3>1, <3>2, <3>3, GrantsStay
  <2>10. EventInv'
    BY <1>2 DEF Count, At, Goto, marks, PackInv, EventInv, Arrived, TypeOK
  <2> QED
    BY <2>1, <2>2, <2>3, <2>4, <2>5, <2>6, <2>7, <2>8, <2>9, <2>10 DEF PackInv
<1>3. ASSUME NEW r \in Requests, ApproveRetry(r) PROVE PackInv'
  <2>1. TypeOK'
    <3>1. ledger' \in SUBSET [request : Requests, action : {"retry", "replay"},
                              approved : BOOLEAN]
      BY <1>3, EnteredType DEF ApproveRetry, PackInv
    <3> QED
      BY <1>3, <3>1
      DEF ApproveRetry, At, Goto, Answer, marks, PackInv, TypeOK, Kinds
  <2>2. Arrived'
    BY <1>3
    DEF ApproveRetry, At, Goto, Answer, Entered, Allowed, Approved, marks,
        PackInv, Arrived, TypeOK
  <2>3. Begun'
    BY <1>3
    DEF ApproveRetry, At, Goto, Answer, Entered, Allowed, Approved, marks,
        PackInv, Begun, Arrived, TypeOK, Writing
  <2>4. SoFar'
    BY <1>3
    DEF ApproveRetry, At, Goto, Answer, Entered, Allowed, Approved, marks,
        PackInv, SoFar, Arrived, Begun, TypeOK, Writing, Written
  <2>5. Succeeded'
    BY <1>3
    DEF ApproveRetry, At, Goto, Answer, Entered, Allowed, Approved, marks,
        PackInv, Succeeded, Finished, Arrived, Begun, SoFar, TypeOK, Writing,
        Written
  <2>6. RowInv'
    BY <1>3, RequestAssumption
    DEF ApproveRetry, At, Goto, Answer, Entered, Allowed, Approved, marks,
        PackInv, RowInv, Finished, Arrived, Begun, TypeOK, Writing, Written
  <2>7. KeyInv'
    BY <1>3
    DEF ApproveRetry, At, Goto, Answer, Entered, Allowed, Approved, marks,
        PackInv, KeyInv, Arrived, Begun, TypeOK, Writing, Calls
  <2>8. ReplayInv'
    BY <1>3, RequestAssumption
    DEF ApproveRetry, At, Goto, Answer, Entered, Allowed, Approved, marks,
        PackInv, ReplayInv, Finished, Fresh, Arrived, Begun, TypeOK, Writing,
        RowInv, Calls, Written
  <2>9. ApprovalInv'
    <3>1. /\ UNCHANGED <<req, again, packaged, counted, began>>
          /\ ledger \subseteq ledger' /\ pc[r] = "approve" /\ r \notin began
          /\ \A q \in Requests \ {r} : pc'[q] = pc[q]
          /\ pc'[r] \in {"classify", "end"}
      BY <1>3
      DEF ApproveRetry, At, Goto, Answer, Entered, Allowed, Approved, marks,
          PackInv, TypeOK, Begun, Writing
    <3>2. ASSUME pc'[r] = "classify", again[r] PROVE Granted(r)'
      <4>1. counted[r] /\ req[r] \in Calls
        BY <3>1, <3>2 DEF PackInv, ApprovalInv, Arrived
      <4> QED
        BY <1>3, <3>1, <3>2, <4>1
        DEF ApproveRetry, At, Goto, Answer, Entered, Allowed, Approved,
            Granted, PackInv, TypeOK
    <3>3. \A q \in Requests : Granted(q) => Granted(q)'
      BY <3>1 DEF Granted
    <3> QED
      BY <3>1, <3>2, <3>3 DEF PackInv, ApprovalInv
  <2>10. EventInv'
    BY <1>3
    DEF ApproveRetry, At, Goto, Answer, Entered, Allowed, Approved, marks,
        PackInv, EventInv, Arrived, TypeOK
  <2> QED
    BY <2>1, <2>2, <2>3, <2>4, <2>5, <2>6, <2>7, <2>8, <2>9, <2>10 DEF PackInv
<1>4. ASSUME NEW r \in Requests, Classify(r) PROVE PackInv'
  <2>1. TypeOK'
    BY <1>4, RequestAssumption
    DEF Classify, At, Goto, Answer, Emit, marks, PackInv, TypeOK, Kinds
  <2>2. Arrived'
    BY <1>4 DEF Classify, At, Goto, Answer, Emit, marks, PackInv, Arrived, TypeOK
  <2>3. Begun'
    BY <1>4
    DEF Classify, At, Goto, Answer, Emit, marks, PackInv, Begun, Arrived, TypeOK,
        Writing
  <2>4. SoFar'
    BY <1>4
    DEF Classify, At, Goto, Answer, Emit, marks, PackInv, SoFar, Arrived, Begun,
        TypeOK, Writing, Written
  <2>5. Succeeded'
    BY <1>4
    DEF Classify, At, Goto, Answer, Emit, marks, PackInv, Succeeded, Finished,
        Arrived, Begun, SoFar, TypeOK, Writing, Written
  <2>6. RowInv'
    BY <1>4, RequestAssumption
    DEF Classify, At, Goto, Answer, Emit, marks, PackInv, RowInv, Finished,
        Arrived, Begun, TypeOK, Writing, Written
  <2>7. KeyInv'
    BY <1>4
    DEF Classify, At, Goto, Answer, Emit, marks, PackInv, KeyInv, Arrived, Begun,
        TypeOK, Writing, Calls
  <2>8. ReplayInv'
    BY <1>4, RequestAssumption
    DEF Classify, At, Goto, Answer, Emit, marks, PackInv, ReplayInv, Finished,
        Fresh, Arrived, Begun, TypeOK, Writing, RowInv, Calls, Written
  <2>9. ApprovalInv'
    <3>1. /\ UNCHANGED <<req, again>> /\ ledger \subseteq ledger'
          /\ packaged => packaged'
      BY <1>4 DEF Classify, At, Goto, Answer, Emit, marks
    <3>2. \A q \in Requests \ {r} :
            /\ pc'[q] = pc[q] /\ counted'[q] = counted[q]
            /\ q \in began' => q \in began
      BY <1>4 DEF Classify, At, Goto, Answer, Emit, marks, PackInv, TypeOK
    <3>3. /\ again[r] /\ pc'[r] = "approve" => counted'[r]
          /\ pc'[r] \in {"count", "approve"} => pc[r] = "count"
          /\ pc[r] # "new"
          /\ pc'[r] \in {"classify", "lookup", "insert"} \/ r \in began' =>
               pc[r] \in {"classify", "lookup", "insert"} \/ r \in began
      BY <1>4
      DEF Classify, At, Goto, Answer, Emit, marks, PackInv, TypeOK, ApprovalInv
    <3> QED
      BY <3>1, <3>2, <3>3, GrantsStay
  <2>10. EventInv'
    <3>1. /\ events \subseteq events'
          /\ \A q \in Requests \ {r} : answer'[q] = answer[q]
      BY <1>4 DEF Classify, At, Goto, Answer, Emit, marks, PackInv, TypeOK
    <3>2. \/ \E e \in events' : e.request = r
          \/ answer'[r] \notin {"ok", "replay", "rejected", "in_progress"}
      BY <1>4, EmitTells DEF Classify, At, Goto, Answer, PackInv, TypeOK, Arrived
    <3> QED
      BY <3>1, <3>2 DEF PackInv, EventInv
  <2> QED
    BY <2>1, <2>2, <2>3, <2>4, <2>5, <2>6, <2>7, <2>8, <2>9, <2>10 DEF PackInv
<1>5. ASSUME NEW r \in Requests, Lookup(r) PROVE PackInv'
  <2>1. TypeOK'
    <3>1. /\ ledger' \in SUBSET [request : Requests, action : {"retry", "replay"},
                                 approved : BOOLEAN]
          /\ events' \in SUBSET [request : Requests,
                                 phase : {"validate", "replay", "final"}]
      BY <1>5, EnteredType, EmitType DEF Lookup, PackInv, TypeOK
    <3> QED
      BY <1>5, <3>1 DEF Lookup, At, Goto, Answer, marks, PackInv, TypeOK, Kinds
  <2>2. Arrived'
    BY <1>5
    DEF Lookup, At, Goto, Answer, Entered, Emit, marks, PackInv, Arrived, TypeOK
  <2>3. Begun'
    BY <1>5
    DEF Lookup, At, Goto, Answer, Entered, Emit, marks, PackInv, Begun, Arrived,
        TypeOK, Writing
  <2>4. SoFar'
    BY <1>5
    DEF Lookup, At, Goto, Answer, Entered, Emit, marks, PackInv, SoFar, Arrived,
        Begun, TypeOK, Writing, Written
  <2>5. Succeeded'
    BY <1>5
    DEF Lookup, At, Goto, Answer, Entered, Emit, marks, PackInv, Succeeded,
        Finished, Arrived, Begun, SoFar, TypeOK, Writing, Written
  <2>6. RowInv'
    BY <1>5, RequestAssumption
    DEF Lookup, At, Goto, Answer, Entered, Emit, marks, PackInv, RowInv, Finished,
        Arrived, Begun, TypeOK, Writing, Written
  <2>7. KeyInv'
    BY <1>5
    DEF Lookup, At, Goto, Answer, Entered, Emit, marks, PackInv, KeyInv, Arrived,
        Begun, TypeOK, Writing, Calls
  <2>8. ReplayInv'
    BY <1>5, RequestAssumption
    DEF Lookup, At, Goto, Answer, Entered, Emit, marks, PackInv, ReplayInv,
        Finished, Fresh, Arrived, Begun, TypeOK, Writing, RowInv, Calls,
        Written
  <2>9. ApprovalInv'
    <3>1. /\ UNCHANGED <<req, again>> /\ ledger \subseteq ledger'
          /\ packaged => packaged'
      BY <1>5 DEF Lookup, At, Goto, Answer, Entered, Emit, marks
    <3>2. \A q \in Requests \ {r} :
            /\ pc'[q] = pc[q] /\ counted'[q] = counted[q]
            /\ q \in began' => q \in began
      BY <1>5 DEF Lookup, At, Goto, Answer, Entered, Emit, marks, PackInv, TypeOK
    <3>3. /\ again[r] /\ pc'[r] = "approve" => counted'[r]
          /\ pc'[r] \in {"count", "approve"} => pc[r] = "count"
          /\ pc[r] # "new"
          /\ pc'[r] \in {"classify", "lookup", "insert"} \/ r \in began' =>
               pc[r] \in {"classify", "lookup", "insert"} \/ r \in began
      BY <1>5
      DEF Lookup, At, Goto, Answer, Entered, Emit, marks, PackInv, TypeOK,
          ApprovalInv
    <3> QED
      BY <3>1, <3>2, <3>3, GrantsStay
  <2>10. EventInv'
    <3>1. /\ events \subseteq events'
          /\ \A q \in Requests \ {r} : answer'[q] = answer[q]
      BY <1>5 DEF Lookup, At, Goto, Answer, Entered, Emit, marks, PackInv, TypeOK
    <3>2. \/ \E e \in events' : e.request = r
          \/ answer'[r] \notin {"ok", "replay", "rejected", "in_progress"}
      BY <1>5, EmitTells DEF Lookup, At, Goto, Answer, PackInv, TypeOK, Arrived
    <3> QED
      BY <3>1, <3>2 DEF PackInv, EventInv
  <2> QED
    BY <2>1, <2>2, <2>3, <2>4, <2>5, <2>6, <2>7, <2>8, <2>9, <2>10 DEF PackInv
<1>6. ASSUME NEW r \in Requests, Replay(r) PROVE PackInv'
  <2>1. TypeOK'
    BY <1>6, RequestAssumption
    DEF Replay, At, Answer, Emit, marks, PackInv, TypeOK, Kinds
  <2>2. Arrived'
    BY <1>6 DEF Replay, At, Answer, Emit, marks, PackInv, Arrived, TypeOK
  <2>3. Begun'
    BY <1>6
    DEF Replay, At, Answer, Emit, marks, PackInv, Begun, Arrived, TypeOK, Writing
  <2>4. SoFar'
    BY <1>6
    DEF Replay, At, Answer, Emit, marks, PackInv, SoFar, Arrived, Begun, TypeOK,
        Writing, Written
  <2>5. Succeeded'
    BY <1>6
    DEF Replay, At, Answer, Emit, marks, PackInv, Succeeded, Finished, Arrived,
        Begun, SoFar, TypeOK, Writing, Written
  <2>6. RowInv'
    BY <1>6, RequestAssumption
    DEF Replay, At, Answer, Emit, marks, PackInv, RowInv, Finished, Arrived,
        Begun, TypeOK, Writing, Written
  <2>7. KeyInv'
    BY <1>6
    DEF Replay, At, Answer, Emit, marks, PackInv, KeyInv, Arrived, Begun, TypeOK,
        Writing, Calls
  <2>8. ReplayInv'
    BY <1>6, RequestAssumption
    DEF Replay, At, Answer, Emit, marks, PackInv, ReplayInv, Finished, Fresh,
        Arrived, Begun, TypeOK, Writing, RowInv, Calls, Written
  <2>9. ApprovalInv'
    <3>1. /\ UNCHANGED <<req, again>> /\ ledger \subseteq ledger'
          /\ packaged => packaged'
      BY <1>6 DEF Replay, At, Answer, Emit, marks
    <3>2. \A q \in Requests \ {r} :
            /\ pc'[q] = pc[q] /\ counted'[q] = counted[q]
            /\ q \in began' => q \in began
      BY <1>6 DEF Replay, At, Answer, Emit, marks, PackInv, TypeOK
    <3>3. /\ again[r] /\ pc'[r] = "approve" => counted'[r]
          /\ pc'[r] \in {"count", "approve"} => pc[r] = "count"
          /\ pc[r] # "new"
          /\ pc'[r] \in {"classify", "lookup", "insert"} \/ r \in began' =>
               pc[r] \in {"classify", "lookup", "insert"} \/ r \in began
      BY <1>6 DEF Replay, At, Answer, Emit, marks, PackInv, TypeOK, ApprovalInv
    <3> QED
      BY <3>1, <3>2, <3>3, GrantsStay
  <2>10. EventInv'
    <3>1. /\ events \subseteq events'
          /\ \A q \in Requests \ {r} : answer'[q] = answer[q]
      BY <1>6 DEF Replay, At, Answer, Emit, marks, PackInv, TypeOK
    <3>2. \/ \E e \in events' : e.request = r
          \/ answer'[r] \notin {"ok", "replay", "rejected", "in_progress"}
      BY <1>6, EmitTells DEF Replay, PackInv, TypeOK, Arrived
    <3> QED
      BY <3>1, <3>2 DEF PackInv, EventInv
  <2> QED
    BY <2>1, <2>2, <2>3, <2>4, <2>5, <2>6, <2>7, <2>8, <2>9, <2>10 DEF PackInv
<1>7. ASSUME NEW r \in Requests, Insert(r) PROVE PackInv'
  <2>1. TypeOK'
    <3>1. req[r].key \in Keys
      BY <1>7 DEF Insert, At, Goto, PackInv, Arrived, Calls
    <3> QED
      BY <1>7, <3>1 DEF Insert, At, Goto, marks, PackInv, TypeOK, Kinds
  <2>2. Arrived'
    BY <1>7 DEF Insert, At, Goto, marks, PackInv, Arrived, TypeOK
  <2>3. Begun'
    BY <1>7 DEF Insert, At, Goto, marks, PackInv, Begun, Arrived, TypeOK, Writing
  <2>4. SoFar'
    BY <1>7
    DEF Insert, At, Goto, marks, PackInv, SoFar, Arrived, Begun, TypeOK, Writing,
        Written
  <2>5. Succeeded'
    BY <1>7
    DEF Insert, At, Goto, marks, PackInv, Succeeded, Finished, Arrived, Begun,
        SoFar, TypeOK, Writing, Written
  <2>6. RowInv'
    <3>1. /\ pc[r] = "insert" /\ began' = began \cup {r}
          /\ row' = [row EXCEPT ![req[r].key] = "in_progress"]
          /\ UNCHANGED <<req, packaged, memory, answer>>
          /\ last' = req[r].key /\ pc' = [pc EXCEPT ![r] = "chosen"]
      BY <1>7 DEF Insert, At, Goto, marks
    <3>2. req[r].key \in Keys /\ answer[r] = "none" /\ r \notin began
      BY <3>1 DEF PackInv, Arrived, Begun, Writing, Calls
    <3>3. \A q \in Requests : Finished(q) => Finished(q)'
      BY <3>1 DEF Finished, Written, PackInv, TypeOK
    <3>4. ASSUME NEW k \in Keys, NEW q \in Requests, row'[k] = q
          PROVE  Finished(q)' /\ req'[q].key = k
      <4>1. row[k] = q
        BY <3>1, <3>2, <3>4, RequestAssumption DEF PackInv, TypeOK
      <4>2. row[k] = q => Finished(q) /\ req[q].key = k
        BY DEF PackInv, RowInv
      <4> QED
        BY <3>1, <3>3, <4>1, <4>2
    <3>5. ASSUME NEW k \in Keys, row'[k] = "in_progress"
          PROVE  \E q \in began' : /\ req'[q].key = k
                                   /\ pc'[q] # "final" /\ answer'[q] # "ok"
      <4>1. CASE k = req[r].key
        BY <3>1, <3>2, <4>1 DEF PackInv, TypeOK
      <4>2. CASE k # req[r].key
        BY <3>1, <3>2, <3>5, <4>2 DEF PackInv, TypeOK, RowInv
      <4> QED
        BY <4>1, <4>2
    <3>6. last' \in Keys /\ row'[last'] # "none"
      BY <3>1, <3>2 DEF PackInv, TypeOK
    <3>7. \A k \in Keys : row'[k] \in Requests =>
            Finished(row[k])' /\ req'[row'[k]].key = k
      BY <3>4 DEF Finished, Written
    <3> QED
      BY <3>5, <3>6, <3>7 DEF RowInv
  <2>7. KeyInv'
    BY <1>7
    DEF Insert, At, Goto, marks, PackInv, KeyInv, Arrived, Begun, TypeOK, Writing,
        Calls
  <2>8. ReplayInv'
    BY <1>7, RequestAssumption
    DEF Insert, At, Goto, marks, PackInv, ReplayInv, Finished, Fresh, Arrived,
        Begun, TypeOK, Writing, RowInv, Calls, Written
  <2>9. ApprovalInv'
    <3>1. /\ UNCHANGED <<req, again>> /\ ledger \subseteq ledger'
          /\ packaged => packaged'
      BY <1>7 DEF Insert, At, Goto, marks
    <3>2. \A q \in Requests \ {r} :
            /\ pc'[q] = pc[q] /\ counted'[q] = counted[q]
            /\ q \in began' => q \in began
      BY <1>7 DEF Insert, At, Goto, marks, PackInv, TypeOK
    <3>3. /\ again[r] /\ pc'[r] = "approve" => counted'[r]
          /\ pc'[r] \in {"count", "approve"} => pc[r] = "count"
          /\ pc[r] # "new"
          /\ pc'[r] \in {"classify", "lookup", "insert"} \/ r \in began' =>
               pc[r] \in {"classify", "lookup", "insert"} \/ r \in began
      BY <1>7 DEF Insert, At, Goto, marks, PackInv, TypeOK, ApprovalInv
    <3> QED
      BY <3>1, <3>2, <3>3, GrantsStay
  <2>10. EventInv'
    BY <1>7 DEF Insert, At, Goto, marks, PackInv, EventInv, Arrived, TypeOK
  <2> QED
    BY <2>1, <2>2, <2>3, <2>4, <2>5, <2>6, <2>7, <2>8, <2>9, <2>10 DEF PackInv
<1>8. ASSUME NEW r \in Requests, WriteChosen(r) PROVE PackInv'
  <2>1. TypeOK'
    BY <1>8, RequestAssumption
    DEF WriteChosen, At, Goto, marks, PackInv, TypeOK, Kinds, Writes
  <2>2. Arrived'
    BY <1>8 DEF WriteChosen, At, Goto, marks, PackInv, Arrived, TypeOK, Writes
  <2>3. Begun'
    BY <1>8
    DEF WriteChosen, At, Goto, marks, PackInv, Begun, Arrived, TypeOK, Writing,
        Writes
  <2>4. SoFar'
    <3>1. /\ Written(r) = {}
          /\ req[r] \in Calls /\ r \in began
      BY <1>8 DEF WriteChosen, At, PackInv, SoFar, Arrived, Begun, Writing
    <3>2. /\ UNCHANGED <<req, began>>
          /\ \A q \in Requests \ {r} : pc'[q] = pc[q]
      BY <1>8 DEF WriteChosen, At, Goto, marks, PackInv, TypeOK
    <3>3. \/ /\ WantsChosen(req[r]) /\ Written(r)' = Written(r) \cup {"chosen"}
             /\ \A q \in Requests \ {r} : Written(q)' = Written(q)
          \/ /\ ~WantsChosen(req[r]) /\ Written(r)' = Written(r)
             /\ \A q \in Requests \ {r} : Written(q)' = Written(q)
      <4>1. CASE WantsChosen(req[r])
        BY <1>8, <4>1, WritesOne DEF WriteChosen, Kinds
      <4>2. CASE ~WantsChosen(req[r])
        BY <1>8, <4>2 DEF WriteChosen, Written
      <4> QED
        BY <4>1, <4>2
    <3>4. /\ pc'[r] = "frontier" /\ Written(r)' = Wanted(req[r]) \cap {"chosen"}
      BY <1>8, <3>1, <3>3, WantedKinds
      DEF WriteChosen, At, Goto, PackInv, TypeOK, Kinds
    <3>5. r \in began' /\ req'[r] = req[r]
      BY <3>1, <3>2
    <3>6. \A q \in Requests \ {r} : Written(q)' = Written(q)
      BY <3>3
    <3> QED
      BY <3>2, <3>4, <3>5, <3>6 DEF PackInv, SoFar
  <2>5. Succeeded'
    BY <1>8
    DEF WriteChosen, At, Goto, marks, PackInv, Succeeded, Finished, Arrived,
        Begun, SoFar, TypeOK, Writing, Written, Writes
  <2>6. RowInv'
    BY <1>8, RequestAssumption
    DEF WriteChosen, At, Goto, marks, PackInv, RowInv, Finished, Arrived, Begun,
        TypeOK, Writing, Written, Writes
  <2>7. KeyInv'
    BY <1>8
    DEF WriteChosen, At, Goto, marks, PackInv, KeyInv, Arrived, Begun, TypeOK,
        Writing, Calls, Writes
  <2>8. ReplayInv'
    BY <1>8, RequestAssumption
    DEF WriteChosen, At, Goto, marks, PackInv, ReplayInv, Finished, Fresh,
        Arrived, Begun, TypeOK, Writing, RowInv, Calls, Written, Writes
  <2>9. ApprovalInv'
    <3>1. /\ UNCHANGED <<req, again>> /\ ledger \subseteq ledger'
          /\ packaged => packaged'
      BY <1>8 DEF WriteChosen, At, Goto, marks
    <3>2. \A q \in Requests \ {r} :
            /\ pc'[q] = pc[q] /\ counted'[q] = counted[q]
            /\ q \in began' => q \in began
      BY <1>8 DEF WriteChosen, At, Goto, marks, PackInv, TypeOK
    <3>3. /\ again[r] /\ pc'[r] = "approve" => counted'[r]
          /\ pc'[r] \in {"count", "approve"} => pc[r] = "count"
          /\ pc[r] # "new"
          /\ pc'[r] \in {"classify", "lookup", "insert"} \/ r \in began' =>
               pc[r] \in {"classify", "lookup", "insert"} \/ r \in began
      BY <1>8 DEF WriteChosen, At, Goto, marks, PackInv, TypeOK, ApprovalInv
    <3> QED
      BY <3>1, <3>2, <3>3, GrantsStay
  <2>10. EventInv'
    BY <1>8
    DEF WriteChosen, At, Goto, marks, PackInv, EventInv, Arrived, TypeOK, Writes
  <2> QED
    BY <2>1, <2>2, <2>3, <2>4, <2>5, <2>6, <2>7, <2>8, <2>9, <2>10 DEF PackInv
<1>9. ASSUME NEW r \in Requests, WriteFrontier(r) PROVE PackInv'
  <2>1. TypeOK'
    BY <1>9, RequestAssumption
    DEF WriteFrontier, At, Goto, marks, PackInv, TypeOK, Kinds, Writes
  <2>2. Arrived'
    BY <1>9 DEF WriteFrontier, At, Goto, marks, PackInv, Arrived, TypeOK, Writes
  <2>3. Begun'
    BY <1>9
    DEF WriteFrontier, At, Goto, marks, PackInv, Begun, Arrived, TypeOK, Writing,
        Writes
  <2>4. SoFar'
    <3>1. /\ Written(r) = Wanted(req[r]) \cap {"chosen"}
          /\ req[r] \in Calls /\ r \in began
      BY <1>9 DEF WriteFrontier, At, PackInv, SoFar, Arrived, Begun, Writing
    <3>2. /\ UNCHANGED <<req, began>>
          /\ \A q \in Requests \ {r} : pc'[q] = pc[q]
      BY <1>9 DEF WriteFrontier, At, Goto, marks, PackInv, TypeOK
    <3>3. \/ /\ WantsFrontier(req[r]) /\ Written(r)' = Written(r) \cup {"frontier"}
             /\ \A q \in Requests \ {r} : Written(q)' = Written(q)
          \/ /\ ~WantsFrontier(req[r]) /\ Written(r)' = Written(r)
             /\ \A q \in Requests \ {r} : Written(q)' = Written(q)
      <4>1. CASE WantsFrontier(req[r])
        BY <1>9, <4>1, WritesOne DEF WriteFrontier, Kinds
      <4>2. CASE ~WantsFrontier(req[r])
        BY <1>9, <4>2 DEF WriteFrontier, Written
      <4> QED
        BY <4>1, <4>2
    <3>4. /\ pc'[r] = "residual"
          /\ Written(r)' = Wanted(req[r]) \cap {"chosen", "frontier"}
      BY <1>9, <3>1, <3>3, WantedKinds
      DEF WriteFrontier, At, Goto, PackInv, TypeOK, Kinds
    <3>5. r \in began' /\ req'[r] = req[r]
      BY <3>1, <3>2
    <3>6. \A q \in Requests \ {r} : Written(q)' = Written(q)
      BY <3>3
    <3> QED
      BY <3>2, <3>4, <3>5, <3>6 DEF PackInv, SoFar
  <2>5. Succeeded'
    BY <1>9
    DEF WriteFrontier, At, Goto, marks, PackInv, Succeeded, Finished, Arrived,
        Begun, SoFar, TypeOK, Writing, Written, Writes
  <2>6. RowInv'
    BY <1>9, RequestAssumption
    DEF WriteFrontier, At, Goto, marks, PackInv, RowInv, Finished, Arrived, Begun,
        TypeOK, Writing, Written, Writes
  <2>7. KeyInv'
    BY <1>9
    DEF WriteFrontier, At, Goto, marks, PackInv, KeyInv, Arrived, Begun, TypeOK,
        Writing, Calls, Writes
  <2>8. ReplayInv'
    BY <1>9, RequestAssumption
    DEF WriteFrontier, At, Goto, marks, PackInv, ReplayInv, Finished, Fresh,
        Arrived, Begun, TypeOK, Writing, RowInv, Calls, Written, Writes
  <2>9. ApprovalInv'
    <3>1. /\ UNCHANGED <<req, again>> /\ ledger \subseteq ledger'
          /\ packaged => packaged'
      BY <1>9 DEF WriteFrontier, At, Goto, marks
    <3>2. \A q \in Requests \ {r} :
            /\ pc'[q] = pc[q] /\ counted'[q] = counted[q]
            /\ q \in began' => q \in began
      BY <1>9 DEF WriteFrontier, At, Goto, marks, PackInv, TypeOK
    <3>3. /\ again[r] /\ pc'[r] = "approve" => counted'[r]
          /\ pc'[r] \in {"count", "approve"} => pc[r] = "count"
          /\ pc[r] # "new"
          /\ pc'[r] \in {"classify", "lookup", "insert"} \/ r \in began' =>
               pc[r] \in {"classify", "lookup", "insert"} \/ r \in began
      BY <1>9 DEF WriteFrontier, At, Goto, marks, PackInv, TypeOK, ApprovalInv
    <3> QED
      BY <3>1, <3>2, <3>3, GrantsStay
  <2>10. EventInv'
    BY <1>9
    DEF WriteFrontier, At, Goto, marks, PackInv, EventInv, Arrived, TypeOK, Writes
  <2> QED
    BY <2>1, <2>2, <2>3, <2>4, <2>5, <2>6, <2>7, <2>8, <2>9, <2>10 DEF PackInv
<1>10. ASSUME NEW r \in Requests, WriteResidual(r) PROVE PackInv'
  <2>1. TypeOK'
    BY <1>10, RequestAssumption
    DEF WriteResidual, At, Goto, marks, PackInv, TypeOK, Kinds, Writes
  <2>2. Arrived'
    BY <1>10 DEF WriteResidual, At, Goto, marks, PackInv, Arrived, TypeOK, Writes
  <2>3. Begun'
    BY <1>10
    DEF WriteResidual, At, Goto, marks, PackInv, Begun, Arrived, TypeOK, Writing,
        Writes
  <2>4. SoFar'
    <3>1. /\ Written(r) = Wanted(req[r]) \cap {"chosen", "frontier"}
          /\ req[r] \in Calls /\ r \in began
      BY <1>10 DEF WriteResidual, At, PackInv, SoFar, Arrived, Begun, Writing
    <3>2. /\ UNCHANGED <<req, began>>
          /\ \A q \in Requests \ {r} : pc'[q] = pc[q]
      BY <1>10 DEF WriteResidual, At, Goto, marks, PackInv, TypeOK
    <3>3. \/ /\ WantsResidual(req[r]) /\ Written(r)' = Written(r) \cup {"residual"}
             /\ \A q \in Requests \ {r} : Written(q)' = Written(q)
          \/ /\ ~WantsResidual(req[r]) /\ Written(r)' = Written(r)
             /\ \A q \in Requests \ {r} : Written(q)' = Written(q)
      <4>1. CASE WantsResidual(req[r])
        BY <1>10, <4>1, WritesOne DEF WriteResidual, Kinds
      <4>2. CASE ~WantsResidual(req[r])
        BY <1>10, <4>2 DEF WriteResidual, Written
      <4> QED
        BY <4>1, <4>2
    <3>4. /\ pc'[r] = "complete" /\ Written(r)' = Wanted(req[r])
      <4>1. pc'[r] = "complete"
        BY <1>10 DEF WriteResidual, At, Goto, PackInv, TypeOK
      <4>2. /\ Wanted(req[r]) \subseteq {"chosen", "frontier", "residual"}
            /\ "residual" \in Wanted(req[r]) <=> WantsResidual(req[r])
        BY <3>1, WantedKinds DEF Kinds
      <4>3. CASE WantsResidual(req[r])
        BY <3>1, <3>3, <4>1, <4>2, <4>3
      <4>4. CASE ~WantsResidual(req[r])
        BY <3>1, <3>3, <4>1, <4>2, <4>4
      <4> QED
        BY <4>3, <4>4
    <3>5. r \in began' /\ req'[r] = req[r]
      BY <3>1, <3>2
    <3>6. \A q \in Requests \ {r} : Written(q)' = Written(q)
      BY <3>3
    <3> QED
      BY <3>2, <3>4, <3>5, <3>6 DEF PackInv, SoFar
  <2>5. Succeeded'
    BY <1>10
    DEF WriteResidual, At, Goto, marks, PackInv, Succeeded, Finished, Arrived,
        Begun, SoFar, TypeOK, Writing, Written, Writes
  <2>6. RowInv'
    BY <1>10, RequestAssumption
    DEF WriteResidual, At, Goto, marks, PackInv, RowInv, Finished, Arrived, Begun,
        TypeOK, Writing, Written, Writes
  <2>7. KeyInv'
    BY <1>10
    DEF WriteResidual, At, Goto, marks, PackInv, KeyInv, Arrived, Begun, TypeOK,
        Writing, Calls, Writes
  <2>8. ReplayInv'
    BY <1>10, RequestAssumption
    DEF WriteResidual, At, Goto, marks, PackInv, ReplayInv, Finished, Fresh,
        Arrived, Begun, TypeOK, Writing, RowInv, Calls, Written, Writes
  <2>9. ApprovalInv'
    <3>1. /\ UNCHANGED <<req, again>> /\ ledger \subseteq ledger'
          /\ packaged => packaged'
      BY <1>10 DEF WriteResidual, At, Goto, marks
    <3>2. \A q \in Requests \ {r} :
            /\ pc'[q] = pc[q] /\ counted'[q] = counted[q]
            /\ q \in began' => q \in began
      BY <1>10 DEF WriteResidual, At, Goto, marks, PackInv, TypeOK
    <3>3. /\ again[r] /\ pc'[r] = "approve" => counted'[r]
          /\ pc'[r] \in {"count", "approve"} => pc[r] = "count"
          /\ pc[r] # "new"
          /\ pc'[r] \in {"classify", "lookup", "insert"} \/ r \in began' =>
               pc[r] \in {"classify", "lookup", "insert"} \/ r \in began
      BY <1>10 DEF WriteResidual, At, Goto, marks, PackInv, TypeOK, ApprovalInv
    <3> QED
      BY <3>1, <3>2, <3>3, GrantsStay
  <2>10. EventInv'
    BY <1>10
    DEF WriteResidual, At, Goto, marks, PackInv, EventInv, Arrived, TypeOK, Writes
  <2> QED
    BY <2>1, <2>2, <2>3, <2>4, <2>5, <2>6, <2>7, <2>8, <2>9, <2>10 DEF PackInv
<1>11. ASSUME NEW r \in Requests, Complete(r) PROVE PackInv'
  <2>1. TypeOK'
    BY <1>11, RequestAssumption
    DEF Complete, At, Goto, marks, PackInv, TypeOK, Kinds
  <2>2. Arrived'
    BY <1>11 DEF Complete, At, Goto, marks, PackInv, Arrived, TypeOK
  <2>3. Begun'
    BY <1>11
    DEF Complete, At, Goto, marks, PackInv, Begun, Arrived, TypeOK, Writing
  <2>4. SoFar'
    BY <1>11
    DEF Complete, At, Goto, marks, PackInv, SoFar, Arrived, Begun, TypeOK,
        Writing, Written
  <2>5. Succeeded'
    BY <1>11
    DEF Complete, At, Goto, marks, PackInv, Succeeded, Finished, Arrived, Begun,
        SoFar, TypeOK, Writing, Written
  <2>6. RowInv'
    <3>1. /\ pc[r] = "complete" /\ packaged'
          /\ row' = [row EXCEPT ![req[r].key] = r]
          /\ UNCHANGED <<req, memory, answer, began, last>>
          /\ pc' = [pc EXCEPT ![r] = "final"]
      BY <1>11 DEF Complete, At, Goto, marks
    <3>2. /\ req[r].key \in Keys /\ r \in began /\ Written(r) = Wanted(req[r])
          /\ r # "none" /\ r # "in_progress"
      BY <3>1, RequestAssumption
      DEF PackInv, Arrived, Begun, SoFar, Writing, Calls
    <3>3. /\ Finished(r)'
          /\ \A q \in Requests : Finished(q) => Finished(q)'
      BY <3>1, <3>2 DEF Finished, Written, PackInv, TypeOK
    <3>4. ASSUME NEW k \in Keys, NEW q \in Requests, row'[k] = q
          PROVE  Finished(q)' /\ req'[q].key = k
      <4>1. row[k] = q \/ (q = r /\ k = req[r].key)
        BY <3>1, <3>2, <3>4 DEF PackInv, TypeOK
      <4>2. row[k] = q => Finished(q) /\ req[q].key = k
        BY DEF PackInv, RowInv
      <4> QED
        BY <3>1, <3>3, <4>1, <4>2
    <3>5. ASSUME NEW k \in Keys, row'[k] = "in_progress"
          PROVE  \E q \in began' : /\ req'[q].key = k
                                   /\ pc'[q] # "final" /\ answer'[q] # "ok"
      <4>1. k # req[r].key /\ row[k] = "in_progress"
        BY <3>1, <3>2, <3>5 DEF PackInv, TypeOK
      <4>2. PICK q \in began : /\ req[q].key = k
                               /\ pc[q] # "final" /\ answer[q] # "ok"
        BY <4>1 DEF PackInv, RowInv
      <4> QED
        BY <3>1, <4>1, <4>2 DEF PackInv, TypeOK
    <3>6. last' # "none" => last' \in Keys /\ row'[last'] # "none"
      BY <3>1, <3>2 DEF PackInv, TypeOK, RowInv
    <3>7. \A k \in Keys : row'[k] \in Requests =>
            Finished(row[k])' /\ req'[row'[k]].key = k
      BY <3>4 DEF Finished, Written
    <3> QED
      BY <3>5, <3>6, <3>7 DEF RowInv
  <2>7. KeyInv'
    <3>1. /\ row' = [row EXCEPT ![req[r].key] = r] /\ r # "none"
          /\ UNCHANGED <<req, began, late>> /\ pc' = [pc EXCEPT ![r] = "final"]
      BY <1>11, RequestAssumption DEF Complete, At, Goto, marks
    <3>2. \A k \in Keys : row[k] # "none" => row'[k] # "none"
      BY <3>1 DEF PackInv, TypeOK
    <3>3. \A q \in Requests : pc[q] # "new" => req[q].key \in Keys
      BY DEF PackInv, Arrived, Calls
    <3>4. \A q \in Requests : (q \in began => pc[q] # "new")
                              /\ (late[q] => pc[q] # "new")
      BY DEF PackInv, Arrived, Begun, Writing
    <3> QED
      BY <3>1, <3>2, <3>3, <3>4 DEF PackInv, TypeOK, KeyInv
  <2>8. ReplayInv'
    BY <1>11, RequestAssumption
    DEF Complete, At, Goto, marks, PackInv, ReplayInv, Finished, Fresh, Arrived,
        Begun, TypeOK, Writing, RowInv, Calls, Written
  <2>9. ApprovalInv'
    <3>1. /\ UNCHANGED <<req, again>> /\ ledger \subseteq ledger'
          /\ packaged => packaged'
      BY <1>11 DEF Complete, At, Goto, marks
    <3>2. \A q \in Requests \ {r} :
            /\ pc'[q] = pc[q] /\ counted'[q] = counted[q]
            /\ q \in began' => q \in began
      BY <1>11 DEF Complete, At, Goto, marks, PackInv, TypeOK
    <3>3. /\ again[r] /\ pc'[r] = "approve" => counted'[r]
          /\ pc'[r] \in {"count", "approve"} => pc[r] = "count"
          /\ pc[r] # "new"
          /\ pc'[r] \in {"classify", "lookup", "insert"} \/ r \in began' =>
               pc[r] \in {"classify", "lookup", "insert"} \/ r \in began
      BY <1>11 DEF Complete, At, Goto, marks, PackInv, TypeOK, ApprovalInv
    <3> QED
      BY <3>1, <3>2, <3>3, GrantsStay
  <2>10. EventInv'
    BY <1>11 DEF Complete, At, Goto, marks, PackInv, EventInv, Arrived, TypeOK
  <2> QED
    BY <2>1, <2>2, <2>3, <2>4, <2>5, <2>6, <2>7, <2>8, <2>9, <2>10 DEF PackInv
<1>12. ASSUME NEW r \in Requests, Final(r) PROVE PackInv'
  <2>1. TypeOK'
    BY <1>12, RequestAssumption
    DEF Final, At, Answer, Emit, marks, PackInv, TypeOK, Kinds
  <2>2. Arrived'
    BY <1>12 DEF Final, At, Answer, Emit, marks, PackInv, Arrived, TypeOK
  <2>3. Begun'
    BY <1>12
    DEF Final, At, Answer, Emit, marks, PackInv, Begun, Arrived, TypeOK, Writing
  <2>4. SoFar'
    BY <1>12
    DEF Final, At, Answer, Emit, marks, PackInv, SoFar, Arrived, Begun, TypeOK,
        Writing, Written
  <2>5. Succeeded'
    BY <1>12
    DEF Final, At, Answer, Emit, marks, PackInv, Succeeded, Finished, Arrived,
        Begun, SoFar, TypeOK, Writing, Written
  <2>6. RowInv'
    BY <1>12, RequestAssumption
    DEF Final, At, Answer, Emit, marks, PackInv, RowInv, Finished, Arrived, Begun,
        TypeOK, Writing, Written
  <2>7. KeyInv'
    BY <1>12
    DEF Final, At, Answer, Emit, marks, PackInv, KeyInv, Arrived, Begun, TypeOK,
        Writing, Calls
  <2>8. ReplayInv'
    BY <1>12, RequestAssumption
    DEF Final, At, Answer, Emit, marks, PackInv, ReplayInv, Finished, Fresh,
        Arrived, Begun, TypeOK, Writing, RowInv, Calls, Written
  <2>9. ApprovalInv'
    <3>1. /\ UNCHANGED <<req, again>> /\ ledger \subseteq ledger'
          /\ packaged => packaged'
      BY <1>12 DEF Final, At, Answer, Emit, marks
    <3>2. \A q \in Requests \ {r} :
            /\ pc'[q] = pc[q] /\ counted'[q] = counted[q]
            /\ q \in began' => q \in began
      BY <1>12 DEF Final, At, Answer, Emit, marks, PackInv, TypeOK
    <3>3. /\ again[r] /\ pc'[r] = "approve" => counted'[r]
          /\ pc'[r] \in {"count", "approve"} => pc[r] = "count"
          /\ pc[r] # "new"
          /\ pc'[r] \in {"classify", "lookup", "insert"} \/ r \in began' =>
               pc[r] \in {"classify", "lookup", "insert"} \/ r \in began
      BY <1>12 DEF Final, At, Answer, Emit, marks, PackInv, TypeOK, ApprovalInv
    <3> QED
      BY <3>1, <3>2, <3>3, GrantsStay
  <2>10. EventInv'
    <3>1. /\ events \subseteq events'
          /\ \A q \in Requests \ {r} : answer'[q] = answer[q]
      BY <1>12 DEF Final, At, Answer, Emit, marks, PackInv, TypeOK
    <3>2. \/ \E e \in events' : e.request = r
          \/ answer'[r] \notin {"ok", "replay", "rejected", "in_progress"}
      BY <1>12, EmitTells DEF Final, PackInv, TypeOK, Arrived
    <3> QED
      BY <3>1, <3>2 DEF PackInv, EventInv
  <2> QED
    BY <2>1, <2>2, <2>3, <2>4, <2>5, <2>6, <2>7, <2>8, <2>9, <2>10 DEF PackInv
<1>13. ASSUME NEW r \in Requests, Abort(r) PROVE PackInv'
  <2>1. TypeOK'
    BY <1>13, RequestAssumption DEF Abort, Answer, marks, PackInv, TypeOK, Kinds
  <2>2. Arrived'
    BY <1>13 DEF Abort, Answer, marks, PackInv, Arrived, TypeOK
  <2>3. Begun'
    BY <1>13 DEF Abort, Answer, marks, PackInv, Begun, Arrived, TypeOK, Writing
  <2>4. SoFar'
    BY <1>13
    DEF Abort, Answer, marks, PackInv, SoFar, Arrived, Begun, TypeOK, Writing,
        Written
  <2>5. Succeeded'
    BY <1>13
    DEF Abort, Answer, marks, PackInv, Succeeded, Finished, Arrived, Begun, SoFar,
        TypeOK, Writing, Written
  <2>6. RowInv'
    BY <1>13, RequestAssumption
    DEF Abort, Answer, marks, PackInv, RowInv, Finished, Arrived, Begun, TypeOK,
        Writing, Written
  <2>7. KeyInv'
    BY <1>13
    DEF Abort, Answer, marks, PackInv, KeyInv, Arrived, Begun, TypeOK, Writing,
        Calls
  <2>8. ReplayInv'
    BY <1>13, RequestAssumption
    DEF Abort, Answer, marks, PackInv, ReplayInv, Finished, Fresh, Arrived, Begun,
        TypeOK, Writing, RowInv, Calls, Written
  <2>9. ApprovalInv'
    <3>1. /\ UNCHANGED <<req, again>> /\ ledger \subseteq ledger'
          /\ packaged => packaged'
      BY <1>13 DEF Abort, Answer, marks
    <3>2. \A q \in Requests \ {r} :
            /\ pc'[q] = pc[q] /\ counted'[q] = counted[q]
            /\ q \in began' => q \in began
      BY <1>13 DEF Abort, Answer, marks, PackInv, TypeOK
    <3>3. /\ again[r] /\ pc'[r] = "approve" => counted'[r]
          /\ pc'[r] \in {"count", "approve"} => pc[r] = "count"
          /\ pc[r] # "new"
          /\ pc'[r] \in {"classify", "lookup", "insert"} \/ r \in began' =>
               pc[r] \in {"classify", "lookup", "insert"} \/ r \in began
      BY <1>13 DEF Abort, Answer, marks, PackInv, TypeOK, ApprovalInv
    <3> QED
      BY <3>1, <3>2, <3>3, GrantsStay
  <2>10. EventInv'
    BY <1>13 DEF Abort, Answer, marks, PackInv, EventInv, Arrived, TypeOK
  <2> QED
    BY <2>1, <2>2, <2>3, <2>4, <2>5, <2>6, <2>7, <2>8, <2>9, <2>10 DEF PackInv
<1>14. CASE UNCHANGED vars
  BY <1>14
  DEF vars, marks, PackInv, TypeOK, Arrived, Begun, SoFar, Succeeded, RowInv,
      KeyInv, ReplayInv, ApprovalInv, EventInv, Finished, Granted, Written
<1> QED
  BY <1>1, <1>2, <1>3, <1>4, <1>5, <1>6, <1>7, <1>8, <1>9, <1>10, <1>11, <1>12, <1>13, <1>14
  DEF Next, Serve

(* In every reachable state of the packaging routes the invariant holds.   *)
THEOREM Strengthening == Spec => []PackInv
  BY PackStep, PackInit, PTL DEF Spec

(* The type invariant is one of its parts.                                 *)
LEMMA TypesFollow == PackInv => TypeOK
  BY DEF PackInv

(* Every variable of the routes keeps its type.                            *)
THEOREM TypeCorrect == Spec => []TypeOK
  BY TypesFollow, Strengthening, PTL

(* What the invariant says of a completed row and of an answer.            *)
LEMMA CompletedFollows == PackInv => CompletedIsWhole
<1> SUFFICES ASSUME PackInv PROVE CompletedIsWhole
  OBVIOUS
<1>1. \A k \in Keys : Done(k) =>
        Written(row[k]) = Wanted(req[row[k]]) /\ req[row[k]].key = k
  BY DEF PackInv, RowInv, Finished, Done
<1>2. \A r \in Requests : answer[r] = "ok" => Written(r) = Wanted(req[r])
  BY DEF PackInv, Succeeded, Finished
<1>3. \A r \in Requests : answer[r] = "replay" =>
        /\ Written(replayOf[r]) = Wanted(req[replayOf[r]])
        /\ req[replayOf[r]].key = req[r].key
  BY DEF PackInv, ReplayInv, Finished
<1> QED
  BY <1>1, <1>2, <1>3 DEF CompletedIsWhole

(* A completed or successfully answered package has all of its memory, and *)
(* a replay returns one of the same key (main.py:435-479).                 *)
THEOREM CompletedPackagesAreWhole == Spec => []CompletedIsWhole
BY Strengthening, CompletedFollows, PTL

(* What the invariant says of a late request.                              *)
LEMMA OnceFollows == PackInv => NoSecondWrite
<1> SUFFICES ASSUME PackInv, NEW m \in memory, late[m.request] PROVE FALSE
  BY DEF NoSecondWrite
<1>1. m.request \in Requests /\ m.kind \in Kinds
      /\ m = [request |-> m.request, kind |-> m.kind]
  BY DEF PackInv, TypeOK
<1>2. m.request \notin began
  BY <1>1 DEF PackInv, KeyInv
<1>3. Written(m.request) = {}
  BY <1>1, <1>2 DEF PackInv, SoFar
<1> QED
  BY <1>1, <1>3 DEF Written

(* What a request that arrived after one of its key began never does is    *)
(* write memory (main.py:368-414).                                         *)
THEOREM KeysWriteOnce == Spec => []NoSecondWrite
BY Strengthening, OnceFollows, PTL

(* What the invariant says of a retry that writes again.                   *)
LEMMA ApprovedFollows == PackInv => DuplicatesApproved
<1> SUFFICES ASSUME PackInv, NEW r \in Requests, req[r].route = "retry",
                    again[r], Written(r) # {}
             PROVE  Granted(r)
  BY DEF DuplicatesApproved, Granted
<1>1. r \in began
  BY DEF PackInv, SoFar
<1>2. pc[r] # "new"
  BY <1>1 DEF PackInv, Begun, Writing
<1> QED
  BY <1>1, <1>2 DEF PackInv, ApprovalInv

(* A retry that writes after a completed package was approved for it       *)
(* (main.py:562, governance.py:36-51).                                     *)
THEOREM DuplicatesAreApproved == Spec => []DuplicatesApproved
BY Strengthening, ApprovedFollows, PTL

(* What the invariant says of the telemetry.                               *)
LEMMA EventsFollow == PackInv => EventsTrue
<1> SUFFICES ASSUME PackInv PROVE EventsTrue
  OBVIOUS
<1>1. \A r \in Requests :
        answer[r] \in {"ok", "replay", "rejected", "in_progress"} => Told(r) # {}
  BY DEF PackInv, EventInv, Told
<1>2. \A r \in Requests : "final" \in Told(r) =>
        packaged /\ Written(r) = Wanted(req[r])
  BY DEF PackInv, Succeeded, Finished, Told
<1> QED
  BY <1>1, <1>2 DEF EventsTrue

(* The telemetry is what clients were told (main.py:349-494).              *)
THEOREM TelemetryIsTrue == Spec => []EventsTrue
BY Strengthening, EventsFollow, PTL

(* What the invariant says of the report.                                  *)
LEMMA ReportFollows == PackInv => ReportRight
<1> SUFFICES ASSUME PackInv PROVE ReportRight
  OBVIOUS
<1>1. MemoryGated
  <2> SUFFICES ASSUME last # "none", Done(last),
                      [request |-> row[last], kind |-> "chosen"] \in memory
               PROVE  Mode(req[row[last]].status) = "canonical"
    BY DEF MemoryGated
  <2>1. Finished(row[last])
    BY DEF PackInv, RowInv, Done
  <2>2. "chosen" \in Written(row[last])
    BY DEF Written, Kinds
  <2> QED
    BY <2>1, <2>2 DEF Finished, Wanted, WantsChosen
<1>2. ASSUME ~PayloadValid
      PROVE  \E r \in began : req[r].key = last /\ answer[r] # "ok"
  <2>1. last \in Keys /\ row[last] = "in_progress"
    BY <1>2 DEF PayloadValid, Done, PackInv, RowInv, TypeOK
  <2> QED
    BY <2>1 DEF PackInv, RowInv
<1> QED
  BY <1>1, <1>2 DEF ReportRight, Report

(* The report on a job finds no memory that should not be there, and no    *)
(* empty response but of a package under way or lost (invariants.py:34).   *)
THEOREM ReportsAreRight == Spec => []ReportRight
BY Strengthening, ReportFollows, PTL

(* A step of a run.                                                        *)
Moves(r) == Stages!Begin(r) \/ Stages!Work(r) \/ Stages!Abort(r)

(* Where a run stands: what it is at fits the stage it saved, a plan is    *)
(* written within its bounds, a worker that shows no diff never showed     *)
(* one, a repair has an outcome when it is over, and a run that completed  *)
(* was approved.                                                           *)
RunRight(r) ==
  /\ mode[r] = "new" => stage[r] = "queued"
  /\ mode[r] \in {"write", "reset", "revalidate", "rereview"} => stage[r] = "repairing"
  /\ mode[r] = "respond" => stage[r] \in Stages!Final
  /\ mode[r] = "work" => stage[r] \notin Stages!Final
  /\ repair[r] # "none" => stage[r] \in Stages!Final \cup {"finalizing"}
  /\ plan[r] # {} => mode[r] = "write"
  /\ plan[r] \subseteq Stages!Allowed(r)
  /\ ~shows => \A f \in Files : diff[r][f] = "base"
  /\ stage[r] = "completed" => verdict[r] = "approve" /\ repair[r] # "repair_failed"
  /\ response[r] # "none" => mode[r] = "answered"
  /\ response[r] = "completed" => stage[r] = "completed"

(* The row is that of the run that saved last: a final stage is that run's *)
(* own, and a stage that is not final is one of a run that has not ended.  *)
RowRight ==
  stateRow.stage # "none" =>
    /\ stateRow.run \in Runs
    /\ stateRow.stage \in Stages!Final =>
         /\ stage[stateRow.run] = stateRow.stage
         /\ mode[stateRow.run] \in {"respond", "answered", "aborted"}
    /\ stateRow.stage \notin Stages!Final =>
         mode[stateRow.run] \notin {"new", "respond", "answered"}

(* The stages at which the run's last diff is what git_diff answers.       *)
Shown(r) ==
  \/ stage[r] \in {"validating", "reviewing"} \/ mode[r] = "rereview"
  \/ stage[r] \in {"finalizing", "completed"} /\ repair[r] # "repair_failed"

(* As long as no two runs have been under way at once: there is one that   *)
(* is, it has read the transitions as they are, the row is its own when it *)
(* has saved its last stage, and nothing changes the files under it.       *)
OneByOne ==
  /\ \A q, r \in Runs : Stages!Active(q) /\ Stages!Active(r) => q = r
  /\ \A r \in Runs :
       /\ mode[r] = "upsert" => snap[r] = transitions
       /\ mode[r] = "respond" => stateRow.run = r
       /\ Stages!Active(r) /\ Shown(r) => diff[r] = Stages!GitDiff
  /\ transitions = saved

(* What was saved as completed stays until another run begins.             *)
Stands ==
  (/\ stateRow.stage = "completed"
   /\ \A q \in Runs \ {stateRow.run} : mode[q] \in {"new", "answered"})
  => diff[stateRow.run] = Stages!GitDiff

StagesInv ==
  /\ Stages!TypeOK /\ Stages!RepairInBounds /\ Stages!FailedRepairReset
  /\ (\A r \in Runs : RunRight(r)) /\ RowRight
  /\ ~overlap => OneByOne /\ Stands

(* The runs begin with the invariant.                                      *)
LEMMA StagesInit == ASSUME Stages!Init PROVE StagesInv
<1>1. Stages!TypeOK
  BY DEF Stages!Init, Stages!TypeOK, Stages!Trees, Stages!Stages, Stages!Final,
         Stages!Verdicts, Stages!Entries
<1>2. Stages!RepairInBounds /\ Stages!FailedRepairReset
  BY RunsAssumption DEF Stages!Init, Stages!RepairInBounds, Stages!FailedRepairReset
<1>3. ASSUME NEW r \in Runs PROVE RunRight(r)
  BY <1>3 DEF Stages!Init, RunRight, Stages!Allowed, Stages!Changed, Stages!Final
<1>4. RowRight /\ Stands
  BY DEF Stages!Init, RowRight, Stands
<1>5. OneByOne
  BY DEF Stages!Init, OneByOne, Stages!Active
<1> QED
  BY <1>1, <1>2, <1>3, <1>4, <1>5 DEF StagesInv

(* The types as the actions keep them.                                     *)
LEMMA StagesTypeStep ==
  ASSUME Stages!TypeOK, NEW r \in Runs, RunRight(r), Moves(r) PROVE Stages!TypeOK'
<1> USE DEF Stages!TypeOK, Stages!Mode, Stages!Save, Stages!At, Stages!locals,
            Stages!shared
<1>1. CASE Stages!Begin(r)
  BY <1>1 DEF Stages!Begin, Stages!Stages
<1>2. CASE Stages!SelectTransitions(r)
  BY <1>2 DEF Stages!SelectTransitions
<1>3. CASE Stages!Upsert(r)
  <2>1. /\ Stages!Added(r) \in SUBSET Stages!Entries
        /\ Stages!Appended(r) \in SUBSET Stages!Entries
    BY DEF Stages!Added, Stages!Appended, Stages!Entries
  <2> QED
    BY <1>3, <2>1 DEF Stages!Upsert
<1>4. CASE Stages!Prepare(r) \/ Stages!Implement(r) \/ Stages!AfterReview(r)
  BY <1>4 DEF Stages!Prepare, Stages!Implement, Stages!AfterReview, Stages!Stages
<1>5. CASE Stages!Validate(r)
  <2>1. Stages!GitDiff \in Stages!Trees
    BY DEF Stages!GitDiff, Stages!Trees
  <2> QED
    BY <1>5, <2>1 DEF Stages!Validate, Stages!Stages
<1>6. CASE Stages!Review(r)
  BY <1>6 DEF Stages!Review, Stages!Stages, Stages!Final, Stages!Verdicts
<1>7. CASE Stages!Finalize(r)
  <2>1. Stages!FinalStage(r) \in Stages!Stages
    BY DEF Stages!FinalStage, Stages!Stages, Stages!Final
  <2> QED
    BY <1>7, <2>1 DEF Stages!Finalize
<1>8. CASE Stages!Respond(r)
  BY <1>8 DEF Stages!Respond, Stages!Final, RunRight
<1>9. CASE Stages!PlanRepair(r)
  BY <1>9 DEF Stages!PlanRepair, Stages!Plans
<1>10. CASE Stages!WriteFile(r)
  BY <1>10 DEF Stages!WriteFile, Stages!Trees
<1>11. CASE Stages!WriteFails(r)
  BY <1>11 DEF Stages!WriteFails, Stages!Trees
<1>12. CASE Stages!CheckDiff(r)
  BY <1>12 DEF Stages!CheckDiff
<1>13. CASE Stages!ResetRepo(r)
  BY <1>13 DEF Stages!ResetRepo, Stages!Stages
<1>14. CASE Stages!Revalidate(r)
  <2>1. Stages!GitDiff \in Stages!Trees
    BY DEF Stages!GitDiff, Stages!Trees
  <2> QED
    BY <1>14, <2>1 DEF Stages!Revalidate
<1>15. CASE Stages!SecondReview(r)
  BY <1>15 DEF Stages!SecondReview, Stages!Stages
<1>16. CASE Stages!Abort(r)
  BY <1>16 DEF Stages!Abort
<1> QED
  BY <1>1, <1>2, <1>3, <1>4, <1>5, <1>6, <1>7, <1>8, <1>9, <1>10, <1>11, <1>12,
     <1>13, <1>14, <1>15, <1>16 DEF Moves, Stages!Work

(* A step of a run leaves what the others have.                            *)
LEMMA OthersStay ==
  ASSUME Stages!TypeOK, NEW r \in Runs, Moves(r), NEW q \in Runs, q # r
  PROVE  /\ mode'[q] = mode[q] /\ stage'[q] = stage[q] /\ verdict'[q] = verdict[q]
         /\ repair'[q] = repair[q] /\ plan'[q] = plan[q] /\ diff'[q] = diff[q]
         /\ snap'[q] = snap[q] /\ response'[q] = response[q]
<1> USE DEF Stages!TypeOK, Stages!Mode, Stages!Save, Stages!At, Stages!locals,
            Stages!shared
<1>1. CASE Stages!Begin(r) \/ Stages!SelectTransitions(r) \/ Stages!Upsert(r)
           \/ Stages!Prepare(r) \/ Stages!Implement(r) \/ Stages!Validate(r)
           \/ Stages!Review(r) \/ Stages!AfterReview(r) \/ Stages!Finalize(r)
  BY <1>1
  DEF Stages!Begin, Stages!SelectTransitions, Stages!Upsert, Stages!Prepare,
      Stages!Implement, Stages!Validate, Stages!Review, Stages!AfterReview,
      Stages!Finalize
<1>2. CASE Stages!Respond(r) \/ Stages!PlanRepair(r) \/ Stages!WriteFile(r)
           \/ Stages!WriteFails(r) \/ Stages!CheckDiff(r) \/ Stages!ResetRepo(r)
           \/ Stages!Revalidate(r) \/ Stages!SecondReview(r) \/ Stages!Abort(r)
  BY <1>2
  DEF Stages!Respond, Stages!PlanRepair, Stages!WriteFile, Stages!WriteFails,
      Stages!CheckDiff, Stages!ResetRepo, Stages!Revalidate, Stages!SecondReview,
      Stages!Abort
<1> QED
  BY <1>1, <1>2 DEF Moves, Stages!Work

(* What a step of a run does to its own place keeps RunRight.              *)
LEMMA RunStep ==
  ASSUME Stages!TypeOK, NEW r \in Runs, RunRight(r), Moves(r) PROVE RunRight(r)'
<1> USE DEF Stages!TypeOK, Stages!Mode, Stages!Save, Stages!At, Stages!locals,
            Stages!shared, RunRight
<1>1. CASE Stages!Begin(r)
  BY <1>1 DEF Stages!Begin, Stages!Allowed, Stages!Changed, Stages!Final
<1>2. CASE Stages!SelectTransitions(r)
  BY <1>2 DEF Stages!SelectTransitions, Stages!Allowed, Stages!Changed, Stages!Final
<1>3. CASE Stages!Upsert(r)
  BY <1>3 DEF Stages!Upsert, Stages!Allowed, Stages!Changed, Stages!Final
<1>4. CASE Stages!Prepare(r) \/ Stages!Implement(r)
  BY <1>4
  DEF Stages!Prepare, Stages!Implement, Stages!Allowed, Stages!Changed, Stages!Final
<1>5. CASE Stages!Validate(r)
  BY <1>5
  DEF Stages!Validate, Stages!GitDiff, Stages!Allowed, Stages!Changed, Stages!Final
<1>6. CASE Stages!Review(r)
  BY <1>6 DEF Stages!Review, Stages!Allowed, Stages!Changed, Stages!Final
<1>7. CASE Stages!AfterReview(r)
  BY <1>7 DEF Stages!AfterReview, Stages!Allowed, Stages!Changed, Stages!Final
<1>8. CASE Stages!Finalize(r)
  BY <1>8
  DEF Stages!Finalize, Stages!FinalStage, Stages!Allowed, Stages!Changed,
      Stages!Final
<1>9. CASE Stages!Respond(r)
  BY <1>9 DEF Stages!Respond, Stages!Allowed, Stages!Changed, Stages!Final
<1>10. CASE Stages!PlanRepair(r)
  BY <1>10
  DEF Stages!PlanRepair, Stages!InBounds, Stages!Plans, Stages!Allowed,
      Stages!Changed, Stages!Final
<1>11. CASE Stages!WriteFile(r)
  BY <1>11 DEF Stages!WriteFile, Stages!Allowed, Stages!Changed, Stages!Final
<1>12. CASE Stages!WriteFails(r)
  BY <1>12 DEF Stages!WriteFails, Stages!Allowed, Stages!Changed, Stages!Final
<1>13. CASE Stages!CheckDiff(r)
  BY <1>13 DEF Stages!CheckDiff, Stages!Allowed, Stages!Changed, Stages!Final
<1>14. CASE Stages!ResetRepo(r)
  BY <1>14 DEF Stages!ResetRepo, Stages!Allowed, Stages!Changed, Stages!Final
<1>15. CASE Stages!Revalidate(r)
  BY <1>15
  DEF Stages!Revalidate, Stages!GitDiff, Stages!Allowed, Stages!Changed, Stages!Final
<1>16. CASE Stages!SecondReview(r)
  BY <1>16 DEF Stages!SecondReview, Stages!Allowed, Stages!Changed, Stages!Final
<1>17. CASE Stages!Abort(r)
  BY <1>17
  DEF Stages!Abort, Stages!Active, Stages!Allowed, Stages!Changed, Stages!Final
<1> QED
  BY <1>1, <1>2, <1>3, <1>4, <1>5, <1>6, <1>7, <1>8, <1>9, <1>10, <1>11, <1>12,
     <1>13, <1>14, <1>15, <1>16, <1>17 DEF Moves, Stages!Work

(* A job has one worker.                                                   *)
LEMMA WorkerStays == ASSUME NEW r \in Runs, Moves(r) PROVE shows' = shows
<1>1. CASE Stages!Begin(r) \/ Stages!SelectTransitions(r) \/ Stages!Upsert(r)
           \/ Stages!Prepare(r) \/ Stages!Implement(r) \/ Stages!Validate(r)
           \/ Stages!Review(r) \/ Stages!AfterReview(r) \/ Stages!Finalize(r)
  BY <1>1
  DEF Stages!Begin, Stages!SelectTransitions, Stages!Upsert, Stages!Prepare,
      Stages!Implement, Stages!Validate, Stages!Review, Stages!AfterReview,
      Stages!Finalize, Stages!shared
<1>2. CASE Stages!Respond(r) \/ Stages!PlanRepair(r) \/ Stages!WriteFile(r)
           \/ Stages!WriteFails(r) \/ Stages!CheckDiff(r) \/ Stages!ResetRepo(r)
           \/ Stages!Revalidate(r) \/ Stages!SecondReview(r) \/ Stages!Abort(r)
  BY <1>2
  DEF Stages!Respond, Stages!PlanRepair, Stages!WriteFile, Stages!WriteFails,
      Stages!CheckDiff, Stages!ResetRepo, Stages!Revalidate, Stages!SecondReview,
      Stages!Abort, Stages!shared
<1> QED
  BY <1>1, <1>2 DEF Moves, Stages!Work

(* What another run does leaves a run where it stands.                     *)
LEMMA OthersRight ==
  ASSUME Stages!TypeOK, NEW r \in Runs, Moves(r),
         NEW q \in Runs, q # r, RunRight(q)
  PROVE  RunRight(q)'
BY OthersStay, WorkerStays DEF RunRight, Stages!Allowed, Stages!Changed

(* Who changes the files, and how.                                         *)
LEMMA FilesStep ==
  ASSUME Stages!TypeOK, NEW r \in Runs, RunRight(r), Moves(r)
  PROVE  \/ files' = files
         \/ /\ mode[r] = "write" /\ UNCHANGED diff
            /\ \E f \in plan[r] : files' = [files EXCEPT ![f] = r]
<1> USE DEF Stages!TypeOK, Stages!Mode, Stages!Save, Stages!At, Stages!locals,
            Stages!shared
<1>1. CASE Stages!WriteFile(r)
  BY <1>1 DEF Stages!WriteFile
<1>2. CASE Stages!WriteFails(r)
  BY <1>2 DEF Stages!WriteFails
<1>3. CASE Stages!ResetRepo(r)
  BY <1>3 DEF Stages!ResetRepo
<1>4. CASE Stages!Begin(r) \/ Stages!SelectTransitions(r) \/ Stages!Upsert(r)
           \/ Stages!Prepare(r) \/ Stages!Implement(r) \/ Stages!Validate(r)
           \/ Stages!Review(r) \/ Stages!AfterReview(r) \/ Stages!Finalize(r)
  BY <1>4
  DEF Stages!Begin, Stages!SelectTransitions, Stages!Upsert, Stages!Prepare,
      Stages!Implement, Stages!Validate, Stages!Review, Stages!AfterReview,
      Stages!Finalize
<1>5. CASE Stages!Respond(r) \/ Stages!PlanRepair(r) \/ Stages!CheckDiff(r)
           \/ Stages!Revalidate(r) \/ Stages!SecondReview(r) \/ Stages!Abort(r)
  BY <1>5
  DEF Stages!Respond, Stages!PlanRepair, Stages!CheckDiff, Stages!Revalidate,
      Stages!SecondReview, Stages!Abort
<1> QED
  BY <1>1, <1>2, <1>3, <1>4, <1>5 DEF Moves, Stages!Work

(* When a run's diff changes, it is what git_diff answers.                 *)
LEMMA DiffStep ==
  ASSUME Stages!TypeOK, NEW r \in Runs, Moves(r)
  PROVE  diff'[r] = diff[r] \/ (diff'[r] = Stages!GitDiff /\ files' = files)
<1>1. CASE Stages!Validate(r) \/ Stages!Revalidate(r)
  BY <1>1 DEF Stages!Validate, Stages!Revalidate, Stages!TypeOK, Stages!shared
<1>2. ASSUME Stages!Begin(r) \/ Stages!SelectTransitions(r) \/ Stages!Upsert(r)
             \/ Stages!Prepare(r) \/ Stages!Implement(r) \/ Stages!Review(r)
             \/ Stages!AfterReview(r) \/ Stages!Finalize(r)
      PROVE  diff' = diff
  BY <1>2
  DEF Stages!Begin, Stages!SelectTransitions, Stages!Upsert, Stages!Prepare,
      Stages!Implement, Stages!Review, Stages!AfterReview, Stages!Finalize,
      Stages!locals, Stages!shared, Stages!Mode, Stages!Save, Stages!At
<1>3. ASSUME Stages!Respond(r) \/ Stages!PlanRepair(r) \/ Stages!WriteFile(r)
             \/ Stages!WriteFails(r) \/ Stages!CheckDiff(r) \/ Stages!ResetRepo(r)
             \/ Stages!SecondReview(r) \/ Stages!Abort(r)
      PROVE  diff' = diff
  BY <1>3
  DEF Stages!Respond, Stages!PlanRepair, Stages!WriteFile, Stages!WriteFails,
      Stages!CheckDiff, Stages!ResetRepo, Stages!SecondReview, Stages!Abort,
      Stages!locals, Stages!shared, Stages!Mode, Stages!Save, Stages!At
<1>4. diff' = diff \/ Stages!Validate(r) \/ Stages!Revalidate(r)
  BY <1>2, <1>3 DEF Moves, Stages!Work
<1>5. CASE diff' = diff
  BY <1>5
<1> QED
  BY <1>1, <1>4, <1>5

(* A step of a run stays within the bounds of its repair.                  *)
LEMMA BoundsStep ==
  ASSUME Stages!TypeOK, Stages!RepairInBounds, NEW r \in Runs, RunRight(r), Moves(r)
  PROVE  Stages!RepairInBounds'
<1> SUFFICES ASSUME NEW q \in Runs, NEW f \in Files, files'[f] = q
             PROVE  f \in Targets \/ diff'[q][f] # "base"
  BY DEF Stages!RepairInBounds
<1>1. q # "base"
  BY RunsAssumption
<1>2. files[f] = q \/ (q = r /\ f \in plan[r] /\ UNCHANGED diff)
  <2>1. CASE files' = files
    BY <2>1
  <2>2. ASSUME NEW g \in plan[r], files' = [files EXCEPT ![g] = r], UNCHANGED diff
        PROVE  files[f] = q \/ (q = r /\ f \in plan[r] /\ UNCHANGED diff)
    BY <2>2 DEF Stages!TypeOK, Stages!Trees
  <2> QED
    BY <2>1, <2>2, FilesStep
<1>3. CASE files[f] = q
  <2>1. f \in Targets \/ diff[q][f] # "base"
    BY <1>3 DEF Stages!RepairInBounds
  <2>2. diff'[q] = diff[q] \/ (q = r /\ diff'[q] = Stages!GitDiff)
    BY DiffStep, OthersStay
  <2>3. q = r /\ ~shows => f \in Targets
    BY <2>1 DEF RunRight
  <2> QED
    BY <1>1, <1>3, <2>1, <2>2, <2>3 DEF Stages!GitDiff
<1>4. CASE q = r /\ f \in plan[r] /\ UNCHANGED diff
  BY <1>4 DEF RunRight, Stages!Allowed, Stages!Changed
<1> QED
  BY <1>2, <1>3, <1>4

(* A repair is given up where the worker is asked to reset the task, and   *)
(* nothing is written but by the repair that is under way.                 *)
LEMMA RepairStep ==
  ASSUME Stages!TypeOK, NEW r \in Runs, Moves(r)
  PROVE  /\ repair'[r] = "repair_failed" => repair[r] = "repair_failed" \/ owed' = {}
         /\ owed' \subseteq owed \/ (mode[r] = "write" /\ owed' = owed \cup {r})
<1> USE DEF Stages!TypeOK, Stages!Mode, Stages!Save, Stages!At, Stages!locals,
            Stages!shared
<1>1. CASE Stages!Begin(r) \/ Stages!SelectTransitions(r) \/ Stages!Upsert(r)
           \/ Stages!Prepare(r) \/ Stages!Implement(r) \/ Stages!Validate(r)
           \/ Stages!Review(r) \/ Stages!AfterReview(r) \/ Stages!Finalize(r)
  BY <1>1
  DEF Stages!Begin, Stages!SelectTransitions, Stages!Upsert, Stages!Prepare,
      Stages!Implement, Stages!Validate, Stages!Review, Stages!AfterReview,
      Stages!Finalize
<1>2. CASE Stages!Respond(r) \/ Stages!PlanRepair(r) \/ Stages!CheckDiff(r)
           \/ Stages!ResetRepo(r) \/ Stages!Revalidate(r) \/ Stages!Abort(r)
  BY <1>2
  DEF Stages!Respond, Stages!PlanRepair, Stages!CheckDiff, Stages!ResetRepo,
      Stages!Revalidate, Stages!Abort
<1>3. CASE Stages!WriteFile(r) \/ Stages!WriteFails(r)
  BY <1>3 DEF Stages!WriteFile, Stages!WriteFails
<1>4. CASE Stages!SecondReview(r)
  BY <1>4 DEF Stages!SecondReview
<1> QED
  BY <1>1, <1>2, <1>3, <1>4 DEF Moves, Stages!Work

(* A step leaves no write of a failed repair that no reset was asked after. *)
LEMMA ResetStep ==
  ASSUME Stages!TypeOK, Stages!FailedRepairReset, NEW r \in Runs, RunRight(r), Moves(r)
  PROVE  Stages!FailedRepairReset'
<1> SUFFICES ASSUME NEW q \in Runs, repair'[q] = "repair_failed", q \in owed'
             PROVE  FALSE
  BY DEF Stages!FailedRepairReset
<1>1. repair[q] = "repair_failed"
  BY RepairStep, OthersStay
<1>2. q \notin owed
  BY <1>1 DEF Stages!FailedRepairReset
<1>3. mode[r] = "write" /\ q = r
  BY <1>2, RepairStep
<1> QED
  BY <1>1, <1>3 DEF RunRight, Stages!Final

(* Who writes the row: the run whose save it is, and its stage.            *)
LEMMA RowWritten ==
  ASSUME NEW r \in Runs, Moves(r)
  PROVE  stateRow' = stateRow \/ Stages!Upsert(r)
<1>1. CASE Stages!Begin(r) \/ Stages!SelectTransitions(r) \/ Stages!Prepare(r)
           \/ Stages!Implement(r) \/ Stages!Validate(r) \/ Stages!Review(r)
           \/ Stages!AfterReview(r) \/ Stages!Finalize(r)
  BY <1>1
  DEF Stages!Begin, Stages!SelectTransitions, Stages!Prepare, Stages!Implement,
      Stages!Validate, Stages!Review, Stages!AfterReview, Stages!Finalize,
      Stages!shared
<1>2. CASE Stages!Respond(r) \/ Stages!PlanRepair(r) \/ Stages!WriteFile(r)
           \/ Stages!WriteFails(r) \/ Stages!CheckDiff(r) \/ Stages!ResetRepo(r)
           \/ Stages!Revalidate(r) \/ Stages!SecondReview(r) \/ Stages!Abort(r)
  BY <1>2
  DEF Stages!Respond, Stages!PlanRepair, Stages!WriteFile, Stages!WriteFails,
      Stages!CheckDiff, Stages!ResetRepo, Stages!Revalidate, Stages!SecondReview,
      Stages!Abort, Stages!shared
<1> QED
  BY <1>1, <1>2 DEF Moves, Stages!Work

(* A run that has ended keeps its stage, and ends otherwise by its answer  *)
(* or by being lost.                                                       *)
LEMMA EndedStays ==
  ASSUME Stages!TypeOK, NEW r \in Runs, RunRight(r), Moves(r),
         mode[r] \in {"respond", "answered", "aborted"}
  PROVE  /\ stage'[r] = stage[r] /\ mode'[r] \in {"answered", "aborted"}
         /\ mode[r] = "respond" /\ UNCHANGED <<stateRow, files, diff, transitions, saved>>
BY DEF Stages!Begin, Stages!SelectTransitions, Stages!Upsert, Stages!Prepare,
       Stages!Implement, Stages!Validate, Stages!Review, Stages!AfterReview,
       Stages!Finalize, Stages!Respond, Stages!PlanRepair, Stages!WriteFile,
       Stages!WriteFails, Stages!CheckDiff, Stages!ResetRepo, Stages!Revalidate,
       Stages!SecondReview, Stages!Abort, Stages!At, Stages!Mode, Stages!Save,
       Stages!locals, Stages!shared, Moves, Stages!Work, Stages!Active, Stages!TypeOK

(* A run is under way until it responds or is lost.                        *)
LEMMA UnderWay ==
  ASSUME Stages!TypeOK, NEW r \in Runs, RunRight(r), Moves(r),
         mode[r] # "respond"
  PROVE  mode'[r] \notin {"new", "answered"} /\ (mode'[r] = "respond" => Stages!Upsert(r))
<1>1. CASE Stages!Begin(r) \/ Stages!SelectTransitions(r) \/ Stages!Upsert(r)
           \/ Stages!Prepare(r) \/ Stages!Implement(r) \/ Stages!Validate(r)
           \/ Stages!Review(r) \/ Stages!AfterReview(r) \/ Stages!Finalize(r)
  BY <1>1
  DEF Stages!Begin, Stages!SelectTransitions, Stages!Upsert, Stages!Prepare,
      Stages!Implement, Stages!Validate, Stages!Review, Stages!AfterReview,
      Stages!Finalize, Stages!Mode, Stages!Save, Stages!TypeOK
<1>2. CASE Stages!PlanRepair(r) \/ Stages!WriteFile(r) \/ Stages!WriteFails(r)
           \/ Stages!CheckDiff(r) \/ Stages!ResetRepo(r) \/ Stages!Revalidate(r)
           \/ Stages!SecondReview(r) \/ Stages!Abort(r)
  BY <1>2
  DEF Stages!PlanRepair, Stages!WriteFile, Stages!WriteFails, Stages!CheckDiff,
      Stages!ResetRepo, Stages!Revalidate, Stages!SecondReview, Stages!Abort,
      Stages!At, Stages!Mode, Stages!Save, Stages!TypeOK
<1> QED
  BY <1>1, <1>2 DEF Moves, Stages!Work, Stages!Respond

(* A step leaves the row to the run that saved last.                       *)
LEMMA RowStep ==
  ASSUME Stages!TypeOK, RowRight, NEW r \in Runs, RunRight(r), Moves(r)
  PROVE  RowRight'
<1>1. CASE Stages!Upsert(r)
  BY <1>1 DEF Stages!Upsert, RowRight, Stages!Mode, Stages!TypeOK
<1>2. CASE stateRow' = stateRow
  <2> SUFFICES ASSUME stateRow.stage # "none" PROVE RowRight'
    BY <1>2 DEF RowRight
  <2>1. stateRow.run \in Runs
    BY DEF RowRight
  <2>2. CASE stateRow.run # r
    BY <1>2, <2>1, <2>2, OthersStay DEF RowRight
  <2>3. CASE stateRow.run = r /\ stateRow.stage \in Stages!Final
    BY <1>2, <2>3, EndedStays DEF RowRight
  <2>4. CASE stateRow.run = r /\ stateRow.stage \notin Stages!Final
    BY <1>1, <1>2, <2>4, UnderWay DEF RowRight
  <2> QED
    BY <2>1, <2>2, <2>3, <2>4
<1> QED
  BY <1>1, <1>2, RowWritten

(* Only a run that is under way takes steps, after the first of them.      *)
LEMMA Moving ==
  ASSUME Stages!TypeOK, NEW r \in Runs, Stages!Work(r) \/ Stages!Abort(r)
  PROVE  Stages!Active(r) /\ overlap' = overlap
<1>1. CASE Stages!SelectTransitions(r) \/ Stages!Upsert(r) \/ Stages!Prepare(r)
           \/ Stages!Implement(r) \/ Stages!Validate(r) \/ Stages!Review(r)
           \/ Stages!AfterReview(r) \/ Stages!Finalize(r)
  BY <1>1
  DEF Stages!SelectTransitions, Stages!Upsert, Stages!Prepare, Stages!Implement,
      Stages!Validate, Stages!Review, Stages!AfterReview, Stages!Finalize, Stages!At,
      Stages!Active
<1>2. CASE Stages!Respond(r) \/ Stages!PlanRepair(r) \/ Stages!WriteFile(r)
           \/ Stages!WriteFails(r) \/ Stages!CheckDiff(r) \/ Stages!ResetRepo(r)
           \/ Stages!Revalidate(r) \/ Stages!SecondReview(r) \/ Stages!Abort(r)
  BY <1>2
  DEF Stages!Respond, Stages!PlanRepair, Stages!WriteFile, Stages!WriteFails,
      Stages!CheckDiff, Stages!ResetRepo, Stages!Revalidate, Stages!SecondReview,
      Stages!Abort, Stages!At, Stages!Active
<1> QED
  BY <1>1, <1>2 DEF Moves, Stages!Work

(* As long as no two runs have been under way at once, a run moves alone.  *)
LEMMA Alone ==
  ASSUME Stages!TypeOK, ~overlap => OneByOne, ~overlap', NEW r \in Runs,
         Moves(r)
  PROVE  ~overlap /\ \A q \in Runs \ {r} : ~Stages!Active(q)
<1>1. CASE Stages!Begin(r)
  BY <1>1 DEF Stages!Begin
<1>2. CASE Stages!Work(r) \/ Stages!Abort(r)
  BY <1>2, Moving DEF OneByOne
<1> QED
  BY <1>1, <1>2 DEF Moves

(* What a run has read of the transitions is what they are.                *)
LEMMA ReadStep ==
  ASSUME Stages!TypeOK, NEW r \in Runs, Moves(r), transitions = saved,
         mode[r] = "upsert" => snap[r] = transitions
  PROVE  /\ mode'[r] = "upsert" => snap'[r] = transitions'
         /\ transitions' = saved'
<1>1. CASE Stages!SelectTransitions(r)
  BY <1>1 DEF Stages!SelectTransitions, Stages!Mode, Stages!TypeOK, Stages!shared
<1>2. CASE Stages!Upsert(r)
  BY <1>2 DEF Stages!Upsert, Stages!Appended, Stages!Mode, Stages!TypeOK
<1>3. CASE Stages!Begin(r) \/ Stages!Prepare(r) \/ Stages!Implement(r)
           \/ Stages!Validate(r) \/ Stages!Review(r) \/ Stages!AfterReview(r)
           \/ Stages!Finalize(r)
  BY <1>3
  DEF Stages!Begin, Stages!Prepare, Stages!Implement, Stages!Validate, Stages!Review,
      Stages!AfterReview, Stages!Finalize, Stages!Save, Stages!Mode, Stages!TypeOK,
      Stages!shared
<1>4. CASE Stages!Respond(r) \/ Stages!PlanRepair(r) \/ Stages!WriteFile(r)
           \/ Stages!WriteFails(r) \/ Stages!CheckDiff(r) \/ Stages!ResetRepo(r)
           \/ Stages!Revalidate(r) \/ Stages!SecondReview(r) \/ Stages!Abort(r)
  BY <1>4
  DEF Stages!Respond, Stages!PlanRepair, Stages!WriteFile, Stages!WriteFails,
      Stages!CheckDiff, Stages!ResetRepo, Stages!Revalidate, Stages!SecondReview,
      Stages!Abort, Stages!Save, Stages!Mode, Stages!TypeOK, Stages!shared
<1> QED
  BY <1>1, <1>2, <1>3, <1>4 DEF Moves, Stages!Work

(* What the last diff of a run shows is what the review judges.            *)
LEMMA ShownStep ==
  ASSUME Stages!TypeOK, NEW r \in Runs, RunRight(r), Moves(r),
         Stages!Active(r) /\ Shown(r) => diff[r] = Stages!GitDiff
  PROVE  Stages!Active(r)' /\ Shown(r)' => diff'[r] = Stages!GitDiff'
<1> USE DEF Stages!TypeOK, Stages!Mode, Stages!Save, Stages!At, Stages!locals,
            Stages!shared, Stages!Active, Stages!GitDiff, Shown
<1>1. CASE Stages!Begin(r) \/ Stages!SelectTransitions(r) \/ Stages!Prepare(r)
           \/ Stages!Implement(r)
  BY <1>1
  DEF Stages!Begin, Stages!SelectTransitions, Stages!Prepare, Stages!Implement,
      RunRight
<1>2. CASE Stages!Upsert(r)
  BY <1>2 DEF Stages!Upsert
<1>3. CASE Stages!Validate(r) \/ Stages!Revalidate(r)
  BY <1>3 DEF Stages!Validate, Stages!Revalidate
<1>4. CASE Stages!Review(r) \/ Stages!AfterReview(r) 
  BY <1>4 DEF Stages!Review, Stages!AfterReview
<1>5. CASE Stages!Finalize(r)
  BY <1>5 DEF Stages!Finalize, Stages!FinalStage
<1>6. CASE Stages!Respond(r) \/ Stages!Abort(r)
  BY <1>6 DEF Stages!Respond, Stages!Abort
<1>7. CASE Stages!PlanRepair(r)
  BY <1>7 DEF Stages!PlanRepair, RunRight
<1>8. CASE Stages!WriteFile(r)
  BY <1>8 DEF Stages!WriteFile, RunRight
<1>9. CASE Stages!WriteFails(r)
  BY <1>9 DEF Stages!WriteFails, RunRight
<1>10. CASE Stages!CheckDiff(r)
  BY <1>10 DEF Stages!CheckDiff, RunRight
<1>11. CASE Stages!ResetRepo(r)
  BY <1>11 DEF Stages!ResetRepo
<1>12. CASE Stages!SecondReview(r)
  BY <1>12 DEF Stages!SecondReview
<1> QED
  BY <1>1, <1>2, <1>3, <1>4, <1>5, <1>6, <1>7, <1>8, <1>9, <1>10, <1>11, <1>12
  DEF Moves, Stages!Work

(* A step of a run that moves alone.                                       *)
LEMMA OneByOneStep ==
  ASSUME Stages!TypeOK, ~overlap => OneByOne, ~overlap', NEW r \in Runs,
         \A q \in Runs : RunRight(q), Moves(r)
  PROVE  OneByOne'
<1>1. OneByOne /\ \A q \in Runs \ {r} : ~Stages!Active(q)
  BY Alone
<1>2. \A q \in Runs \ {r} : ~Stages!Active(q)'
  BY <1>1, OthersStay DEF Stages!Active
<1>3. (mode'[r] = "upsert" => snap'[r] = transitions') /\ transitions' = saved'
  BY <1>1, ReadStep DEF OneByOne
<1>4. Stages!Active(r)' /\ Shown(r)' => diff'[r] = Stages!GitDiff'
  BY <1>1, ShownStep DEF OneByOne
<1>5. mode'[r] = "respond" => stateRow'.run = r
  <2>1. mode'[r] = "respond" => Stages!Upsert(r)
    BY UnderWay, EndedStays
  <2>2. Stages!Upsert(r) => stateRow'.run = r
    BY DEF Stages!Upsert
  <2> QED
    BY <2>1, <2>2
<1>6. ASSUME NEW q \in Runs, q # r
      PROVE  mode'[q] \notin {"upsert", "respond"} /\ ~Stages!Active(q)'
  BY <1>2, <1>6 DEF Stages!Active
<1> QED
  BY <1>2, <1>3, <1>4, <1>5, <1>6 DEF OneByOne

(* A step leaves what was saved as completed as it is.                     *)
LEMMA StandsStep ==
  ASSUME Stages!TypeOK, ~overlap => OneByOne /\ Stands, ~overlap', NEW r \in Runs,
         RowRight, \A q \in Runs : RunRight(q), Moves(r)
  PROVE  Stands'
<1>1. OneByOne /\ Stands
  BY Alone
<1>2. CASE Stages!Upsert(r)
  <2> SUFFICES ASSUME stateRow'.stage = "completed" PROVE diff'[r] = Stages!GitDiff'
    BY <1>2 DEF Stands, Stages!Upsert
  <2>1. stage[r] = "completed" /\ Stages!Active(r)
    BY <1>2 DEF Stages!Upsert, Stages!Active
  <2>2. diff[r] = Stages!GitDiff
    BY <1>1, <2>1 DEF OneByOne, Shown, RunRight
  <2>3. UNCHANGED <<diff, files, shows>>
    BY <1>2 DEF Stages!Upsert, Stages!locals
  <2> QED
    BY <2>2, <2>3 DEF Stages!GitDiff
<1>3. CASE stateRow' = stateRow
  <2> SUFFICES ASSUME stateRow.stage = "completed",
                      \A q \in Runs \ {stateRow.run} : mode'[q] \in {"new", "answered"}
               PROVE  diff'[stateRow.run] = Stages!GitDiff'
    BY <1>3 DEF Stands
  <2>1. stateRow.run \in Runs /\ mode[stateRow.run] \in {"respond", "answered", "aborted"}
    BY DEF RowRight, Stages!Final
  <2>2. CASE stateRow.run = r
    <3>1. \A q \in Runs \ {r} : mode'[q] = mode[q]
      BY OthersStay
    <3>2. UNCHANGED <<diff, files, shows>>
      BY <2>1, <2>2, EndedStays, WorkerStays
    <3>3. diff[r] = Stages!GitDiff
      BY <1>1, <2>2, <3>1 DEF Stands
    <3> QED
      BY <2>2, <3>2, <3>3 DEF Stages!GitDiff
  <2>3. CASE stateRow.run # r
    <3>1. mode'[r] \in {"new", "answered"}
      BY <2>3
    <3>2. mode[r] = "respond"
      BY <3>1, UnderWay
    <3> QED
      BY <1>1, <2>3, <3>2 DEF OneByOne
  <2> QED
    BY <2>1, <2>2, <2>3
<1> QED
  BY <1>2, <1>3, RowWritten

(* A step of a run keeps the invariant.                                    *)
LEMMA StagesStep == ASSUME StagesInv, [Stages!Next]_Stages!vars PROVE StagesInv'
<1>1. ASSUME NEW r \in Runs, Moves(r) PROVE StagesInv'
  <2>1. Stages!TypeOK' /\ Stages!RepairInBounds'
    BY <1>1, StagesTypeStep, BoundsStep DEF StagesInv
  <2>2. Stages!FailedRepairReset'
    BY <1>1, ResetStep DEF StagesInv
  <2>3. ASSUME NEW q \in Runs PROVE RunRight(q)'
    BY <1>1, RunStep, OthersRight DEF StagesInv
  <2>4. RowRight'
    BY <1>1, RowStep DEF StagesInv
  <2>5. ~overlap' => OneByOne' /\ Stands'
    BY <1>1, OneByOneStep, StandsStep DEF StagesInv
  <2> QED
    BY <2>1, <2>2, <2>3, <2>4, <2>5 DEF StagesInv
<1>2. CASE UNCHANGED Stages!vars
  BY <1>2
  DEF StagesInv, Stages!vars, Stages!TypeOK, Stages!RepairInBounds,
      Stages!FailedRepairReset, RunRight, RowRight, OneByOne, Stands, Shown,
      Stages!GitDiff, Stages!Active, Stages!Allowed, Stages!Changed, Stages!Trees
<1> QED
  BY <1>1, <1>2 DEF Stages!Next, Moves

(* What the invariant says of the runs.                                    *)
LEMMA StagesFollow ==
  ASSUME StagesInv
  PROVE  /\ Stages!TypeOK /\ Stages!RepairInBounds /\ Stages!FailedRepairReset
         /\ Stages!ApprovedDiffStands /\ Stages!CheckpointsKept /\ Stages!RowIsTrue
<1>1. Stages!ApprovedDiffStands
  <2> SUFFICES ASSUME stateRow.stage = "completed", ~overlap,
                      \A q \in Runs :
                        mode[q] \in {"new", "respond", "answered", "aborted"},
                      \A q \in Runs \ {stateRow.run} : mode[q] # "aborted"
               PROVE  /\ diff[stateRow.run] = Stages!GitDiff
                      /\ verdict[stateRow.run] = "approve"
                      /\ repair[stateRow.run] # "repair_failed"
    BY DEF Stages!ApprovedDiffStands
  <2>1. stateRow.run \in Runs /\ stage[stateRow.run] = "completed"
    BY DEF StagesInv, RowRight, Stages!Final
  <2>2. \A q \in Runs \ {stateRow.run} : mode[q] \in {"new", "answered"}
    BY DEF StagesInv, OneByOne
  <2> QED
    BY <2>1, <2>2 DEF StagesInv, Stands, RunRight
<1>2. Stages!CheckpointsKept
  BY DEF StagesInv, Stages!CheckpointsKept, OneByOne
<1>3. Stages!RowIsTrue
  BY DEF StagesInv, Stages!RowIsTrue, RowRight, RunRight, Stages!Active,
         Stages!Stages, Stages!Final
<1> QED
  BY <1>1, <1>2, <1>3 DEF StagesInv

(* What the invariant says of the packages.                                *)
LEMMA PackageFollows ==
  PackInv => /\ TypeOK /\ CompletedIsWhole /\ NoSecondWrite /\ DuplicatesApproved
             /\ EventsTrue /\ ReportRight
BY CompletedFollows, OnceFollows, ApprovedFollows, EventsFollow, ReportFollows DEF PackInv

(* The parts together.                                                     *)

(* A step of the conductor is a step of one part and leaves the others.    *)
LEMMA StepsApart ==
  ASSUME [PartsNext]_partVars PROVE [Next]_vars /\ [Stages!Next]_Stages!vars
<1>1. CASE PartsNext
  <2>1. [Next]_vars
    BY <1>1 DEF PartsNext
  <2>2. [Stages!Next]_Stages!vars
    BY <1>1 DEF PartsNext, stageVars, Stages!vars
  <2> QED
    BY <2>1, <2>2
<1>2. CASE UNCHANGED partVars
  BY <1>2 DEF partVars, vars, stageVars, Stages!vars
<1> QED
  BY <1>1, <1>2

(* Both invariants hold at the start, and each step keeps them.            *)
LEMMA PartsBegin == PartsInit => PackInv /\ StagesInv
  BY StagesInit, PackInit DEF PartsInit

LEMMA PartsGoOn ==
  PackInv /\ StagesInv /\ [PartsNext]_partVars => PackInv' /\ StagesInv'
  BY StepsApart, PackStep, StagesStep

(* The invariants of the packages and of the runs hold in every reachable  *)
(* state of the conductor.                                                 *)
THEOREM PartsKeepTheirInvariants == PartsSpec => [](PackInv /\ StagesInv)
  BY PartsGoOn, PartsBegin, PTL DEF PartsSpec

(* What they say of the properties.                                        *)
LEMMA PartsFollow ==
  PackInv /\ StagesInv =>
    PackageWhole /\ FailedRepairReset /\ CheckpointsKept /\ RowIsTrue
<1> SUFFICES ASSUME PackInv, StagesInv
             PROVE  PackageWhole /\ FailedRepairReset /\ CheckpointsKept /\ RowIsTrue
  OBVIOUS
<1>1. FailedRepairReset /\ CheckpointsKept /\ RowIsTrue
  BY StagesFollow DEF FailedRepairReset, CheckpointsKept, RowIsTrue
<1>2. PackageWhole
  BY PackageFollows DEF PackageWhole
<1> QED
  BY <1>1, <1>2

(* A completed package has all of its memory, a key writes its memory      *)
(* once unless two requests of it overlap, and a duplicate by a retry was  *)
(* approved for it; the telemetry and the report on the job say the same   *)
(* (main.py:349-600, invariants.py:34).                                    *)
THEOREM PackagesStayWhole == PartsSpec => []PackageWhole
  BY PartsFollow, PartsKeepTheirInvariants, PTL

(* A repair writes the candidate's targets and what was changed before it, *)
(* and no other file, and one that failed, for whatever reason, wrote      *)
(* nothing after the worker was last asked to reset the task, whatever the *)
(* worker makes of that (execution.py:200-252).                            *)
THEOREM FailedRepairsAskForReset == PartsSpec => []FailedRepairReset
  BY PartsFollow, PartsKeepTheirInvariants, PTL

(* Runs that follow one another keep each other's checkpoints              *)
(* (execution.py:318-330).                                                 *)
THEOREM CheckpointsStay == PartsSpec => []CheckpointsKept
  BY PartsFollow, PartsKeepTheirInvariants, PTL

(* The row of the job and the response say what became of its run: a       *)
(* completed candidate is the one that the approving review was shown      *)
(* (execution.py:118-140, 318-330).                                        *)
THEOREM RowStaysTrue == PartsSpec => []RowIsTrue
  BY PartsFollow, PartsKeepTheirInvariants, PTL

====
