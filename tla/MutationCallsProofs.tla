-------------------------- MODULE MutationCallsProofs --------------------------
(***************************************************************************)
(* Proofs about the parts that MCMutationCalls puts side by side, for all  *)
(* values of the constants: any number of servers, transactions, paths,    *)
(* directories and background processes, every capacity of the journal,    *)
(* both systems.                                                           *)
(*                                                                         *)
(* MutationCalls: none of the properties is inductive alone.  What carries *)
(* them is that the holders of the lease file are exactly the processes at *)
(* work (Held), that a child at work under a server's lease is one of that *)
(* server's own calls (OwnCalls), and that a transaction's place in its    *)
(* child's code decides whether its record can exist yet (Journaled).      *)
(*                                                                         *)
(* LeaseFile: a description is in use as long as a process has a copy      *)
(* (Kept), a server's and a child's own copy is of the lock file of the    *)
(* directory they were given (Served, Inherits), and no two locked         *)
(* descriptions are of one file (OneLock).  Nothing in it speaks of where  *)
(* the paths lead: they may move at any moment.                            *)
(*                                                                         *)
(* BashCall: a call that does not know its shell has failed, and one that  *)
(* does has it in a job on Windows, until it has ended what it can.        *)
(***************************************************************************)
EXTENDS MCMutationCalls, FiniteSetTheorems, TLAPS

-------------------------------------------------------------------------------
(* The mutation calls.                                                     *)

(* The inductive invariant.                                                *)

Held ==
  /\ \A t \in Tx : Alive(t) <=> t \in holders
  /\ \A s \in Servers : phase[s] # "idle" <=> s \in holders
  /\ \A s, r \in Servers : s \in holders /\ r \in holders => s = r

OwnCalls ==
  /\ \A s \in Servers, t \in Tx : s \in holders /\ t \in holders => t \in mine[s]
  /\ \A s \in Servers : phase[s] \notin Delegating => mine[s] = {} /\ told[s] = {}
  /\ \A s \in Servers : phase[s] \in {"wait", "clean", "settle"} => call[s] \in mine[s]
  /\ \A s \in Servers : \A t \in mine[s] : child[t] # "none"

Journaled ==
  /\ announced = journal \cup acked
  /\ \A t \in Tx : /\ child[t] \in {"none", "born"} => t \notin announced
                   /\ child[t] \in Working \ {"born"} => t \in journal
                   /\ ready[t] => t \in announced
                   /\ t \in mutated => ready[t]
                   /\ child[t] \in {"ready", "committing", "committed"} => ready[t]
                   /\ t \in acked => child[t] = "dead"
  /\ \A s \in Servers : told[s] \subseteq journal /\ mine[s] \cap acked = {}

Concluded ==
  /\ file \in Tx => file \in mutated
  /\ \A t \in Tx : /\ outcome[t] = "nothing" => child[t] = "dead" /\ ~ready[t]
                   /\ outcome[t] = "committed" => t \in mutated

CallsInv == TypeOK /\ Held /\ OwnCalls /\ Journaled /\ Concluded /\ FreshStart

-------------------------------------------------------------------------------
LEMMA CallsInit == Init => CallsInv
  BY IdAssumption
  DEF Init, CallsInv, TypeOK, Held, OwnCalls, Journaled, Concluded, FreshStart,
      Alive, Working, Phases, Delegating, ChildSteps

(* Every step keeps the invariant: the server's steps, the child's, and    *)
(* the foreign write.                                                      *)
LEMMA CallsStep == ASSUME CallsInv, [Next]_vars PROVE CallsInv'
<1>1. ASSUME NEW s \in Servers, BeginDelegation(s) PROVE CallsInv'
  <2>1. TypeOK'
    BY <1>1
    DEF BeginDelegation, CallsInv, Acquire, childVars, journalVars, fileVars, TypeOK,
        Phases, Delegating
  <2>2. Journaled' /\ Concluded'
    BY <1>1
    DEF BeginDelegation, CallsInv, Acquire, childVars, journalVars, fileVars,
        Journaled, Concluded, Working
  <2>3. Held'
    BY <1>1, IdAssumption
    DEF BeginDelegation, CallsInv, Acquire, childVars, journalVars, fileVars, Held,
        TypeOK, Alive, Working
  <2>4. OwnCalls'
    BY <1>1, IdAssumption
    DEF BeginDelegation, CallsInv, Acquire, childVars, OwnCalls, Delegating
  <2>5. FreshStart'
    BY <1>1
    DEF BeginDelegation, CallsInv, Acquire, journalVars, FreshStart, Delegating
  <2> QED
    BY <2>1, <2>2, <2>3, <2>4, <2>5 DEF CallsInv
<1>2. ASSUME NEW s \in Servers, CheckJournal(s) PROVE CallsInv'
  <2>1. TypeOK'
    BY <1>2
    DEF CheckJournal, CallsInv, Released, childVars, fileVars, TypeOK, Phases,
        Delegating
  <2>2. Journaled' /\ Concluded'
    BY <1>2
    DEF CheckJournal, CallsInv, Released, childVars, fileVars, Journaled, Concluded,
        Working
  <2>3. Held'
    BY <1>2, IdAssumption
    DEF CheckJournal, CallsInv, Released, childVars, fileVars, Held, TypeOK, Alive,
        Working
  <2>4. OwnCalls'
    BY <1>2
    DEF CheckJournal, CallsInv, Released, childVars, fileVars, OwnCalls, TypeOK,
        Delegating
  <2>5. FreshStart'
    BY <1>2
    DEF CheckJournal, CallsInv, Released, childVars, fileVars, FreshStart, TypeOK,
        Delegating
  <2> QED
    BY <2>1, <2>2, <2>3, <2>4, <2>5 DEF CallsInv
<1>3. ASSUME NEW s \in Servers, EndDelegation(s) PROVE CallsInv'
  <2>1. TypeOK'
    BY <1>3
    DEF EndDelegation, CallsInv, Released, childVars, fileVars, TypeOK, Phases,
        Delegating
  <2>2. Concluded'
    BY <1>3 DEF EndDelegation, CallsInv, Released, childVars, fileVars, Concluded
  <2>3. Held'
    BY <1>3, IdAssumption
    DEF EndDelegation, CallsInv, Released, childVars, fileVars, Held, TypeOK, Alive,
        Working
  <2>4. OwnCalls'
    BY <1>3
    DEF EndDelegation, CallsInv, Released, childVars, fileVars, OwnCalls, TypeOK,
        Delegating
  <2>5. Journaled'
    BY <1>3
    DEF EndDelegation, CallsInv, Released, childVars, fileVars, Journaled, Working
  <2>6. FreshStart'
    BY <1>3
    DEF EndDelegation, CallsInv, Released, childVars, fileVars, FreshStart, TypeOK,
        Delegating
  <2> QED
    BY <2>1, <2>2, <2>3, <2>4, <2>5, <2>6 DEF CallsInv
<1>4. ASSUME NEW s \in Servers, Crash(s) PROVE CallsInv'
  <2>1. TypeOK'
    BY <1>4
    DEF Crash, CallsInv, Released, childVars, journalVars, fileVars, TypeOK, Phases,
        Delegating
  <2>2. Concluded'
    BY <1>4 DEF Crash, CallsInv, Released, childVars, fileVars, Concluded
  <2>3. Held'
    BY <1>4, IdAssumption
    DEF Crash, CallsInv, Released, childVars, journalVars, fileVars, Held, TypeOK,
        Alive, Working
  <2>4. OwnCalls'
    BY <1>4
    DEF Crash, CallsInv, Released, childVars, journalVars, fileVars, OwnCalls,
        TypeOK, Delegating
  <2>5. Journaled'
    BY <1>4
    DEF Crash, CallsInv, Released, childVars, journalVars, fileVars, Journaled,
        Working
  <2>6. FreshStart'
    BY <1>4
    DEF Crash, CallsInv, Released, childVars, journalVars, fileVars, FreshStart,
        TypeOK, Delegating
  <2> QED
    BY <2>1, <2>2, <2>3, <2>4, <2>5, <2>6 DEF CallsInv
<1>5. ASSUME NEW s \in Servers, ReceiveResult(s) PROVE CallsInv'
  <2>1. TypeOK'
    BY <1>5
    DEF ReceiveResult, CallsInv, childVars, journalVars, fileVars, TypeOK, Phases,
        Delegating
  <2>2. Journaled' /\ Concluded'
    BY <1>5
    DEF ReceiveResult, CallsInv, childVars, journalVars, fileVars, Journaled,
        Concluded, Working
  <2>3. Held'
    BY <1>5 DEF ReceiveResult, CallsInv, childVars, Held, Alive, Working
  <2>4. OwnCalls'
    BY <1>5 DEF ReceiveResult, CallsInv, childVars, OwnCalls, Delegating
  <2>5. FreshStart'
    BY <1>5 DEF ReceiveResult, CallsInv, journalVars, FreshStart, Delegating
  <2> QED
    BY <2>1, <2>2, <2>3, <2>4, <2>5 DEF CallsInv
<1>6. ASSUME NEW s \in Servers, StopWaiting(s) PROVE CallsInv'
  <2>1. TypeOK'
    BY <1>6
    DEF StopWaiting, CallsInv, childVars, journalVars, fileVars, TypeOK, Phases,
        Delegating
  <2>2. Journaled' /\ Concluded'
    BY <1>6
    DEF StopWaiting, CallsInv, childVars, journalVars, fileVars, Journaled,
        Concluded, Working
  <2>3. Held'
    BY <1>6 DEF StopWaiting, CallsInv, childVars, Held, Alive, Working
  <2>4. OwnCalls'
    BY <1>6 DEF StopWaiting, CallsInv, childVars, OwnCalls, Delegating
  <2>5. FreshStart'
    BY <1>6 DEF StopWaiting, CallsInv, journalVars, FreshStart, Delegating
  <2> QED
    BY <2>1, <2>2, <2>3, <2>4, <2>5 DEF CallsInv
<1>7. ASSUME NEW s \in Servers, StopTerm(s) PROVE CallsInv'
  <2>1. TypeOK'
    BY <1>7
    DEF StopTerm, CallsInv, serverVars, journalVars, fileVars, TypeOK, OwnCalls,
        Delegating, Alive, Working
  <2>2. /\ Held' /\ OwnCalls' /\ Journaled' /\ Concluded'
        /\ FreshStart'
    BY <1>7
    DEF StopTerm, CallsInv, serverVars, journalVars, fileVars, Held, OwnCalls,
        Journaled, Concluded, FreshStart, Alive, Working, Delegating
  <2> QED
    BY <2>1, <2>2 DEF CallsInv
<1>8. ASSUME NEW s \in Servers, CleanUp(s) PROVE CallsInv'
  <2>1. TypeOK'
    BY <1>8
    DEF CleanUp, CallsInv, childVars, journalVars, fileVars, TypeOK, Phases,
        Delegating
  <2>2. Journaled' /\ Concluded'
    BY <1>8
    DEF CleanUp, CallsInv, childVars, journalVars, fileVars, Journaled, Concluded,
        Working
  <2>3. Held'
    BY <1>8 DEF CleanUp, CallsInv, childVars, Held, Alive, Working
  <2>4. OwnCalls'
    BY <1>8 DEF CleanUp, CallsInv, childVars, OwnCalls, Delegating
  <2>5. FreshStart'
    BY <1>8 DEF CleanUp, CallsInv, journalVars, FreshStart, Delegating
  <2> QED
    BY <2>1, <2>2, <2>3, <2>4, <2>5 DEF CallsInv
<1>9. ASSUME NEW s \in Servers, GiveUp(s) PROVE CallsInv'
  <2>1. TypeOK'
    BY <1>9
    DEF GiveUp, CallsInv, childVars, journalVars, fileVars, TypeOK, Phases,
        Delegating, Alive, Working
  <2>2. Journaled' /\ Concluded'
    BY <1>9
    DEF GiveUp, CallsInv, childVars, journalVars, fileVars, Journaled, Concluded,
        Working, Alive
  <2>3. Held'
    BY <1>9 DEF GiveUp, CallsInv, childVars, Held, Alive, Working
  <2>4. OwnCalls'
    BY <1>9 DEF GiveUp, CallsInv, childVars, OwnCalls, Delegating, Alive, Working
  <2>5. FreshStart'
    BY <1>9 DEF GiveUp, CallsInv, journalVars, FreshStart, Delegating, Alive, Working
  <2> QED
    BY <2>1, <2>2, <2>3, <2>4, <2>5 DEF CallsInv
<1>10. ASSUME NEW s \in Servers, NEW readable \in BOOLEAN, Settle(s, readable)
      PROVE  CallsInv'
  <2>1. TypeOK'
    <3>1. call[s] \in Tx
      BY <1>10 DEF Settle, CallsInv, TypeOK, OwnCalls
    <3>2. /\ phase' \in [Servers -> Phases]
          /\ call' \in [Servers -> Tx \cup {NoTx}]
          /\ failed' \in [Servers -> BOOLEAN]
      BY <1>10 DEF Settle, CallsInv, TypeOK, Delegating, Phases
    <3>3. told' \in [Servers -> SUBSET Tx]
      BY <1>10, <3>1 DEF Settle, CallsInv, TypeOK
    <3>4. outcome' \in [Tx -> {"none", "committed", "uncertain", "nothing",
                                "lost"}]
      BY <1>10, <3>1 DEF Settle, CallsInv, TypeOK, Classified
    <3> QED
      BY <1>10, <3>2, <3>3, <3>4
      DEF Settle, CallsInv, TypeOK, childVars, journalVars, fileVars
  <2>2. Held'
    BY <1>10
    DEF Settle, CallsInv, KnownReady, Classified, childVars, Held, Alive, Working
  <2>3. OwnCalls'
    BY <1>10
    DEF Settle, CallsInv, KnownReady, Classified, childVars, journalVars, fileVars,
        OwnCalls, TypeOK, Delegating
  <2>4. Journaled'
    <3>1. ready[call[s]] => call[s] \in journal
      BY <1>10 DEF Settle, CallsInv, TypeOK, OwnCalls, Journaled, Held, Delegating
    <3>2. \A r \in Servers : told'[r] \subseteq journal
      BY <1>10, <3>1 DEF Settle, KnownReady, CallsInv, TypeOK, Journaled, journalVars
    <3> QED
      BY <1>10, <3>2
      DEF Settle, CallsInv, Journaled, Working, childVars, journalVars, fileVars
  <2>5. Concluded'
    BY <1>10
    DEF Settle, CallsInv, KnownReady, Classified, childVars, journalVars, fileVars,
        Concluded, TypeOK
  <2>6. FreshStart'
    BY <1>10
    DEF Settle, CallsInv, KnownReady, Classified, journalVars, FreshStart, Delegating
  <2> QED
    BY <2>1, <2>2, <2>3, <2>4, <2>5, <2>6 DEF CallsInv
<1>11. ASSUME NEW s \in Servers, QueryRecovery(s) PROVE CallsInv'
  <2>1. TypeOK'
    BY <1>11 DEF QueryRecovery, CallsInv, serverVars, childVars, fileVars, TypeOK
  <2>2. /\ Held' /\ OwnCalls' /\ Journaled' /\ Concluded'
        /\ FreshStart'
    BY <1>11
    DEF QueryRecovery, CallsInv, serverVars, childVars, fileVars, Held, OwnCalls,
        Journaled, Concluded, FreshStart, Alive, Working, Delegating
  <2> QED
    BY <2>1, <2>2 DEF CallsInv
<1>12. ASSUME NEW s \in Servers, BeginAcknowledge(s) PROVE CallsInv'
  <2>1. TypeOK'
    BY <1>12
    DEF BeginAcknowledge, CallsInv, Acquire, childVars, journalVars, fileVars,
        TypeOK, Phases, Delegating
  <2>2. Journaled' /\ Concluded'
    BY <1>12
    DEF BeginAcknowledge, CallsInv, Acquire, childVars, journalVars, fileVars,
        Journaled, Concluded, Working
  <2>3. Held'
    BY <1>12, IdAssumption
    DEF BeginAcknowledge, CallsInv, Acquire, childVars, journalVars, fileVars, Held,
        TypeOK, Alive, Working
  <2>4. OwnCalls'
    BY <1>12, IdAssumption
    DEF BeginAcknowledge, CallsInv, Acquire, childVars, OwnCalls, Delegating
  <2>5. FreshStart'
    BY <1>12
    DEF BeginAcknowledge, CallsInv, Acquire, journalVars, FreshStart, Delegating
  <2> QED
    BY <2>1, <2>2, <2>3, <2>4, <2>5 DEF CallsInv
<1>13. ASSUME NEW s \in Servers, EndAcknowledge(s) PROVE CallsInv'
  <2>1. TypeOK'
    BY <1>13
    DEF EndAcknowledge, CallsInv, Released, childVars, fileVars, TypeOK, Phases,
        Delegating
  <2>2. Journaled' /\ Concluded'
    BY <1>13
    DEF EndAcknowledge, CallsInv, Released, childVars, fileVars, Journaled,
        Concluded, Working
  <2>3. Held'
    BY <1>13, IdAssumption
    DEF EndAcknowledge, CallsInv, Released, childVars, fileVars, Held, TypeOK, Alive,
        Working
  <2>4. OwnCalls'
    BY <1>13 DEF EndAcknowledge, CallsInv, Released, childVars, OwnCalls, Delegating
  <2>5. FreshStart'
    BY <1>13 DEF EndAcknowledge, CallsInv, Released, FreshStart, Delegating
  <2> QED
    BY <2>1, <2>2, <2>3, <2>4, <2>5 DEF CallsInv
<1>14. ASSUME NEW s \in Servers, NEW t \in Tx, LaunchTool(s, t) PROVE CallsInv'
  <2>1. TypeOK'
    BY <1>14
    DEF LaunchTool, CallsInv, journalVars, fileVars, TypeOK, Phases, Delegating,
        ChildSteps, Working
  <2>2. Held'
    BY <1>14, IdAssumption
    DEF LaunchTool, CallsInv, journalVars, fileVars, Held, TypeOK, Alive, Working
  <2>3. OwnCalls'
    BY <1>14, IdAssumption
    DEF LaunchTool, CallsInv, journalVars, fileVars, OwnCalls, TypeOK, Held,
        Delegating, Alive, Working
  <2>4. Journaled'
    BY <1>14 DEF LaunchTool, CallsInv, journalVars, fileVars, Journaled, Working
  <2>5. Concluded'
    BY <1>14 DEF LaunchTool, CallsInv, fileVars, Concluded
  <2>6. FreshStart'
    BY <1>14 DEF LaunchTool, CallsInv, journalVars, FreshStart, Delegating
  <2> QED
    BY <2>1, <2>2, <2>3, <2>4, <2>5, <2>6 DEF CallsInv
<1>15. ASSUME NEW s \in Servers, NEW t \in Tx, AcknowledgeOne(s, t) PROVE CallsInv'
  <2>1. TypeOK'
    BY <1>15 DEF AcknowledgeOne, CallsInv, childVars, fileVars, TypeOK
  <2>2. Held' /\ OwnCalls' /\ Concluded'
    BY <1>15
    DEF AcknowledgeOne, CallsInv, childVars, fileVars, Held, OwnCalls, Concluded,
        Alive, Working, Delegating
  <2>3. Journaled'
    <3>1. \A u \in Tx : ~Alive(u)
      BY <1>15 DEF AcknowledgeOne, CallsInv, TypeOK, Held, OwnCalls, Delegating
    <3>2. \A u \in journal : child[u] = "dead"
      BY <3>1 DEF Alive, Working, ChildSteps, CallsInv, TypeOK, Journaled
    <3>3. \A r \in Servers : told[r] = {} /\ mine[r] = {}
      BY <1>15 DEF AcknowledgeOne, CallsInv, Held, OwnCalls, Delegating
    <3> QED
      BY <1>15, <3>1, <3>2, <3>3
      DEF AcknowledgeOne, CallsInv, TypeOK, Journaled, Alive, Working, childVars,
          fileVars
  <2>4. FreshStart'
    BY <1>15 DEF AcknowledgeOne, CallsInv, FreshStart, Delegating
  <2> QED
    BY <2>1, <2>2, <2>3, <2>4 DEF CallsInv
<1>16. ASSUME NEW t \in Tx, RecordIntent(t) PROVE CallsInv'
  <2>1. TypeOK'
    BY <1>16
    DEF RecordIntent, CallsInv, Runs, serverVars, fileVars, TypeOK, ChildSteps,
        Working
  <2>2. Held'
    BY <1>16 DEF RecordIntent, CallsInv, Runs, serverVars, Held, Alive, Working
  <2>3. OwnCalls'
    BY <1>16 DEF RecordIntent, CallsInv, Runs, serverVars, OwnCalls, Delegating
  <2>4. Journaled'
    BY <1>16
    DEF RecordIntent, CallsInv, Runs, serverVars, fileVars, Journaled, TypeOK,
        Working
  <2>5. Concluded'
    BY <1>16 DEF RecordIntent, CallsInv, Runs, fileVars, Concluded
  <2>6. FreshStart'
    BY <1>16
    DEF RecordIntent, CallsInv, Runs, serverVars, FreshStart, Held, OwnCalls,
        Delegating, Alive, Working
  <2> QED
    BY <2>1, <2>2, <2>3, <2>4, <2>5, <2>6 DEF CallsInv
<1>17. ASSUME NEW t \in Tx, ReportReady(t) PROVE CallsInv'
  <2>1. TypeOK'
    BY <1>17
    DEF ReportReady, CallsInv, Runs, serverVars, journalVars, fileVars, TypeOK,
        ChildSteps, Working
  <2>2. FreshStart'
    BY <1>17
    DEF ReportReady, CallsInv, Runs, serverVars, journalVars, FreshStart, Delegating
  <2>3. Held'
    BY <1>17 DEF ReportReady, CallsInv, Runs, serverVars, Held, Alive, Working
  <2>4. OwnCalls'
    BY <1>17 DEF ReportReady, CallsInv, Runs, serverVars, OwnCalls, Delegating
  <2>5. Journaled'
    BY <1>17
    DEF ReportReady, CallsInv, Runs, serverVars, journalVars, fileVars, Journaled,
        TypeOK, Working
  <2>6. Concluded'
    BY <1>17 DEF ReportReady, CallsInv, Runs, fileVars, Concluded
  <2> QED
    BY <2>1, <2>2, <2>3, <2>4, <2>5, <2>6 DEF CallsInv
<1>18. ASSUME NEW t \in Tx, EnterCommit(t) PROVE CallsInv'
  <2>1. TypeOK'
    BY <1>18
    DEF EnterCommit, CallsInv, Runs, serverVars, journalVars, fileVars, TypeOK,
        ChildSteps, Working
  <2>2. FreshStart'
    BY <1>18
    DEF EnterCommit, CallsInv, Runs, serverVars, journalVars, FreshStart, Delegating
  <2>3. Held'
    BY <1>18 DEF EnterCommit, CallsInv, Runs, serverVars, Held, Alive, Working
  <2>4. OwnCalls'
    BY <1>18 DEF EnterCommit, CallsInv, Runs, serverVars, OwnCalls, Delegating
  <2>5. Journaled'
    BY <1>18
    DEF EnterCommit, CallsInv, Runs, serverVars, journalVars, fileVars, Journaled,
        Working
  <2>6. Concluded'
    BY <1>18 DEF EnterCommit, CallsInv, Runs, fileVars, Concluded
  <2> QED
    BY <2>1, <2>2, <2>3, <2>4, <2>5, <2>6 DEF CallsInv
<1>19. ASSUME NEW t \in Tx, CommitLands(t) PROVE CallsInv'
  <2>1. TypeOK'
    BY <1>19
    DEF CommitLands, CallsInv, Runs, serverVars, journalVars, TypeOK, ChildSteps,
        Working
  <2>2. FreshStart'
    BY <1>19
    DEF CommitLands, CallsInv, Runs, serverVars, journalVars, FreshStart, Delegating
  <2>3. Held'
    BY <1>19 DEF CommitLands, CallsInv, Runs, serverVars, Held, Alive, Working
  <2>4. OwnCalls'
    BY <1>19 DEF CommitLands, CallsInv, Runs, serverVars, OwnCalls, Delegating
  <2>5. Journaled'
    BY <1>19
    DEF CommitLands, CallsInv, Runs, serverVars, journalVars, Journaled, Working
  <2>6. Concluded'
    BY <1>19 DEF CommitLands, CallsInv, Runs, Concluded
  <2> QED
    BY <2>1, <2>2, <2>3, <2>4, <2>5, <2>6 DEF CallsInv
<1>20. ASSUME NEW t \in Tx, ToolReturns(t) PROVE CallsInv'
  <2>1. TypeOK'
    BY <1>20
    DEF ToolReturns, CallsInv, Runs, Reply, serverVars, journalVars, fileVars,
        TypeOK, ChildSteps, Working
  <2>2. FreshStart'
    BY <1>20
    DEF ToolReturns, CallsInv, Runs, Reply, serverVars, journalVars, FreshStart,
        Delegating, Working
  <2>3. Held'
    BY <1>20
    DEF ToolReturns, CallsInv, Runs, Reply, serverVars, journalVars, fileVars, Held,
        TypeOK, Alive, Working
  <2>4. OwnCalls'
    BY <1>20
    DEF ToolReturns, CallsInv, Runs, Reply, serverVars, journalVars, fileVars,
        OwnCalls, TypeOK, Delegating, Working
  <2>5. Journaled'
    BY <1>20
    DEF ToolReturns, CallsInv, Runs, Reply, serverVars, journalVars, fileVars,
        Journaled, TypeOK, Working
  <2>6. Concluded'
    BY <1>20
    DEF ToolReturns, CallsInv, Runs, Reply, serverVars, journalVars, fileVars,
        Concluded, TypeOK, Working
  <2> QED
    BY <2>1, <2>2, <2>3, <2>4, <2>5, <2>6 DEF CallsInv
<1>21. ASSUME NEW t \in Tx, ToolUnwinds(t) PROVE CallsInv'
  <2>1. TypeOK'
    BY <1>21
    DEF ToolUnwinds, CallsInv, Runs, Reply, serverVars, journalVars, fileVars,
        TypeOK, ChildSteps, Working
  <2>2. FreshStart'
    BY <1>21
    DEF ToolUnwinds, CallsInv, Runs, Reply, serverVars, journalVars, FreshStart,
        Delegating, Working
  <2>3. Held'
    BY <1>21 DEF ToolUnwinds, CallsInv, Runs, Reply, serverVars, Held, Alive, Working
  <2>4. OwnCalls'
    BY <1>21
    DEF ToolUnwinds, CallsInv, Runs, Reply, serverVars, OwnCalls, Delegating, Working
  <2>5. Journaled'
    BY <1>21
    DEF ToolUnwinds, CallsInv, Runs, Reply, serverVars, journalVars, fileVars,
        Journaled, Working
  <2>6. Concluded'
    BY <1>21 DEF ToolUnwinds, CallsInv, Runs, Reply, fileVars, Concluded, Working
  <2> QED
    BY <2>1, <2>2, <2>3, <2>4, <2>5, <2>6 DEF CallsInv
<1>22. ASSUME NEW t \in Tx, Exit(t) PROVE CallsInv'
  <2>1. TypeOK'
    BY <1>22
    DEF Exit, CallsInv, Released, Runs, serverVars, journalVars, fileVars, TypeOK,
        ChildSteps, Working
  <2>2. FreshStart'
    BY <1>22
    DEF Exit, CallsInv, Released, Runs, serverVars, journalVars, FreshStart,
        Delegating
  <2>3. Held'
    BY <1>22, IdAssumption
    DEF Exit, CallsInv, Released, Runs, serverVars, journalVars, fileVars, Held,
        TypeOK, Alive, Working
  <2>4. OwnCalls'
    BY <1>22 DEF Exit, CallsInv, Released, Runs, serverVars, OwnCalls, Delegating
  <2>5. Journaled'
    BY <1>22
    DEF Exit, CallsInv, Released, Runs, serverVars, journalVars, fileVars, Journaled,
        Working
  <2>6. Concluded'
    BY <1>22 DEF Exit, CallsInv, Released, Runs, fileVars, Concluded
  <2> QED
    BY <2>1, <2>2, <2>3, <2>4, <2>5, <2>6 DEF CallsInv
<1>23. ASSUME NEW t \in Tx, Watchdog(t) PROVE CallsInv'
  <2>1. TypeOK'
    BY <1>23
    DEF Watchdog, CallsInv, serverVars, journalVars, fileVars, TypeOK, Alive, Working
  <2>2. /\ Held' /\ OwnCalls' /\ Journaled' /\ Concluded'
        /\ FreshStart'
    BY <1>23
    DEF Watchdog, CallsInv, serverVars, journalVars, fileVars, Held, OwnCalls,
        Journaled, Concluded, FreshStart, Alive, Working, Delegating
  <2> QED
    BY <2>1, <2>2 DEF CallsInv
<1>24. ASSUME NEW t \in Tx, Expire(t) PROVE CallsInv'
  <2>1. TypeOK'
    BY <1>24
    DEF Expire, CallsInv, serverVars, journalVars, fileVars, TypeOK, Alive, Working
  <2>2. /\ Held' /\ OwnCalls' /\ Journaled' /\ Concluded'
        /\ FreshStart'
    BY <1>24
    DEF Expire, CallsInv, serverVars, journalVars, fileVars, Held, OwnCalls,
        Journaled, Concluded, FreshStart, Alive, Working, Delegating
  <2> QED
    BY <2>1, <2>2 DEF CallsInv
<1>25. ASSUME NEW t \in Tx, Die(t) PROVE CallsInv'
  <2>1. TypeOK'
    BY <1>25
    DEF Die, CallsInv, Released, serverVars, journalVars, fileVars, TypeOK,
        ChildSteps, Working, Alive
  <2>2. FreshStart'
    BY <1>25
    DEF Die, CallsInv, Released, serverVars, journalVars, FreshStart, Delegating,
        Alive, Working
  <2>3. Held'
    BY <1>25, IdAssumption
    DEF Die, CallsInv, Released, serverVars, journalVars, fileVars, Held, TypeOK,
        Alive, Working
  <2>4. OwnCalls'
    BY <1>25
    DEF Die, CallsInv, Released, serverVars, OwnCalls, Delegating, Alive, Working
  <2>5. Journaled'
    BY <1>25
    DEF Die, CallsInv, Released, serverVars, journalVars, fileVars, Journaled,
        Working, Alive
  <2>6. Concluded'
    BY <1>25 DEF Die, CallsInv, Released, fileVars, Concluded, Alive, Working
  <2> QED
    BY <2>1, <2>2, <2>3, <2>4, <2>5, <2>6 DEF CallsInv
<1>26. ASSUME ForeignWrite PROVE CallsInv'
  <2>1. TypeOK'
    BY <1>26 DEF ForeignWrite, CallsInv, serverVars, childVars, journalVars, TypeOK
  <2>2. Held' /\ OwnCalls' /\ Journaled' /\ FreshStart'
    BY <1>26
    DEF ForeignWrite, CallsInv, serverVars, childVars, journalVars, Held, OwnCalls,
        Journaled, FreshStart, Alive, Working, Delegating
  <2>3. Concluded'
    BY <1>26, IdAssumption DEF ForeignWrite, CallsInv, childVars, Concluded
  <2> QED
    BY <2>1, <2>2, <2>3 DEF CallsInv
<1>27. CASE UNCHANGED vars
  BY <1>27
  DEF vars, serverVars, childVars, journalVars, fileVars, CallsInv, TypeOK, Held,
      OwnCalls, Journaled, Concluded, FreshStart, Alive
<1> QED
  BY <1>1, <1>2, <1>3, <1>4, <1>5, <1>6, <1>7, <1>8, <1>9, <1>10, <1>11,
     <1>12, <1>13, <1>14, <1>15, <1>16, <1>17, <1>18, <1>19, <1>20, <1>21,
     <1>22, <1>23, <1>24, <1>25, <1>26, <1>27
  DEF Next, Server, Child, Calling

(* IInv holds in every reachable state.                                    *)
THEOREM Strengthening == Spec => []CallsInv
<1>1. Init => CallsInv
  BY CallsInit
<1>2. CallsInv /\ [Next]_vars => CallsInv'
  BY CallsStep
<1> QED
  BY <1>1, <1>2, PTL DEF Spec

(* Every state is a tuple of states of the servers, the children, the      *)
(* journal and the file, whatever is killed and whoever crashes.           *)
THEOREM TypeCorrect == Spec => []TypeOK
<1>1. CallsInv => TypeOK
  BY DEF CallsInv
<1> QED
  BY <1>1, Strengthening, PTL

(* Delegations never overlap, nor does one with a child an earlier one     *)
(* left behind: whoever is at work holds the lease file.                   *)
THEOREM DelegationsAreExclusive == Spec => []OneDelegation
<1>1. CallsInv => OneDelegation
  BY DEF CallsInv, OneDelegation, Held, OwnCalls
<1> QED
  BY <1>1, Strengthening, PTL

(* Whatever changed the file, or is in a server's records, is journaled or *)
(* acknowledged.                                                           *)
THEOREM ChangesAreJournaled == Spec => []WriteAhead
<1>1. ASSUME CallsInv PROVE WriteAhead
  <2>1. mutated \subseteq journal \cup acked
    BY <1>1 DEF CallsInv, TypeOK, Journaled
  <2>2. \A s \in Servers : told[s] \subseteq journal
    BY <1>1 DEF CallsInv, Journaled
  <2> QED
    BY <2>1, <2>2 DEF WriteAhead
<1> QED
  BY <1>1, Strengthening, PTL

(* A delegation has only its own changes to answer for.                    *)
THEOREM DelegationsStartReviewed == Spec => []FreshStart
<1>1. CallsInv => FreshStart
  BY DEF CallsInv
<1> QED
  BY <1>1, Strengthening, PTL

(* Journal records come before changes, and reviews before delegations     *)
(* (README.md:212-213 and 226 of gpt-as-subagent).                         *)
THEOREM JournalComesFirst == Spec => []JournalFirst
  BY ChangesAreJournaled, DelegationsStartReviewed, PTL DEF JournalFirst

(* A call reported to have changed nothing has not and will not; one       *)
(* reported as committed has.                                              *)
THEOREM OutcomesAreTrue == Spec => []Disclosed
<1>1. ASSUME CallsInv PROVE Disclosed
  BY <1>1 DEF CallsInv, TypeOK, Journaled, Concluded, Disclosed
<1> QED
  BY <1>1, Strengthening, PTL

(* Only RecordIntent adds a record, and it counts the journal first; a     *)
(* server's records are records of the journal.                            *)
THEOREM RecordsAlwaysFit == Spec => []RecordsFit
<1> DEFINE Fits == Cardinality(journal) <= MaxRecords
<1>1. Init => Fits
  BY FS_EmptySet, RecordsAssumption DEF Init
<1>2. ASSUME CallsInv, Fits, [Next]_vars PROVE Fits'
  <2>1. IsFiniteSet(journal)
    BY <1>2, FiniteAssumption, FS_Subset DEF CallsInv, TypeOK
  <2>2. Cardinality(journal) \in Nat
    BY <2>1, FS_CardinalityType
  <2>3. CASE \E t \in Tx : RecordIntent(t)
    <3>1. PICK t \in Tx : RecordIntent(t)
      BY <2>3
    <3>2. \/ Cardinality(journal \cup {t}) = Cardinality(journal)
          \/ Cardinality(journal \cup {t}) = Cardinality(journal) + 1
      BY <2>1, FS_AddElement
    <3>3. Cardinality(journal \cup {t}) \in Nat
      BY <2>1, FS_AddElement, FS_CardinalityType
    <3> QED
      BY <3>1, <3>2, <3>3, <2>2, RecordsAssumption DEF RecordIntent
  <2>4. CASE \E s \in Servers, t \in Tx : AcknowledgeOne(s, t)
    <3>1. PICK t \in Tx : journal' = journal \ {t}
      BY <2>4 DEF AcknowledgeOne
    <3>2. /\ Cardinality(journal \ {t}) <= Cardinality(journal)
          /\ Cardinality(journal \ {t}) \in Nat
      BY <2>1, FS_Subset, FS_CardinalityType
    <3> QED
      BY <1>2, <3>1, <3>2, <2>2, RecordsAssumption
  <2>5. CASE /\ ~ \E t \in Tx : RecordIntent(t)
             /\ ~ \E s \in Servers, t \in Tx : AcknowledgeOne(s, t)
    <3>1. UNCHANGED journal
      BY <1>2, <2>5
      DEF Next, Server, Calling, Child, BeginDelegation, CheckJournal, EndDelegation,
          Crash, ReceiveResult, StopWaiting, StopTerm, CleanUp, GiveUp, Settle,
          QueryRecovery, BeginAcknowledge, EndAcknowledge, LaunchTool, ReportReady,
          EnterCommit, CommitLands, ToolReturns, ToolUnwinds, Reply, Exit, Watchdog,
          Expire, Die, ForeignWrite, vars, journalVars
    <3> QED
      BY <1>2, <3>1
  <2> QED
    BY <2>3, <2>4, <2>5
<1>3. ASSUME CallsInv, Fits PROVE RecordsFit
  <2>1. IsFiniteSet(journal) /\ Cardinality(journal) \in Nat
    BY <1>3, FiniteAssumption, FS_Subset, FS_CardinalityType DEF CallsInv, TypeOK
  <2>2. ASSUME NEW s \in Servers PROVE Cardinality(told[s]) <= MaxRecords
    <3>1. told[s] \subseteq journal
      BY <1>3 DEF CallsInv, Journaled
    <3>2. /\ Cardinality(told[s]) <= Cardinality(journal)
          /\ Cardinality(told[s]) \in Nat
      BY <2>1, <3>1, FS_Subset, FS_CardinalityType
    <3> QED
      BY <1>3, <2>1, <3>2, RecordsAssumption
  <2> QED
    BY <1>3, <2>2 DEF RecordsFit
<1> QED
  BY <1>1, <1>2, <1>3, Strengthening, PTL DEF Spec

(* No step changes the file on behalf of a transaction that has been       *)
(* acknowledged: its child is dead.                                        *)
THEOREM AcknowledgedIsFinal == Spec => AckIsFinal
<1>1. ASSUME CallsInv, [Next]_vars
      PROVE  \A t \in acked : t \in mutated' => t \in mutated
  <2>1. CASE \E u \in Tx : CommitLands(u)
    BY <1>1, <2>1 DEF CommitLands, CallsInv, TypeOK, Journaled
  <2>2. CASE ~ \E u \in Tx : CommitLands(u)
    <3>1. UNCHANGED mutated
      BY <1>1, <2>2
      DEF Next, Server, Calling, Child, BeginDelegation, CheckJournal, EndDelegation,
          Crash, ReceiveResult, StopWaiting, StopTerm, CleanUp, GiveUp, Settle,
          QueryRecovery, BeginAcknowledge, AcknowledgeOne, EndAcknowledge,
          LaunchTool, RecordIntent, ReportReady, EnterCommit, ToolReturns,
          ToolUnwinds, Reply, Exit, Watchdog, Expire, Die, ForeignWrite, vars,
          fileVars
    <3> QED
      BY <3>1
  <2> QED
    BY <2>1, <2>2
<1> QED
  BY <1>1, Strengthening, PTL DEF Spec, AckIsFinal

-------------------------------------------------------------------------------
(* The refinement of ReviewedWorkspace.                                    *)

(* The workspace is at rest while a server checks the journal or           *)
(* acknowledges, and before it takes the lease.                            *)
LEMMA AtRest ==
  ASSUME CallsInv, NEW s \in Servers,
         \/ phase[s] \in {"check", "ack"}
         \/ phase[s] = "idle" /\ holders = {}
  PROVE  ~AtWork
<1>1. \A t \in Tx : ~Alive(t)
  BY DEF CallsInv, Held, OwnCalls, Delegating
<1>2. \A r \in Servers : phase[r] \notin Delegating
  BY DEF CallsInv, Held, Delegating
<1> QED
  BY <1>1, <1>2 DEF AtWork

LEMMA InitMaps == Init => Promise!Init
  BY DEF Init, Promise!Init, AtWork, Alive, Working, Delegating

LEMMA StepMaps == CallsInv /\ [Next]_vars => [Promise!Next]_(Promise!wvars)
<1> SUFFICES ASSUME CallsInv, [Next]_vars
             PROVE  Promise!Next \/ UNCHANGED Promise!wvars
  OBVIOUS
<1> DEFINE Kept == UNCHANGED <<announced, journal, mutated>>
           Ends == AtWork /\ Kept
<1> USE DEF journalVars, fileVars
(* Steps that keep the announcements and leave the same work going.        *)
<1>1. ASSUME Kept, AtWork' = AtWork PROVE UNCHANGED Promise!wvars
  BY <1>1 DEF Promise!wvars
<1>2. ASSUME Ends PROVE Promise!Close \/ UNCHANGED Promise!wvars
  BY <1>2 DEF Promise!Close, Promise!wvars, AtWork
(* Nor does a step that starts no delegation and no child begin any.       *)
<1> DEFINE StaysAtRest == /\ child' = child
                         /\ \A r \in Servers : phase'[r] \notin Delegating
<1>0. ASSUME StaysAtRest, ~AtWork PROVE AtWork' = AtWork
  <2>1. \A u \in Tx : ~Alive(u)'
    BY <1>0 DEF AtWork, Alive, StaysAtRest
  <2>2. ~AtWork'
    BY <1>0, <2>1 DEF AtWork, StaysAtRest
  <2> QED
    BY <1>0, <2>2 DEF AtWork
<1> HIDE DEF StaysAtRest
<1>3. ASSUME NEW s \in Servers,
             \/ Calling(s) \/ QueryRecovery(s)
             \/ \E t \in Tx : LaunchTool(s, t)
      PROVE  UNCHANGED Promise!wvars
  <2>1. CASE QueryRecovery(s)
    <3>1. AtWork' = AtWork
      BY <2>1 DEF QueryRecovery, serverVars, childVars, AtWork, Alive
    <3> QED
      BY <1>1, <2>1, <3>1 DEF QueryRecovery
  <2>2. CASE Calling(s) \/ \E t \in Tx : LaunchTool(s, t)
    <3>1. phase[s] \in Delegating /\ phase'[s] \in Delegating /\ Kept
      BY <2>2
      DEF Calling, ReceiveResult, StopWaiting, StopTerm, CleanUp, GiveUp, Settle,
          LaunchTool, Delegating, serverVars, CallsInv, TypeOK
    <3>2. AtWork /\ AtWork'
      BY <3>1 DEF AtWork
    <3> QED
      BY <1>1, <3>1, <3>2
  <2> QED
    BY <1>3, <2>1, <2>2
<1>4. ASSUME NEW s \in Servers, BeginDelegation(s) \/ BeginAcknowledge(s)
      PROVE  UNCHANGED Promise!wvars
  <2>1. ~AtWork
    BY <1>4, AtRest DEF BeginDelegation, BeginAcknowledge, Acquire
  <2>2. AtWork' = AtWork
    <3>1. \A r \in Servers : phase[r] \notin Delegating
      BY <2>1 DEF AtWork
    <3>2. StaysAtRest
      BY <1>4, <3>1
      DEF StaysAtRest, BeginDelegation, BeginAcknowledge, Acquire, childVars,
          Delegating, CallsInv, TypeOK
    <3> QED
      BY <1>0, <2>1, <3>2
  <2> QED
    BY <1>1, <1>4, <2>1, <2>2 DEF BeginDelegation, BeginAcknowledge
<1>5. ASSUME NEW s \in Servers, CheckJournal(s)
      PROVE  Promise!Open \/ UNCHANGED Promise!wvars
  <2>1. ~AtWork
    BY <1>5, AtRest DEF CheckJournal
  <2>2. CASE journal = {}
    <3>1. phase'[s] = "run"
      BY <1>5, <2>2 DEF CheckJournal, CallsInv, TypeOK
    <3>2. AtWork'
      BY <3>1 DEF AtWork, Delegating
    <3> QED
      BY <1>5, <2>1, <2>2, <3>2 DEF CheckJournal, Promise!Open
  <2>3. CASE journal # {}
    <3>1. \A r \in Servers : phase[r] \notin Delegating
      BY <2>1 DEF AtWork
    <3>2. StaysAtRest
      BY <1>5, <2>3, <3>1
      DEF StaysAtRest, CheckJournal, childVars, Delegating, CallsInv, TypeOK
    <3>3. AtWork' = AtWork
      BY <1>0, <2>1, <3>2
    <3> QED
      BY <1>1, <1>5, <2>1, <3>3 DEF CheckJournal
  <2> QED
    BY <2>2, <2>3
<1>6. ASSUME NEW s \in Servers, EndDelegation(s)
      PROVE  Promise!Close \/ UNCHANGED Promise!wvars
  BY <1>2, <1>6 DEF EndDelegation, AtWork, Delegating
<1>7. ASSUME NEW s \in Servers, Crash(s)
      PROVE  Promise!Close \/ UNCHANGED Promise!wvars
  <2>1. CASE AtWork
    BY <1>2, <1>7, <2>1 DEF Crash
  <2>2. CASE ~AtWork
    <3>1. \A r \in Servers : phase[r] \notin Delegating
      BY <2>2 DEF AtWork
    <3>2. StaysAtRest
      BY <1>7, <3>1 DEF StaysAtRest, Crash, childVars, Delegating, CallsInv, TypeOK
    <3>3. AtWork' = AtWork
      BY <1>0, <2>2, <3>2
    <3> QED
      BY <1>1, <1>7, <2>2, <3>3 DEF Crash
  <2> QED
    BY <2>1, <2>2
<1>8. ASSUME NEW s \in Servers, EndAcknowledge(s)
      PROVE  UNCHANGED Promise!wvars
  <2>1. ~AtWork
    BY <1>8, AtRest DEF EndAcknowledge
  <2>2. AtWork' = AtWork
    <3>1. \A r \in Servers : phase[r] \notin Delegating
      BY <2>1 DEF AtWork
    <3>2. StaysAtRest
      BY <1>8, <3>1
      DEF StaysAtRest, EndAcknowledge, childVars, Delegating, CallsInv, TypeOK
    <3> QED
      BY <1>0, <2>1, <3>2
  <2> QED
    BY <1>1, <1>8, <2>1, <2>2 DEF EndAcknowledge
<1>9. ASSUME NEW s \in Servers, NEW t \in Tx, AcknowledgeOne(s, t)
      PROVE  Promise!Review(t) \/ UNCHANGED Promise!wvars
  <2>1. ~AtWork
    BY <1>9, AtRest DEF AcknowledgeOne
  <2>2. AtWork' = AtWork
    <3>1. \A r \in Servers : phase[r] \notin Delegating
      BY <2>1 DEF AtWork
    <3>2. StaysAtRest
      BY <1>9, <3>1
      DEF StaysAtRest, AcknowledgeOne, childVars, Delegating, CallsInv, TypeOK
    <3> QED
      BY <1>0, <2>1, <3>2
  <2>3. CASE t \in journal
    BY <1>9, <2>1, <2>2, <2>3 DEF AcknowledgeOne, Promise!Review
  <2>4. CASE t \notin journal
    BY <1>1, <1>9, <2>1, <2>2, <2>4 DEF AcknowledgeOne
  <2> QED
    BY <2>3, <2>4
<1>10. ASSUME NEW t \in Tx, Exit(t) \/ Die(t)
       PROVE  Promise!Close \/ UNCHANGED Promise!wvars
  BY <1>2, <1>10 DEF Exit, Die, AtWork, Alive
<1>11. ASSUME NEW t \in Tx, RecordIntent(t) PROVE Promise!Announce(t)
  <2>1. AtWork /\ AtWork'
    BY <1>11 DEF RecordIntent, AtWork, Alive, Working, CallsInv, TypeOK
  <2>2. t \notin announced
    BY <1>11 DEF RecordIntent, CallsInv, Journaled
  <2> QED
    BY <1>11, <2>1, <2>2 DEF RecordIntent, Promise!Announce
<1>12. ASSUME NEW t \in Tx, CommitLands(t) PROVE Promise!Change(t)
  <2>1. AtWork /\ AtWork'
    BY <1>12 DEF CommitLands, AtWork, Alive, Working, CallsInv, TypeOK
  <2>2. t \in journal
    BY <1>12 DEF CommitLands, CallsInv, Journaled, Working
  <2> QED
    BY <1>12, <2>1, <2>2 DEF CommitLands, Promise!Change
<1>13. ASSUME NEW t \in Tx,
              \/ ReportReady(t) \/ EnterCommit(t) \/ ToolReturns(t)
              \/ ToolUnwinds(t) \/ Watchdog(t) \/ Expire(t)
       PROVE  UNCHANGED Promise!wvars
  <2>1. Alive(t) /\ Alive(t)' /\ Kept
    BY <1>13
    DEF ReportReady, EnterCommit, ToolReturns, ToolUnwinds, Reply, Watchdog, Expire,
        Alive, Working, CallsInv, TypeOK
  <2>2. AtWork /\ AtWork'
    BY <2>1 DEF AtWork
  <2> QED
    BY <1>1, <2>1, <2>2
<1>14. ASSUME ForeignWrite \/ UNCHANGED vars PROVE UNCHANGED Promise!wvars
  <2>1. AtWork' = AtWork /\ Kept
    BY <1>14 DEF ForeignWrite, vars, serverVars, childVars, AtWork, Alive
  <2> QED
    BY <1>1, <2>1
<1> QED
  BY <1>3, <1>4, <1>5, <1>6, <1>7, <1>8, <1>9, <1>10, <1>11, <1>12, <1>13, <1>14
  DEF Next, Server, Child, Promise!Next

(* The lease and the journal implement ReviewedWorkspace: one delegation   *)
(* at a time, opened only over reviewed changes, each change announced     *)
(* before it is made and never made after its review.                      *)
THEOREM WorkspaceKeepsPromise == Spec => KeepsPromise
  BY InitMaps, StepMaps, Strengthening, PTL DEF Spec, KeepsPromise, Promise!Spec

-------------------------------------------------------------------------------
(* The lease.                                                              *)

(* The inductive invariant.                                                *)

Kept ==
  /\ \A o \in Opens : lock[o] = NoDir <=> copies[o] = {}
  /\ \A o \in locked : copies[o] # {}
  /\ system = "nt" => \A o \in Opens : copies[o] # {} => o \in locked

OneLock == \A o, q \in locked : lock[o] = lock[q] => o = q

Served == \A s \in Owners :
  /\ leasePhase[s] = "idle" <=> config[s] = NoDir
  /\ leasePhase[s] \in Lease!Holding \cup {"opened"} =>
       /\ fd[s] \in Opens /\ copies[fd[s]] # {} /\ s \in copies[fd[s]]
       /\ lock[fd[s]] = config[s].token
  /\ leasePhase[s] \in Lease!Holding => fd[s] \in locked
  /\ leasePhase[s] \notin Lease!Holding \cup {"opened"} => fd[s] = NoOpen
  /\ \A o \in Opens : s \in copies[o] => fd[s] = o

Alone == \A o \in Opens : \A s, z \in Owners :
  s \in copies[o] /\ z \in copies[o] => s = z

Inherits == \A t \in Tools :
  /\ Lease!Alive(t) =>
       /\ request[t] \in Lease!Requests
       /\ t \in copies[request[t].open]
       /\ request[t].open \in locked
       /\ lock[request[t].open] = request[t].token
  /\ step[t] = "working" /\ kind[t] = "file" => root[t] = request[t].token
  /\ \A o \in Opens : t \in copies[o] => Lease!Alive(t) /\ request[t].open = o

LeaseInv == Lease!TypeOK /\ Kept /\ OneLock /\ Served /\ Alone /\ Inherits

-------------------------------------------------------------------------------
(* The invariant holds in the beginning.                                   *)
LEMMA LeaseInit == Lease!Init => LeaseInv
  BY NothingAssumption
  DEF Lease!Init, LeaseInv, Lease!TypeOK, Kept, OneLock, Served, Alone, Inherits,
      Lease!Alive, Lease!Begun, Lease!Holding, Lease!Places, Lease!Configs,
      Lease!Requests

(* Every step keeps the invariant: the server's, the tool's, and the moves *)
(* of paths.                                                               *)
LEMMA LeaseStep == ASSUME LeaseInv, [Lease!Next]_Lease!vars PROVE LeaseInv'
<1>1. ASSUME Lease!Move PROVE LeaseInv'
  <2>1. Lease!TypeOK'
    BY <1>1
    DEF Lease!Move, LeaseInv, Lease!TypeOK, Lease!Begun, Lease!Holding, Lease!Places,
        Lease!Configs, Lease!Requests, Lease!serverVars, Lease!lockVars,
        Lease!toolVars
  <2>2. Kept'
    BY <1>1
    DEF Lease!Move, LeaseInv, Lease!TypeOK, Kept, Lease!serverVars, Lease!lockVars,
        Lease!toolVars
  <2>3. OneLock'
    BY <1>1
    DEF Lease!Move, LeaseInv, Lease!TypeOK, OneLock, Lease!serverVars,
        Lease!lockVars, Lease!toolVars
  <2>4. Served'
    BY <1>1
    DEF Lease!Move, LeaseInv, Lease!TypeOK, Served, Lease!Holding, Lease!serverVars,
        Lease!lockVars, Lease!toolVars
  <2>5. Alone'
    BY <1>1
    DEF Lease!Move, LeaseInv, Lease!TypeOK, Alone, Lease!serverVars, Lease!lockVars,
        Lease!toolVars
  <2>6. Inherits'
    BY <1>1
    DEF Lease!Move, LeaseInv, Lease!TypeOK, Inherits, Lease!Alive, Lease!Begun,
        Lease!Requests, Lease!serverVars, Lease!lockVars, Lease!toolVars
  <2> QED
    BY <2>1, <2>2, <2>3, <2>4, <2>5, <2>6 DEF LeaseInv
<1>2. ASSUME NEW s \in Owners, Lease!Configure(s) PROVE LeaseInv'
  <2>1. Lease!TypeOK'
    BY <1>2, NothingAssumption
    DEF Lease!Configure, LeaseInv, Lease!TypeOK, Lease!Begun, Lease!Holding,
        Lease!Places, Lease!Configs, Lease!Requests, Lease!Same, Lease!serverVars,
        Lease!lockVars, Lease!toolVars
  <2>2. Kept'
    BY <1>2, NothingAssumption
    DEF Lease!Configure, LeaseInv, Lease!TypeOK, Kept, Lease!Same, Lease!serverVars,
        Lease!lockVars, Lease!toolVars
  <2>3. OneLock'
    BY <1>2, NothingAssumption
    DEF Lease!Configure, LeaseInv, Lease!TypeOK, OneLock, Lease!Same,
        Lease!serverVars, Lease!lockVars, Lease!toolVars
  <2>4. Served'
    BY <1>2, NothingAssumption
    DEF Lease!Configure, LeaseInv, Lease!TypeOK, Served, Lease!Holding,
        Lease!Configs, Lease!Places, Lease!Same, Lease!serverVars, Lease!lockVars,
        Lease!toolVars
  <2>5. Alone'
    BY <1>2, NothingAssumption
    DEF Lease!Configure, LeaseInv, Lease!TypeOK, Alone, Lease!Same, Lease!serverVars,
        Lease!lockVars, Lease!toolVars
  <2>6. Inherits'
    BY <1>2, NothingAssumption
    DEF Lease!Configure, LeaseInv, Lease!TypeOK, Inherits, Lease!Alive, Lease!Begun,
        Lease!Requests, Lease!Same, Lease!serverVars, Lease!lockVars, Lease!toolVars
  <2> QED
    BY <2>1, <2>2, <2>3, <2>4, <2>5, <2>6 DEF LeaseInv
<1>3. ASSUME NEW s \in Owners, Lease!OpenLock(s) PROVE LeaseInv'
  <2>1. Lease!TypeOK'
    BY <1>3, NothingAssumption, ProcessAssumption
    DEF Lease!OpenLock, LeaseInv, Lease!TypeOK, Lease!Begun, Lease!Holding,
        Lease!Places, Lease!Configs, Lease!Requests, Served, Lease!Same, Lease!InUse,
        Lease!serverVars, Lease!lockVars, Lease!toolVars
  <2>2. Kept'
    BY <1>3, NothingAssumption, ProcessAssumption
    DEF Lease!OpenLock, LeaseInv, Lease!TypeOK, Kept, Served, Lease!Holding,
        Lease!Configs, Lease!Places, Lease!Same, Lease!InUse, Lease!serverVars,
        Lease!lockVars, Lease!toolVars
  <2>3. OneLock'
    BY <1>3, NothingAssumption, ProcessAssumption
    DEF Lease!OpenLock, LeaseInv, Lease!TypeOK, OneLock, Kept, Served, Lease!Same,
        Lease!InUse, Lease!serverVars, Lease!lockVars, Lease!toolVars
  <2>4. Served'
    BY <1>3, NothingAssumption, ProcessAssumption
    DEF Lease!OpenLock, LeaseInv, Lease!TypeOK, Served, Lease!Holding, Kept,
        Lease!Configs, Inherits, Lease!Same, Lease!InUse, Lease!serverVars,
        Lease!lockVars, Lease!toolVars
  <2>5. Alone'
    BY <1>3, NothingAssumption, ProcessAssumption
    DEF Lease!OpenLock, LeaseInv, Lease!TypeOK, Alone, Kept, Lease!Same, Lease!InUse,
        Lease!serverVars, Lease!lockVars, Lease!toolVars
  <2>6. Inherits'
    BY <1>3, NothingAssumption, ProcessAssumption
    DEF Lease!OpenLock, LeaseInv, Lease!TypeOK, Inherits, Lease!Alive, Lease!Begun,
        Lease!Requests, Kept, Served, Lease!Configs, Lease!Same, Lease!InUse,
        Lease!serverVars, Lease!lockVars, Lease!toolVars
  <2> QED
    BY <2>1, <2>2, <2>3, <2>4, <2>5, <2>6 DEF LeaseInv
<1>4. ASSUME NEW s \in Owners, Lease!LockFile(s) PROVE LeaseInv'
  <2>1. Lease!TypeOK'
    BY <1>4
    DEF Lease!LockFile, LeaseInv, Lease!TypeOK, Lease!Begun, Lease!Holding,
        Lease!Places, Lease!Configs, Lease!Requests, Served, Lease!InUse,
        Lease!serverVars, Lease!lockVars, Lease!toolVars
  <2>2. Kept'
    BY <1>4
    DEF Lease!LockFile, LeaseInv, Lease!TypeOK, Kept, Served, Lease!Holding,
        Lease!InUse, Lease!serverVars, Lease!lockVars, Lease!toolVars
  <2>3. OneLock'
    BY <1>4
    DEF Lease!LockFile, LeaseInv, Lease!TypeOK, OneLock, Kept, Served, Lease!Holding,
        Lease!InUse, Lease!serverVars, Lease!lockVars, Lease!toolVars
  <2>4. Served'
    BY <1>4
    DEF Lease!LockFile, LeaseInv, Lease!TypeOK, Served, Lease!Holding, Lease!InUse,
        Lease!serverVars, Lease!lockVars, Lease!toolVars
  <2>5. Alone'
    BY <1>4
    DEF Lease!LockFile, LeaseInv, Lease!TypeOK, Alone, Lease!InUse, Lease!serverVars,
        Lease!lockVars, Lease!toolVars
  <2>6. Inherits'
    BY <1>4
    DEF Lease!LockFile, LeaseInv, Lease!TypeOK, Inherits, Lease!Alive, Lease!Begun,
        Lease!Requests, Lease!InUse, Lease!serverVars, Lease!lockVars, Lease!toolVars
  <2> QED
    BY <2>1, <2>2, <2>3, <2>4, <2>5, <2>6 DEF LeaseInv
<1>5. ASSUME NEW s \in Owners, Lease!Acquired(s) PROVE LeaseInv'
  <2>1. Lease!TypeOK'
    BY <1>5
    DEF Lease!Acquired, LeaseInv, Lease!TypeOK, Lease!Begun, Lease!Holding,
        Lease!Places, Lease!Configs, Lease!Requests, Lease!Same, Lease!serverVars,
        Lease!lockVars, Lease!toolVars
  <2>2. Kept'
    BY <1>5
    DEF Lease!Acquired, LeaseInv, Lease!TypeOK, Kept, Lease!Same, Lease!serverVars,
        Lease!lockVars, Lease!toolVars
  <2>3. OneLock'
    BY <1>5
    DEF Lease!Acquired, LeaseInv, Lease!TypeOK, OneLock, Lease!Same,
        Lease!serverVars, Lease!lockVars, Lease!toolVars
  <2>4. Served'
    BY <1>5
    DEF Lease!Acquired, LeaseInv, Lease!TypeOK, Served, Lease!Holding, Lease!Same,
        Lease!serverVars, Lease!lockVars, Lease!toolVars
  <2>5. Alone'
    BY <1>5
    DEF Lease!Acquired, LeaseInv, Lease!TypeOK, Alone, Lease!Same, Lease!serverVars,
        Lease!lockVars, Lease!toolVars
  <2>6. Inherits'
    BY <1>5
    DEF Lease!Acquired, LeaseInv, Lease!TypeOK, Inherits, Lease!Alive, Lease!Begun,
        Lease!Requests, Lease!Same, Lease!serverVars, Lease!lockVars, Lease!toolVars
  <2> QED
    BY <2>1, <2>2, <2>3, <2>4, <2>5, <2>6 DEF LeaseInv
<1>6. ASSUME NEW s \in Owners, Lease!Release(s) PROVE LeaseInv'
  <2>1. Lease!TypeOK'
    BY <1>6, ProcessAssumption
    DEF Lease!Release, LeaseInv, Lease!TypeOK, Lease!Begun, Lease!Holding,
        Lease!Places, Lease!Configs, Lease!Requests, Lease!Close, Lease!Closed,
        Lease!serverVars, Lease!lockVars, Lease!toolVars
  <2>2. Kept'
    BY <1>6, ProcessAssumption
    DEF Lease!Release, LeaseInv, Lease!TypeOK, Kept, Lease!Close, Lease!Closed,
        Lease!serverVars, Lease!lockVars, Lease!toolVars
  <2>3. OneLock'
    BY <1>6, ProcessAssumption
    DEF Lease!Release, LeaseInv, Lease!TypeOK, OneLock, Kept, Lease!Close,
        Lease!Closed, Lease!serverVars, Lease!lockVars, Lease!toolVars
  <2>4. Served'
    BY <1>6, ProcessAssumption
    DEF Lease!Release, LeaseInv, Lease!TypeOK, Served, Lease!Holding, Kept,
        Lease!Close, Lease!Closed, Lease!serverVars, Lease!lockVars, Lease!toolVars
  <2>5. Alone'
    BY <1>6, ProcessAssumption
    DEF Lease!Release, LeaseInv, Lease!TypeOK, Alone, Lease!Close, Lease!Closed,
        Lease!serverVars, Lease!lockVars, Lease!toolVars
  <2>6. Inherits'
    <3>1. UNCHANGED <<step, kind, request, root>>
      BY <1>6 DEF Lease!Release, Lease!toolVars
    <3>2. ASSUME NEW t \in Tools, NEW o \in Opens, t \in copies[o]
          PROVE  /\ t \in copies'[o] /\ lock'[o] = lock[o]
                 /\ o \in locked => o \in locked'
      BY <1>6, <3>2, ProcessAssumption DEF Lease!Release, Lease!Close, Lease!Closed
    <3>3. \A t \in Tools, o \in Opens : t \in copies'[o] => t \in copies[o]
      BY <1>6 DEF Lease!Release, Lease!Close, Lease!Closed
    <3> QED
      BY <3>1, <3>2, <3>3 DEF LeaseInv, Inherits, Lease!Alive, Lease!Requests
  <2> QED
    BY <2>1, <2>2, <2>3, <2>4, <2>5, <2>6 DEF LeaseInv
<1>7. ASSUME NEW s \in Owners, NEW t \in Tools, Lease!LaunchTool(s, t) PROVE LeaseInv'
  <2>1. Lease!TypeOK'
    BY <1>7, ProcessAssumption
    DEF Lease!LaunchTool, LeaseInv, Lease!TypeOK, Lease!Begun, Lease!Holding,
        Lease!Places, Lease!Configs, Lease!Requests, Served, Inherits,
        Lease!Inherited, Lease!Same, Lease!serverVars, Lease!lockVars, Lease!toolVars
  <2>2. Kept'
    BY <1>7, ProcessAssumption
    DEF Lease!LaunchTool, LeaseInv, Lease!TypeOK, Kept, Served, Lease!Holding,
        Lease!Inherited, Lease!Same, Lease!serverVars, Lease!lockVars, Lease!toolVars
  <2>3. OneLock'
    BY <1>7, ProcessAssumption
    DEF Lease!LaunchTool, LeaseInv, Lease!TypeOK, OneLock, Lease!Inherited,
        Lease!Same, Lease!serverVars, Lease!lockVars, Lease!toolVars
  <2>4. Served'
    BY <1>7, ProcessAssumption
    DEF Lease!LaunchTool, LeaseInv, Lease!TypeOK, Served, Lease!Holding,
        Lease!Inherited, Lease!Same, Lease!serverVars, Lease!lockVars, Lease!toolVars
  <2>5. Alone'
    BY <1>7, ProcessAssumption
    DEF Lease!LaunchTool, LeaseInv, Lease!TypeOK, Alone, Served, Lease!Inherited,
        Lease!Same, Lease!serverVars, Lease!lockVars, Lease!toolVars
  <2>6. Inherits'
    BY <1>7, ProcessAssumption
    DEF Lease!LaunchTool, LeaseInv, Lease!TypeOK, Inherits, Lease!Alive, Lease!Begun,
        Lease!Requests, Served, Lease!Holding, Lease!Configs, Lease!Inherited,
        Lease!Same, Lease!serverVars, Lease!lockVars, Lease!toolVars
  <2> QED
    BY <2>1, <2>2, <2>3, <2>4, <2>5, <2>6 DEF LeaseInv
<1>8. ASSUME NEW t \in Tools, Lease!ConfigureTool(t) PROVE LeaseInv'
  <2>1. Lease!TypeOK'
    BY <1>8
    DEF Lease!ConfigureTool, LeaseInv, Lease!TypeOK, Lease!Begun, Lease!Holding,
        Lease!Places, Lease!Configs, Lease!Requests, Lease!Advance, Lease!Same,
        Lease!serverVars, Lease!lockVars, Lease!toolVars
  <2>2. Kept'
    BY <1>8
    DEF Lease!ConfigureTool, LeaseInv, Lease!TypeOK, Kept, Lease!Advance, Lease!Same,
        Lease!serverVars, Lease!lockVars, Lease!toolVars
  <2>3. OneLock'
    BY <1>8
    DEF Lease!ConfigureTool, LeaseInv, Lease!TypeOK, OneLock, Lease!Advance,
        Lease!Same, Lease!serverVars, Lease!lockVars, Lease!toolVars
  <2>4. Served'
    BY <1>8
    DEF Lease!ConfigureTool, LeaseInv, Lease!TypeOK, Served, Lease!Holding,
        Lease!Advance, Lease!Same, Lease!serverVars, Lease!lockVars, Lease!toolVars
  <2>5. Alone'
    BY <1>8
    DEF Lease!ConfigureTool, LeaseInv, Lease!TypeOK, Alone, Lease!Advance,
        Lease!Same, Lease!serverVars, Lease!lockVars, Lease!toolVars
  <2>6. Inherits'
    BY <1>8
    DEF Lease!ConfigureTool, LeaseInv, Lease!TypeOK, Inherits, Lease!Alive,
        Lease!Begun, Lease!Requests, Lease!Advance, Lease!Same, Lease!serverVars,
        Lease!lockVars, Lease!toolVars
  <2> QED
    BY <2>1, <2>2, <2>3, <2>4, <2>5, <2>6 DEF LeaseInv
<1>9. ASSUME NEW t \in Tools, Lease!Locate(t) PROVE LeaseInv'
  <2>1. Lease!TypeOK'
    BY <1>9
    DEF Lease!Locate, LeaseInv, Lease!TypeOK, Lease!Begun, Lease!Holding,
        Lease!Places, Lease!Configs, Lease!Requests, Lease!Advance, Lease!Same,
        Lease!serverVars, Lease!lockVars, Lease!toolVars
  <2>2. Kept'
    BY <1>9
    DEF Lease!Locate, LeaseInv, Lease!TypeOK, Kept, Lease!Advance, Lease!Same,
        Lease!serverVars, Lease!lockVars, Lease!toolVars
  <2>3. OneLock'
    BY <1>9
    DEF Lease!Locate, LeaseInv, Lease!TypeOK, OneLock, Lease!Advance, Lease!Same,
        Lease!serverVars, Lease!lockVars, Lease!toolVars
  <2>4. Served'
    BY <1>9
    DEF Lease!Locate, LeaseInv, Lease!TypeOK, Served, Lease!Holding, Lease!Advance,
        Lease!Same, Lease!serverVars, Lease!lockVars, Lease!toolVars
  <2>5. Alone'
    BY <1>9
    DEF Lease!Locate, LeaseInv, Lease!TypeOK, Alone, Lease!Advance, Lease!Same,
        Lease!serverVars, Lease!lockVars, Lease!toolVars
  <2>6. Inherits'
    BY <1>9
    DEF Lease!Locate, LeaseInv, Lease!TypeOK, Inherits, Lease!Alive, Lease!Begun,
        Lease!Requests, Lease!Advance, Lease!Same, Lease!serverVars, Lease!lockVars,
        Lease!toolVars
  <2> QED
    BY <2>1, <2>2, <2>3, <2>4, <2>5, <2>6 DEF LeaseInv
<1>10. ASSUME NEW t \in Tools, Lease!OpenRoot(t) PROVE LeaseInv'
  <2>1. Lease!TypeOK'
    BY <1>10
    DEF Lease!OpenRoot, LeaseInv, Lease!TypeOK, Lease!Begun, Lease!Holding,
        Lease!Places, Lease!Configs, Lease!Requests, Lease!Advance, Lease!serverVars,
        Lease!lockVars, Lease!toolVars
  <2>2. Kept'
    BY <1>10
    DEF Lease!OpenRoot, LeaseInv, Lease!TypeOK, Kept, Lease!Advance,
        Lease!serverVars, Lease!lockVars, Lease!toolVars
  <2>3. OneLock'
    BY <1>10
    DEF Lease!OpenRoot, LeaseInv, Lease!TypeOK, OneLock, Lease!Advance,
        Lease!serverVars, Lease!lockVars, Lease!toolVars
  <2>4. Served'
    BY <1>10
    DEF Lease!OpenRoot, LeaseInv, Lease!TypeOK, Served, Lease!Holding, Lease!Advance,
        Lease!serverVars, Lease!lockVars, Lease!toolVars
  <2>5. Alone'
    BY <1>10
    DEF Lease!OpenRoot, LeaseInv, Lease!TypeOK, Alone, Lease!Advance,
        Lease!serverVars, Lease!lockVars, Lease!toolVars
  <2>6. Inherits'
    BY <1>10
    DEF Lease!OpenRoot, LeaseInv, Lease!TypeOK, Inherits, Lease!Alive, Lease!Begun,
        Lease!Requests, Lease!Advance, Lease!serverVars, Lease!lockVars,
        Lease!toolVars
  <2> QED
    BY <2>1, <2>2, <2>3, <2>4, <2>5, <2>6 DEF LeaseInv
<1>11. ASSUME NEW t \in Tools, Lease!CheckRoot(t) PROVE LeaseInv'
  <2>1. Lease!TypeOK'
    BY <1>11
    DEF Lease!CheckRoot, LeaseInv, Lease!TypeOK, Lease!Begun, Lease!Holding,
        Lease!Places, Lease!Configs, Lease!Requests, Lease!Advance, Lease!serverVars,
        Lease!lockVars, Lease!toolVars
  <2>2. Kept'
    BY <1>11
    DEF Lease!CheckRoot, LeaseInv, Lease!TypeOK, Kept, Lease!Advance,
        Lease!serverVars, Lease!lockVars, Lease!toolVars
  <2>3. OneLock'
    BY <1>11
    DEF Lease!CheckRoot, LeaseInv, Lease!TypeOK, OneLock, Lease!Advance,
        Lease!serverVars, Lease!lockVars, Lease!toolVars
  <2>4. Served'
    BY <1>11
    DEF Lease!CheckRoot, LeaseInv, Lease!TypeOK, Served, Lease!Holding,
        Lease!Advance, Lease!serverVars, Lease!lockVars, Lease!toolVars
  <2>5. Alone'
    BY <1>11
    DEF Lease!CheckRoot, LeaseInv, Lease!TypeOK, Alone, Lease!Advance,
        Lease!serverVars, Lease!lockVars, Lease!toolVars
  <2>6. Inherits'
    BY <1>11
    DEF Lease!CheckRoot, LeaseInv, Lease!TypeOK, Inherits, Lease!Alive, Lease!Begun,
        Lease!Requests, Lease!Advance, Lease!serverVars, Lease!lockVars,
        Lease!toolVars
  <2> QED
    BY <2>1, <2>2, <2>3, <2>4, <2>5, <2>6 DEF LeaseInv
<1>12. ASSUME NEW t \in Tools, Lease!RunCommand(t) PROVE LeaseInv'
  <2>1. Lease!TypeOK'
    BY <1>12
    DEF Lease!RunCommand, LeaseInv, Lease!TypeOK, Lease!Begun, Lease!Holding,
        Lease!Places, Lease!Configs, Lease!Requests, Inherits, Lease!Alive,
        Lease!Advance, Lease!serverVars, Lease!lockVars, Lease!toolVars
  <2>2. Kept'
    BY <1>12
    DEF Lease!RunCommand, LeaseInv, Lease!TypeOK, Kept, Lease!Advance,
        Lease!serverVars, Lease!lockVars, Lease!toolVars
  <2>3. OneLock'
    BY <1>12
    DEF Lease!RunCommand, LeaseInv, Lease!TypeOK, OneLock, Lease!Advance,
        Lease!serverVars, Lease!lockVars, Lease!toolVars
  <2>4. Served'
    BY <1>12
    DEF Lease!RunCommand, LeaseInv, Lease!TypeOK, Served, Lease!Holding,
        Lease!Advance, Lease!serverVars, Lease!lockVars, Lease!toolVars
  <2>5. Alone'
    BY <1>12
    DEF Lease!RunCommand, LeaseInv, Lease!TypeOK, Alone, Lease!Advance,
        Lease!serverVars, Lease!lockVars, Lease!toolVars
  <2>6. Inherits'
    BY <1>12
    DEF Lease!RunCommand, LeaseInv, Lease!TypeOK, Inherits, Lease!Alive, Lease!Begun,
        Lease!Requests, Lease!Advance, Lease!serverVars, Lease!lockVars,
        Lease!toolVars
  <2> QED
    BY <2>1, <2>2, <2>3, <2>4, <2>5, <2>6 DEF LeaseInv
<1>13. ASSUME NEW t \in Tools, Lease!EndTool(t) PROVE LeaseInv'
  <2>1. Lease!TypeOK'
    BY <1>13, ProcessAssumption
    DEF Lease!EndTool, LeaseInv, Lease!TypeOK, Lease!Begun, Lease!Holding,
        Lease!Places, Lease!Configs, Lease!Requests, Lease!Close, Lease!Closed,
        Lease!serverVars, Lease!lockVars, Lease!toolVars
  <2>2. Kept'
    BY <1>13, ProcessAssumption
    DEF Lease!EndTool, LeaseInv, Lease!TypeOK, Kept, Lease!Close, Lease!Closed,
        Lease!serverVars, Lease!lockVars, Lease!toolVars
  <2>3. OneLock'
    BY <1>13, ProcessAssumption
    DEF Lease!EndTool, LeaseInv, Lease!TypeOK, OneLock, Kept, Lease!Close,
        Lease!Closed, Lease!serverVars, Lease!lockVars, Lease!toolVars
  <2>4. Served'
    BY <1>13, ProcessAssumption
    DEF Lease!EndTool, LeaseInv, Lease!TypeOK, Served, Lease!Holding, Kept,
        Lease!Close, Lease!Closed, Lease!serverVars, Lease!lockVars, Lease!toolVars
  <2>5. Alone'
    BY <1>13, ProcessAssumption
    DEF Lease!EndTool, LeaseInv, Lease!TypeOK, Alone, Lease!Close, Lease!Closed,
        Lease!serverVars, Lease!lockVars, Lease!toolVars
  <2>6. Inherits'
    <3>1. /\ step' = [step EXCEPT ![t] = "none"] /\ kind' = [kind EXCEPT ![t] = "file"]
          /\ root' = [root EXCEPT ![t] = NoDir]
          /\ request' = [request EXCEPT ![t] = NoOpen]
      BY <1>13 DEF Lease!EndTool
    <3>2. ASSUME NEW u \in Tools \ {t}, NEW o \in Opens, u \in copies[o]
          PROVE  /\ u \in copies'[o] /\ lock'[o] = lock[o]
                 /\ o \in locked => o \in locked'
      BY <1>13, <3>2 DEF Lease!EndTool, Lease!Close, Lease!Closed
    <3>3. \A u \in Tools, o \in Opens :
            u \in copies'[o] => u # t /\ u \in copies[o]
      BY <1>13 DEF Lease!EndTool, Lease!Close, Lease!Closed
    <3>4. /\ step'[t] = "none"
          /\ \A u \in Tools \ {t} : /\ step'[u] = step[u] /\ kind'[u] = kind[u]
                                   /\ request'[u] = request[u] /\ root'[u] = root[u]
      BY <3>1 DEF LeaseInv, Lease!TypeOK
    <3> QED
      BY <3>2, <3>3, <3>4
      DEF LeaseInv, Inherits, Lease!Alive, Lease!Begun, Lease!Requests
  <2> QED
    BY <2>1, <2>2, <2>3, <2>4, <2>5, <2>6 DEF LeaseInv
<1>14. CASE UNCHANGED Lease!vars
  BY <1>14
  DEF Lease!vars, Lease!serverVars, Lease!lockVars, Lease!toolVars, LeaseInv,
      Lease!TypeOK, Kept, OneLock, Served, Alone, Inherits, Lease!Alive
<1> QED
  BY <1>1, <1>2, <1>3, <1>4, <1>5, <1>6, <1>7, <1>8, <1>9, <1>10, <1>11, <1>12,
     <1>13, <1>14
  DEF Lease!Next

-------------------------------------------------------------------------------
(* What the invariant gives.                                               *)
(* One execution in a directory.                                           *)
LEMMA Exclusion == LeaseInv => Lease!OneExecution
<1> SUFFICES ASSUME LeaseInv PROVE Lease!OneExecution
  OBVIOUS
<1>1. ASSUME NEW s \in Owners, NEW z \in Owners, leasePhase[s] \in Lease!Holding,
             leasePhase[z] \in Lease!Holding, config[s].token = config[z].token
      PROVE  s = z
  <2>1. fd[s] = fd[z]
    BY <1>1 DEF LeaseInv, Served, OneLock
  <2>2. fd[s] \in Opens /\ s \in copies[fd[s]] /\ z \in copies[fd[s]]
    BY <1>1, <2>1 DEF LeaseInv, Served
  <2> QED
    BY <2>2 DEF LeaseInv, Alone
<1>2. ASSUME NEW t \in Tools, NEW s \in Owners, Lease!Alive(t),
             leasePhase[s] \in Lease!Holding,
             config[s].token = request[t].token
      PROVE  fd[s] = request[t].open
  BY <1>2 DEF LeaseInv, Served, Inherits, OneLock
<1> QED
  BY <1>1, <1>2 DEF Lease!OneExecution

(* Tools stay in the directory of their lease.                             *)
LEMMA ToolsStay == LeaseInv => Lease!WorksInLease
<1> SUFFICES ASSUME LeaseInv PROVE Lease!WorksInLease
  OBVIOUS
<1>1. ASSUME NEW t \in Tools, step[t] = "working", kind[t] = "file"
      PROVE  /\ Lease!Alive(t) /\ request[t].open \in locked
             /\ root[t] = lock[request[t].open]
  BY <1>1 DEF LeaseInv, Inherits, Lease!Alive, Lease!Begun
<1>2. ASSUME NEW t \in Tools, NEW u \in Tools, step[t] = "working",
             kind[t] = "file", Lease!Alive(u), request[u].token = root[t]
      PROVE  request[u].open = request[t].open
  BY <1>1, <1>2 DEF LeaseInv, Inherits, OneLock
<1> QED
  BY <1>1, <1>2 DEF Lease!WorksInLease

(* What the invariant says of the lease.                                   *)
LEMMA LeaseFollows == LeaseInv => Lease!LeaseExact
BY Exclusion, ToolsStay DEF LeaseInv, Lease!LeaseExact

-------------------------------------------------------------------------------
(* The Bash call.                                                          *)

(* The call after the end of its command has begun: the tool has the shell *)
(* or has failed.                                                          *)
Ending == {"cleanup", "close", "join", "answer"}

Reached ==
  /\ bashTool \in {"start", "starting"} => ~known
  /\ bashTool = "waiting" => known
  /\ bashTool = "start" => running = {}
  /\ bashTool \in Ending /\ ~known => bashFailed
  /\ bashReply # "none" => bashTool = "ended"

(* On Windows the job has what the shell starts, or it is not there yet.   *)
Bound ==
  /\ system = "nt" /\ known /\ bashTool \in {"waiting", "cleanup", "close"} =>
       job = "open"
  /\ system = "nt" /\ job = "none" => running \subseteq away \cup {Bash!Shell}

(* Where the tool has ended what it can, only those that left are alive.   *)
Ended ==
  /\ system = "posix" /\ known /\ bashTool \in {"close", "join", "answer"} =>
       running \subseteq away
  /\ known /\ bashTool \in {"join", "answer"} => running \subseteq away
  /\ ~known /\ ~blind /\ bashTool \in Ending => running \subseteq away

BashInv == Bash!TypeOK /\ Reached /\ Bound /\ Ended /\ Bash!CommandGone

(* A call begins with the invariant.                                       *)
LEMMA BashInit == Bash!Init => BashInv
  BY DEF Bash!Init, BashInv, Bash!TypeOK, Reached, Bound, Ended, Bash!CommandGone,
         Ending

(* The command, whose shell is not there when only those that left are.    *)
LEMMA CommandStep ==
  ASSUME BashInv, NEW p \in Bash!Command,
         (p \in Opens /\ (Bash!Fork(p) \/ Bash!Detach(p))) \/ Bash!Ends(p)
  PROVE  BashInv'
<1> USE DEF BashInv, Bash!TypeOK
<1>1. Bash!Shell \notin away
  BY CommandAssumption DEF Bash!Shell
<1>2. CASE p \in Opens /\ Bash!Fork(p)
  <2>1. ~(running \subseteq away)
    BY <1>1, <1>2 DEF Bash!Fork
  <2>2. Bash!TypeOK'
    BY <1>2 DEF Bash!Fork, Bash!Command
  <2>3. Reached' /\ Bound'
    BY <1>2 DEF Bash!Fork, Reached, Bound
  <2>4. Ended' /\ Bash!CommandGone'
    BY <1>2, <2>1 DEF Bash!Fork, Ended, Bash!CommandGone
  <2> QED
    BY <2>2, <2>3, <2>4
<1>3. CASE p \in Opens /\ Bash!Detach(p)
  BY <1>3 DEF Bash!Detach, Reached, Bound, Ended, Bash!CommandGone
<1>4. CASE Bash!Ends(p)
  BY <1>4 DEF Bash!Ends, Reached, Bound, Ended, Bash!CommandGone
<1> QED
  BY <1>2, <1>3, <1>4

(* What ending a shell leaves, on each of the systems.                     *)
LEMMA StoppedLeaves ==
  ASSUME BashInv, NEW left \in Bash!Stopped
  PROVE  /\ left \subseteq running
         /\ system = "posix" \/ job = "none" => left \subseteq away
BY DEF BashInv, Bash!Stopped, Bound, Bash!Shell, Bash!TypeOK

(* The main thread of the tool.                                            *)
LEMMA ToolStep ==
  ASSUME BashInv,
         \/ Bash!Spawn \/ Bash!SpawnFails \/ Bash!Bind \/ Bash!Started \/ Bash!Waited
         \/ Bash!Stop \/ Bash!CloseJob
         \/ Bash!Join \/ Bash!Answer \/ Bash!NextCall
  PROVE  BashInv'
<1> USE DEF BashInv, Bash!TypeOK, Reached, Bound, Ended, Bash!CommandGone, Ending
<1>1. CASE Bash!Spawn
  BY <1>1 DEF Bash!Spawn, Bash!Command
<1>2. CASE Bash!SpawnFails
  BY <1>2 DEF Bash!SpawnFails
<1>3. CASE Bash!Bind
  <2>1. CASE job' = "open" /\ UNCHANGED <<bashTool, running, bashFailed>>
    BY <1>3, <2>1 DEF Bash!Bind
  <2>2. CASE /\ job' = "none" /\ bashTool' = "cleanup" /\ bashFailed' = TRUE
             /\ running' \in Bash!Stopped
    <3>1. running' \subseteq running /\ running' \subseteq away
      BY <1>3, <2>2, StoppedLeaves DEF Bash!Bind
    <3> QED
      BY <1>3, <2>2, <3>1 DEF Bash!Bind
  <2> QED
    BY <1>3, <2>1, <2>2 DEF Bash!Bind
<1>4. CASE Bash!Started
  BY <1>4 DEF Bash!Started
<1>5. CASE Bash!Waited
  BY <1>5 DEF Bash!Waited
<1>6. CASE Bash!Stop
  <2>1. /\ running' \subseteq running
        /\ known /\ system = "posix" => running' \subseteq away
        /\ ~known => running' = running
    BY <1>6, StoppedLeaves DEF Bash!Stop
  <2>2. /\ bashTool = "cleanup" /\ bashTool' = "close" /\ bashFailed' \in BOOLEAN
        /\ ~known => bashFailed' = bashFailed
        /\ UNCHANGED <<system, known, away, job, timedOut, bashReply, signals, blind>>
    BY <1>6 DEF Bash!Stop
  <2> QED
    BY <2>1, <2>2
<1>7. CASE Bash!CloseJob
  BY <1>7 DEF Bash!CloseJob
<1>8. CASE Bash!Join
  BY <1>8 DEF Bash!Join
<1>9. CASE Bash!Answer
  BY <1>9 DEF Bash!Answer
<1>10. CASE Bash!NextCall
  BY <1>10 DEF Bash!NextCall
<1> QED
  BY <1>1, <1>2, <1>3, <1>4, <1>5, <1>6, <1>7, <1>8, <1>9, <1>10

(* Whoever ends the tool.                                                  *)
LEMMA EndingStep ==
  ASSUME BashInv, (\E who \in {"server", "watchdog"} : Bash!Terminate(who)) \/ Bash!Kill
  PROVE  BashInv'
<1> USE DEF BashInv, Bash!TypeOK
<1>1. bashTool # "ended" /\ signals' \subseteq {"server", "watchdog"}
  BY DEF Bash!Terminate, Bash!Kill
<1>2. CASE system = "posix" /\ Bash!Interrupted
  <2>1. \/ bashTool \in {"start", "starting", "waiting"} /\ bashTool' = "cleanup"
        \/ bashTool \in Ending /\ bashTool' = "ended"
    BY <1>1, <1>2 DEF Bash!Interrupted, Ending
  <2>2. Bash!TypeOK'
    BY <1>1, <1>2, <2>1 DEF Bash!Interrupted
  <2>3. Reached' /\ Bound'
    BY <1>1, <1>2, <2>1 DEF Bash!Interrupted, Reached, Bound, Ending
  <2>4. Ended' /\ Bash!CommandGone'
    BY <1>1, <1>2, <2>1
    DEF Bash!Interrupted, Bash!Uncovered, Reached, Ended, Bash!CommandGone, Ending
  <2> QED
    BY <2>2, <2>3, <2>4
<1>3. CASE Bash!Killed
  <2>1. Bash!TypeOK' /\ Reached' /\ Bound'
    BY <1>1, <1>3 DEF Bash!Killed, Reached, Bound, Ending
  <2>2. Ended' /\ Bash!CommandGone'
    BY <1>1, <1>3 DEF Bash!Killed, Ended, Bash!CommandGone, Ending
  <2> QED
    BY <2>1, <2>2
<1> QED
  BY <1>2, <1>3 DEF Bash!Terminate, Bash!Kill

(* A step of the command, the tool or who ends it keeps the invariant.     *)
LEMMA BashStep == ASSUME BashInv, [Bash!Next]_Bash!vars PROVE BashInv'
<1>1. CASE UNCHANGED Bash!vars
  BY <1>1
  DEF Bash!vars, BashInv, Bash!TypeOK, Reached, Bound, Ended, Bash!CommandGone
<1> QED
  BY <1>1, CommandStep, ToolStep, EndingStep DEF Bash!Next, Bash!Command

-------------------------------------------------------------------------------
(* The parts together.                                                     *)

(* A step is one of one part and leaves the others.                        *)
LEMMA StepsApart ==
  ASSUME [PartsNext]_partVars
  PROVE  [Next]_vars /\ [Lease!Next]_Lease!vars /\ [Bash!Next]_Bash!vars
<1>1. CASE PartsNext
  <2>1. [Next]_vars
    BY <1>1 DEF PartsNext
  <2>2. [Lease!Next]_Lease!vars
    BY <1>1
    DEF PartsNext, leaseVars, Lease!vars, Lease!serverVars, Lease!lockVars,
        Lease!toolVars, Bash!Next, Bash!Spawn, Bash!SpawnFails, Bash!Bind,
        Bash!Started, Bash!Waited, Bash!Stop, Bash!CloseJob, Bash!Join, Bash!Answer,
        Bash!Terminate, Bash!Interrupted, Bash!Killed, Bash!Kill, Bash!NextCall,
        Bash!Fork, Bash!Detach, Bash!Ends
  <2>3. [Bash!Next]_Bash!vars
    <3>1. Lease!Next => UNCHANGED system
      BY DEF Lease!Next, Lease!Move, Lease!Configure, Lease!OpenLock, Lease!LockFile,
             Lease!Acquired, Lease!Release, Lease!LaunchTool, Lease!ConfigureTool,
             Lease!Locate, Lease!OpenRoot, Lease!CheckRoot, Lease!RunCommand,
             Lease!EndTool, Lease!Advance
    <3> QED
      BY <1>1, <3>1 DEF PartsNext, leaseVars, bashVars, Bash!vars
  <2> QED
    BY <2>1, <2>2, <2>3
<1>2. CASE UNCHANGED partVars
  BY <1>2
  DEF partVars, vars, leaseVars, bashVars, Lease!vars, Lease!serverVars,
      Lease!lockVars, Lease!toolVars, Bash!vars
<1> QED
  BY <1>1, <1>2

(* Beside the lease and the command, the calls are what they are alone:    *)
(* all that is proved of them holds of the parts.                          *)
THEOREM PartsAreCalls == PartsSpec => Spec
<1>1. PartsInit => Init
  BY DEF PartsInit
<1>2. [PartsNext]_partVars => [Next]_vars
  BY StepsApart
<1> QED
  BY <1>1, <1>2, PTL DEF PartsSpec, Spec

(* The invariants of the lease and of the command hold in every reachable  *)
(* state.                                                                  *)
THEOREM PartsKeepTheirInvariants == PartsSpec => [](LeaseInv /\ BashInv)
<1>1. PartsInit => LeaseInv /\ BashInv
  BY LeaseInit, BashInit DEF PartsInit
<1>2. LeaseInv /\ BashInv /\ [PartsNext]_partVars => (LeaseInv /\ BashInv)'
  BY StepsApart, LeaseStep, BashStep
<1> QED
  BY <1>1, <1>2, PTL DEF PartsSpec

(* One execution at a time in a directory, whatever its paths and whoever  *)
(* outlives whom, and no tool on files outside the directory that its      *)
(* lease is for; nothing of a Bash command outlives its tool, and with it  *)
(* the lease, but the named exceptions (execution_lock.py:302,             *)
(* workspace_guard.py:72, bash_tool.py:298).                               *)
THEOREM LeaseStaysExact == PartsSpec => []LeaseExact
<1>1. LeaseInv /\ BashInv => LeaseExact
  BY LeaseFollows DEF BashInv, LeaseExact
<1> QED
  BY <1>1, PartsKeepTheirInvariants, PTL

================================================================================
