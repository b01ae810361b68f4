--------------------------- MODULE DecisionPipeline ---------------------------
(***************************************************************************)
(* From a decision state to the selected candidate: builders propose one   *)
(* candidate per role, the feasibility gate certifies them, the frontier   *)
(* is pruned by dominance, by near-duplicates and to a few medoids, and    *)
(* the arbiter chooses one of those or a synthesis of its own              *)
(* (candidate_generation.py, feasibility.py, frontier.py, arbiter.py).     *)
(*                                                                         *)
(* A candidate is a record: obj maps an objective to its level, feature is *)
(* where its feature vector points, 0 for the zero vector, and flaws are   *)
(* the checks that it fails.  Whole numbers stand for the levels and for   *)
(* cosines, which fall with the distance of two features.  A list of       *)
(* candidates is a set of indices into the builders' answers: every list   *)
(* of the code keeps their order.  The client of the three requests        *)
(* passes on what it was given.                                            *)
(***************************************************************************)
EXTENDS Integers, Sequences, FiniteSets, FiniteSetsExt

CONSTANTS Candidates,   \* what a model may answer that is a valid CandidatePlan
          Objectives,   \* the names of the objectives
          Roles,        \* how many builders are asked
          MaxMedoids,   \* max_k
          Aligned,      \* the cosine of two features that point the same way
          Threshold,    \* similarity_threshold
          CloseL1       \* OBJECTIVE_DUPLICATE_L1_MAX

VARIABLES pc,         \* "generate", "gate", "build", "decide", "end" or "failed"
          valid,      \* the builders' valid candidates, in order
          rejected,   \* how many were reported as rejected: invalid or infeasible
          offered,    \* the feasible ones, which the client sends on
          deduped,    \* what dominance and near-duplicates left of them
          frontier,   \* the medoids, which the client sends to the arbiter
          outcome,    \* "none", "chosen", "synthesized" or "rejected"
          selected    \* the selected candidate, in a set that is empty without one

vars == <<pc, valid, rejected, offered, deduped, frontier, outcome, selected>>

Init ==
  /\ pc = "generate" /\ valid = <<>> /\ rejected = 0 /\ offered = {}
  /\ deduped = {} /\ frontier = {} /\ outcome = "none" /\ selected = {}

-------------------------------------------------------------------------------
\* The certificate.  That a migration needs a rollback plan follows from the
\* check of the rollback plan itself.

Feasible(c) == c.flaws = {}

\* Lists of candidates.

Dominates_Weakly(lhs, rhs) == \A o \in Objectives : lhs.obj[o] >= rhs.obj[o]

Dominates(lhs, rhs) ==
  /\ \A o \in Objectives : lhs.obj[o] >= rhs.obj[o]
  /\ \E o \in Objectives : lhs.obj[o] > rhs.obj[o]

ParetoFilter(list) ==
  {i \in list : ~\E j \in list \ {i} : Dominates(valid[j], valid[i])}

Distance(a, b) == IF a >= b THEN a - b ELSE b - a

ObjectiveL1(lhs, rhs) ==
  MapThenSumSet(LAMBDA o : Distance(lhs.obj[o], rhs.obj[o]), Objectives)

\* The cosine with the zero vector is 0, also that of the zero vector with itself.
Cosine(lhs, rhs) ==
  IF lhs.feature = 0 \/ rhs.feature = 0 THEN 0
  ELSE Aligned - Distance(lhs.feature, rhs.feature)

NearDuplicate(lhs, rhs) ==
  Cosine(lhs, rhs) >= Threshold /\ ObjectiveL1(lhs, rhs) <= CloseL1

\* Whether a candidate is kept depends on those kept before it.
Dedupe(list) ==
  LET kept[i \in Nat] ==
        /\ i \in list
        /\ ~\E j \in 1..(i - 1) : kept[j] /\ NearDuplicate(valid[i], valid[j])
  IN {i \in list : kept[i]}

Score(list, combo) ==
  MapThenSumSet(LAMBDA i : Max({Cosine(valid[i], valid[m]) : m \in combo}), list)

\* Combinations are tried in lexicographic order, and the first best one is taken.
TriedBefore(one, other) ==
  \E i \in one \ other : \A j \in other \ one : i < j

IsBest(combo, list, combos) ==
  \A other \in combos \ {combo} :
    \/ Score(list, combo) > Score(list, other)
    \/ Score(list, combo) = Score(list, other) /\ TriedBefore(combo, other)

Combinations(list) ==
  IF Cardinality(list) <= MaxMedoids THEN {list} ELSE kSubset(MaxMedoids, list)

-------------------------------------------------------------------------------
\* POST /candidates/generate: one builder after the other, then the gate.

Asked == Len(valid) + rejected

Builder(candidate) ==
  /\ pc = "generate" /\ pc' = IF Asked + 1 = Roles THEN "gate" ELSE "generate"
  /\ valid' = Append(valid, candidate)
  /\ UNCHANGED <<rejected, offered, deduped, frontier, outcome, selected>>

InvalidBuilder ==
  /\ pc = "generate" /\ pc' = IF Asked + 1 = Roles THEN "gate" ELSE "generate"
  /\ rejected' = rejected + 1
  /\ UNCHANGED <<valid, offered, deduped, frontier, outcome, selected>>

\* A client that fails after its retries fails the whole request.
ClientFails ==
  /\ pc \in {"generate", "decide"} /\ pc' = "failed"
  /\ UNCHANGED <<valid, rejected, offered, deduped, frontier, outcome, selected>>

Gate_Skipped ==
  /\ pc = "gate" /\ pc' = "build"
  /\ offered' = DOMAIN valid
  /\ UNCHANGED <<valid, rejected, deduped, frontier, outcome, selected>>

Gate ==
  /\ pc = "gate" /\ pc' = "build"
  /\ offered' = {i \in DOMAIN valid : Feasible(valid[i])}
  /\ rejected' = rejected + Cardinality(DOMAIN valid \ offered')
  /\ UNCHANGED <<valid, deduped, frontier, outcome, selected>>

\* POST /frontier/build.
BuildFrontier ==
  /\ pc = "build" /\ pc' = "decide"
  /\ deduped' = Dedupe(ParetoFilter(offered))
  /\ LET combos == Combinations(deduped')
     IN \E combo \in combos : IsBest(combo, deduped', combos) /\ frontier' = combo
  /\ UNCHANGED <<valid, rejected, offered, outcome, selected>>

\* POST /arbiter/decide: an index into the frontier, a synthesis, or neither.
Choose(i) ==
  /\ pc = "decide" /\ pc' = "end"
  /\ outcome' = "chosen" /\ selected' = {valid[i]}
  /\ UNCHANGED <<valid, rejected, offered, deduped, frontier>>

Synthesize(c) ==
  /\ pc = "decide" /\ pc' = "end"
  /\ IF Feasible(c)
     THEN outcome' = "synthesized" /\ selected' = {c}
     ELSE outcome' = "rejected" /\ selected' = {}
  /\ UNCHANGED <<valid, rejected, offered, deduped, frontier>>

Reject ==
  /\ pc = "decide" /\ pc' = "end" /\ outcome' = "rejected"
  /\ UNCHANGED <<valid, rejected, offered, deduped, frontier, selected>>

Next ==
  \/ \E c \in Candidates : Builder(c)
  \/ InvalidBuilder \/ ClientFails \/ Gate \/ BuildFrontier \/ Reject
  \/ \E i \in frontier : Choose(i)
  \/ \E c \in Candidates : Synthesize(c)

Spec == Init /\ [][Next]_vars

-------------------------------------------------------------------------------
TypeOK ==
  /\ pc \in {"generate", "gate", "build", "decide", "end", "failed"}
  /\ valid \in Seq(Candidates) /\ rejected \in 0..Roles
  /\ offered \subseteq DOMAIN valid /\ deduped \subseteq offered
  /\ frontier \subseteq deduped
  /\ outcome \in {"none", "chosen", "synthesized", "rejected"}
  /\ selected \subseteq Candidates /\ Cardinality(selected) <= 1

(* Pruning loses nothing for good: every candidate offered, or one that    *)
(* dominates it, is in the list or nearly a duplicate of one that is, and  *)
(* the list itself has neither dominated nor duplicate members             *)
(* (frontier.py:37, 51).                                                   *)
PruningRight ==
  LET survives(c) == \E j \in deduped : c = valid[j] \/ NearDuplicate(c, valid[j])
  IN pc \in {"decide", "end"} =>
       /\ \A i \in offered :
            survives(valid[i]) \/ \E k \in offered : /\ Dominates(valid[k], valid[i])
                                                     /\ survives(valid[k])
       /\ \A i, j \in deduped :
            i # j => ~Dominates(valid[i], valid[j]) /\ ~NearDuplicate(valid[i], valid[j])

(* The frontier covers the pruned list as well as any choice of as many    *)
(* members does (frontier.py:67).                                          *)
MedoidsRight ==
  pc \in {"decide", "end"} =>
    /\ Cardinality(frontier) = Min({Cardinality(deduped), MaxMedoids})
    /\ \A other \in SUBSET deduped :
         other # {} /\ Cardinality(other) <= MaxMedoids
           => Score(deduped, frontier) >= Score(deduped, other)

(* What the arbiter selects passes every check, and if nobody synthesized  *)
(* it, no feasible candidate dominates it (arbiter.py:50-75).              *)
SelectionRight ==
  \A c \in selected :
    /\ Feasible(c)
    /\ outcome = "chosen" =>
         \E i \in frontier : /\ c = valid[i]
                             /\ ~\E j \in offered \ {i} : Dominates(valid[j], c)

(* Every builder's candidate is either offered or reported as rejected     *)
(* (main.py:663-679).                                                      *)
AllReported ==
  pc \notin {"generate", "gate", "failed"} => Cardinality(offered) + rejected = Roles
================================================================================
