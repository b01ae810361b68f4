------------------------ MODULE DecisionPipelineProofs ------------------------
(***************************************************************************)
(* The selection of a candidate and the overlays, for any candidates and   *)
(* objectives, any number of builders and medoids, any thresholds, and any *)
(* overlays, upserts and repositories.  Pruning is about finite lists:     *)
(* what their members add up to is found by removing one after the other,  *)
(* and what could fail fails first for a smallest list.                    *)
(***************************************************************************)
EXTENDS MCConductor, Sequences, FiniteSetTheorems, WellFoundedInduction, TLAPS

-------------------------------------------------------------------------------
(* Finite sets, and sums over them.                                        *)

(* Of some parts of a finite set, one contains none of the others.         *)
Minimal(T, B) == \A U \in B : U \subseteq T => U = T

LEMMA Smallest ==
  ASSUME NEW S, IsFiniteSet(S), NEW B \in SUBSET (SUBSET S), B # {}
  PROVE  \E T \in B : Minimal(T, B)
<1>1. B \subseteq FiniteSubsetsOf(S)
  <2>1. \A T \in SUBSET S : IsFiniteSet(T)
    BY FS_Subset
  <2> QED
    BY <2>1 DEF FiniteSubsetsOf
<1>2. PICK T \in B : \A U \in B : <<U, T>> \notin StrictSubsetOrdering(S)
  BY <1>1, FS_StrictSubsetOrderingWellFounded, WFMin
<1>3. Minimal(T, B)
  BY <1>2 DEF StrictSubsetOrdering, Minimal
<1> QED
  BY <1>3

(* Of some numbers one is the least.                                       *)
LEMMA Lowest ==
  ASSUME NEW T, T \subseteq Nat, T # {}
  PROVE  \E m \in T : \A j \in T : m <= j
<1> DEFINE Less == {p \in Nat \X Nat : p[1] < p[2]}
<1>1. IsWellFoundedOn(Less, Nat)
  <2>1. OpToRel(<, Nat) = Less
    BY DEF OpToRel
  <2> QED
    BY <2>1, NatLessThanWellFounded
<1>2. PICK m \in T : \A j \in T : <<j, m>> \notin Less
  BY <1>1, WFMin
<1>3. \A j \in T : m <= j
  <2>1. TAKE j \in T
  <2>2. j \in Nat /\ m \in Nat /\ <<j, m>> \notin Less
    BY <1>2
  <2>3. ~(j < m)
    BY <2>2
  <2> QED
    BY <2>2, <2>3
<1> QED
  BY <1>3

(* A finite set of numbers has a greatest one.                             *)
LEMMA Greatest ==
  ASSUME NEW T, IsFiniteSet(T), T \subseteq Int, T # {}
  PROVE  \E m \in T : \A x \in T : m >= x
<1> DEFINE Above(t) == {x \in T : x > t}
<1> DEFINE B == {Above(t) : t \in T}
<1>1. B \in SUBSET (SUBSET T) /\ B # {}
  OBVIOUS
<1>2. PICK A \in B : Minimal(A, B)
  BY <1>1, Smallest
<1>3. PICK m \in T : A = Above(m)
  BY <1>2
<1>4. ASSUME NEW x \in T, x > m PROVE FALSE
  <2>0. x \in Int /\ m \in Int
    OBVIOUS
  <2>1. \A y \in T : y > x => y > m
    BY <2>0, <1>4
  <2>2. x \in A /\ x \notin Above(x)
    BY <2>0, <1>3, <1>4
  <2>3. Above(x) \subseteq A
    BY <1>3, <2>1
  <2> QED
    BY <1>2, <2>2, <2>3 DEF Minimal
<1>5. \A x \in T : m >= x
  BY <1>4
<1> QED
  BY <1>5

(* A part of a finite set extends to one of any greater size.              *)
LEMMA Extends ==
  ASSUME NEW S, IsFiniteSet(S), NEW k \in Nat, k <= Cardinality(S),
         NEW P \in SUBSET S, Cardinality(P) <= k
  PROVE  \E U \in SUBSET S : P \subseteq U /\ Cardinality(U) = k
<1> DEFINE B == {R \in SUBSET S : P \subseteq S \ R /\ Cardinality(S \ R) <= k}
<1>1. S \ P \in B
  <2>1. S \ (S \ P) = P
    OBVIOUS
  <2> QED
    BY <2>1
<1>2. PICK R \in B : Minimal(R, B)
  BY <1>1, Smallest
<1> DEFINE U == S \ R
<1>3. U \in SUBSET S /\ P \subseteq U /\ IsFiniteSet(U) /\ Cardinality(U) \in Nat
      /\ Cardinality(U) <= k
  BY <1>2, FS_Subset, FS_CardinalityType
<1>4. ASSUME Cardinality(U) # k PROVE FALSE
  <2>1. U # S
    BY <1>3, <1>4, FS_CardinalityType
  <2>2. PICK x \in S : x \notin U
    BY <1>3, <2>1
  <2>3. Cardinality(U \cup {x}) = Cardinality(U) + 1
    BY <1>3, <2>2, FS_AddElement
  <2>4. S \ (R \ {x}) = U \cup {x}
    BY <2>2
  <2>5. Cardinality(S \ (R \ {x})) <= k
    BY <1>3, <1>4, <2>3, <2>4
  <2>6. R \ {x} \in B
    BY <1>3, <2>4, <2>5
  <2> QED
    BY <1>2, <2>2, <2>6 DEF Minimal
<1> QED
  BY <1>3, <1>4

(* The members of a set, one after the other, and their sum.               *)
Pick(s) == CHOOSE x \in s : TRUE
Rest(s) == s \ {Pick(s)}
Sums(f, g, S) == f = [s \in SUBSET S |-> IF s = {} THEN 0 ELSE g[Pick(s)] + f[Rest(s)]]

(* The member picked is of the set, and the rest is the set without it.    *)
LEMMA PickIs ==
  ASSUME NEW s, s # {} PROVE Pick(s) \in s /\ Rest(s) \subseteq s /\ Rest(s) # s
  BY DEF Pick, Rest

(* A sum at a set is what is picked and the sum of the rest.               *)
LEMMA SumsAt ==
  ASSUME NEW f, NEW g, NEW S, Sums(f, g, S), NEW s \in SUBSET S
  PROVE  f[s] = IF s = {} THEN 0 ELSE g[Pick(s)] + f[Rest(s)]
  BY DEF Sums

(* A sum over a set does not depend on the list that it is a part of.      *)
LEMMA SumsAgree ==
  ASSUME NEW f, NEW h, NEW g, NEW S, NEW T, IsFiniteSet(S), Sums(f, g, S), Sums(h, g, T),
         NEW U \in SUBSET S, U \in SUBSET T
  PROVE  f[U] = h[U]
<1> DEFINE B == {V \in SUBSET U : f[V] # h[V]}
<1>1. SUFFICES ASSUME B # {} PROVE FALSE
  OBVIOUS
<1>2. IsFiniteSet(U)
  BY FS_Subset
<1>3. PICK V \in B : Minimal(V, B)
  BY <1>1, <1>2, Smallest
<1>4. V \in SUBSET S /\ V \in SUBSET T
  OBVIOUS
<1>5. f[V] = (IF V = {} THEN 0 ELSE g[Pick(V)] + f[Rest(V)])
  BY <1>4, SumsAt
<1>6. h[V] = (IF V = {} THEN 0 ELSE g[Pick(V)] + h[Rest(V)])
  BY <1>4, SumsAt
<1>7. V # {}
  BY <1>5, <1>6
<1>8. Rest(V) \in SUBSET U /\ Rest(V) \notin B
  BY <1>3, <1>7, PickIs DEF Minimal
<1> QED
  BY <1>5, <1>6, <1>7, <1>8

(* Every finite set has sums.                                              *)
LEMMA SumsExist ==
  ASSUME NEW S, IsFiniteSet(S), NEW g PROVE \E f : Sums(f, g, S)
<1> DEFINE B == {T \in SUBSET S : ~\E f : Sums(f, g, T)}
<1>1. SUFFICES ASSUME B # {} PROVE FALSE
  OBVIOUS
<1>2. PICK T \in B : Minimal(T, B)
  BY <1>1, Smallest
<1> DEFINE Fn(u) == CHOOSE f : Sums(f, g, u)
<1> DEFINE Val(u) == Fn(u)[u]
<1> DEFINE h == [s \in SUBSET T |-> IF s = {} THEN 0 ELSE g[Pick(s)] + Val(Rest(s))]
<1>3. \A u \in SUBSET T : u # T => Sums(Fn(u), g, u)
  <2> TAKE u \in SUBSET T
  <2> HAVE u # T
  <2>1. u \in SUBSET S /\ u \notin B
    BY <1>2 DEF Minimal
  <2>2. \E f : Sums(f, g, u)
    BY <2>1
  <2> QED
    BY <2>2
<1>4. \A u \in SUBSET T : u # T => h[u] = Val(u)
  <2> TAKE u \in SUBSET T
  <2> HAVE u # T
  <2>1. Sums(Fn(u), g, u)
    BY <1>3
  <2>2. Val(u) = IF u = {} THEN 0 ELSE g[Pick(u)] + Fn(u)[Rest(u)]
    <3> HIDE DEF Fn
    <3> QED
      BY <2>1, SumsAt
  <2>3. CASE u = {}
    BY <2>2, <2>3
  <2>4. CASE u # {}
    <3>1. Rest(u) \in SUBSET u /\ Rest(u) \in SUBSET T /\ Rest(u) # T
      BY <2>4, PickIs
    <3>2. Sums(Fn(Rest(u)), g, Rest(u))
      BY <1>3, <3>1
    <3>3. IsFiniteSet(u)
      BY <1>2, FS_Subset
    <3>4. Fn(u)[Rest(u)] = Fn(Rest(u))[Rest(u)]
      <4> HIDE DEF Fn
      <4> QED
        BY <2>1, <3>1, <3>2, <3>3, SumsAgree
    <3>5. h[u] = g[Pick(u)] + Val(Rest(u))
      BY <2>4
    <3> QED
      BY <2>2, <2>4, <3>4, <3>5
  <2> QED
    BY <2>3, <2>4
<1>5. \A s \in SUBSET T : h[s] = IF s = {} THEN 0 ELSE g[Pick(s)] + h[Rest(s)]
  <2> TAKE s \in SUBSET T
  <2>1. CASE s = {}
    BY <2>1
  <2>2. CASE s # {}
    <3>1. Rest(s) \in SUBSET T /\ Rest(s) # T
      BY <2>2, PickIs
    <3>2. h[s] = g[Pick(s)] + Val(Rest(s))
      BY <2>2
    <3>3. h[Rest(s)] = Val(Rest(s))
      BY <1>4, <3>1
    <3> HIDE DEF h, Val
    <3> QED
      BY <2>2, <3>2, <3>3
  <2> QED
    BY <2>1, <2>2
<1>6. DOMAIN h = SUBSET T
  OBVIOUS
<1>7. h = [s \in SUBSET T |-> IF s = {} THEN 0 ELSE g[Pick(s)] + h[Rest(s)]]
  <2>1. h = [s \in SUBSET T |-> h[s]]
    OBVIOUS
  <2> HIDE DEF h
  <2> QED
    BY <1>5, <2>1
<1>8. Sums(h, g, T)
  <2> HIDE DEF h
  <2> QED
    BY <1>7 DEF Sums
<1> QED
  BY <1>2, <1>8

(* A sum is a number, and grows with what is summed.                       *)
LEMMA SumsGrow ==
  ASSUME NEW S, IsFiniteSet(S), NEW f, NEW h, NEW g, NEW k, Sums(f, g, S), Sums(h, k, S),
         \A x \in S : g[x] \in Int /\ k[x] \in Int /\ g[x] <= k[x]
  PROVE  f[S] \in Int /\ h[S] \in Int /\ f[S] <= h[S]
<1> DEFINE B == {V \in SUBSET S : ~(f[V] \in Int /\ h[V] \in Int /\ f[V] <= h[V])}
<1>1. SUFFICES ASSUME B # {} PROVE FALSE
  OBVIOUS
<1>2. PICK V \in B : Minimal(V, B)
  BY <1>1, Smallest
<1>3. f[V] = (IF V = {} THEN 0 ELSE g[Pick(V)] + f[Rest(V)])
  BY SumsAt
<1>4. h[V] = (IF V = {} THEN 0 ELSE k[Pick(V)] + h[Rest(V)])
  BY SumsAt
<1>5. V # {}
  BY <1>3, <1>4
<1>6. Pick(V) \in S /\ Rest(V) \in SUBSET S /\ Rest(V) \notin B
  BY <1>2, <1>5, PickIs DEF Minimal
<1>7. f[Rest(V)] \in Int /\ h[Rest(V)] \in Int /\ f[Rest(V)] <= h[Rest(V)]
  BY <1>6
<1>8. g[Pick(V)] \in Int /\ k[Pick(V)] \in Int /\ g[Pick(V)] <= k[Pick(V)]
  BY <1>6
<1>9. f[V] \in Int /\ h[V] \in Int /\ f[V] <= h[V]
  BY <1>3, <1>4, <1>5, <1>7, <1>8
<1> QED
  BY <1>9

-------------------------------------------------------------------------------
(* Candidates and lists of them.                                           *)

(* What the cosine and the distance of two candidates are.                 *)
LEMMA Symmetric ==
  ASSUME NEW a \in Answers, NEW b \in Answers
  PROVE  /\ Decision!Cosine(a, b) \in Int
         /\ Decision!Cosine(a, b) = Decision!Cosine(b, a)
         /\ \A o \in Objectives : /\ Decision!Distance(a.obj[o], b.obj[o]) \in Int
                                  /\ Decision!Distance(a.obj[o], b.obj[o])
                                       = Decision!Distance(b.obj[o], a.obj[o])
<1>1. a.feature \in Int /\ b.feature \in Int /\ Aligned \in Int
  BY DecisionAssumption
<1>2. \A o \in Objectives : a.obj[o] \in Int /\ b.obj[o] \in Int
  BY DecisionAssumption
<1>3. \A x, y \in Int : /\ Decision!Distance(x, y) \in Int
                        /\ Decision!Distance(x, y) = Decision!Distance(y, x)
  BY DEF Decision!Distance
<1>4. /\ Decision!Distance(a.feature, b.feature) \in Int
      /\ Decision!Distance(a.feature, b.feature) = Decision!Distance(b.feature, a.feature)
  BY <1>1, <1>3
<1>5. /\ Decision!Cosine(a, b) \in Int
      /\ Decision!Cosine(a, b) = Decision!Cosine(b, a)
  BY <1>1, <1>4 DEF Decision!Cosine
<1> QED
  BY <1>2, <1>3, <1>5

(* The distance of two candidates is the sum over their objectives.        *)
Gaps(a, b) == [o \in Objectives |-> Decision!Distance(a.obj[o], b.obj[o])]

(* The distance of two candidates is such a sum (frontier.py:171).         *)
LEMMA DistanceIs ==
  ASSUME NEW a, NEW b
  PROVE  \E f : Sums(f, Gaps(a, b), Objectives) /\ Decision!ObjectiveL1(a, b) = f[Objectives]
<1> DEFINE Turn(it) == [s \in SUBSET Objectives |->
                          IF s = {} THEN 0
                          ELSE Decision!Distance(a.obj[Pick(s)], b.obj[Pick(s)]) + it[s \ {Pick(s)}]]
<1> DEFINE c == CHOOSE it : it = Turn(it)
<1>1. \A f : Sums(f, Gaps(a, b), Objectives) <=> f = Turn(f)
  <2> TAKE f
  <2>1. \A s \in SUBSET Objectives :
          s # {} => Gaps(a, b)[Pick(s)] = Decision!Distance(a.obj[Pick(s)], b.obj[Pick(s)])
    BY PickIs DEF Gaps
  <2>2. Turn(f) = [s \in SUBSET Objectives |->
                     IF s = {} THEN 0 ELSE Gaps(a, b)[Pick(s)] + f[Rest(s)]]
    BY <2>1 DEF Rest
  <2> QED
    BY <2>2 DEF Sums
<1>2. \E f : f = Turn(f)
  BY <1>1, SumsExist, DecisionAssumption
<1>3. c = Turn(c)
  <2> HIDE DEF Turn
  <2> QED
    BY <1>2
<1>4. Decision!ObjectiveL1(a, b) = c[Objectives]
  BY Zenon DEF Decision!ObjectiveL1, Decision!MapThenSumSet, Decision!MapThenFoldSet, Pick
<1> HIDE DEF c
<1> QED
  BY <1>1, <1>3, <1>4

(* Two candidates are near-duplicates whichever is taken first.            *)
LEMMA NearSymmetric ==
  ASSUME NEW a \in Answers, NEW b \in Answers
  PROVE  Decision!NearDuplicate(a, b) <=> Decision!NearDuplicate(b, a)
<1>1. Gaps(a, b) = Gaps(b, a)
  BY Symmetric DEF Gaps
<1>2. PICK f : Sums(f, Gaps(a, b), Objectives) /\ Decision!ObjectiveL1(a, b) = f[Objectives]
  BY DistanceIs
<1>3. PICK h : Sums(h, Gaps(b, a), Objectives) /\ Decision!ObjectiveL1(b, a) = h[Objectives]
  BY DistanceIs
<1>4. f[Objectives] = h[Objectives]
  <2>1. IsFiniteSet(Objectives)
    BY DecisionAssumption
  <2>2. Sums(h, Gaps(a, b), Objectives)
    BY <1>1, <1>3
  <2> QED
    BY <1>2, <2>1, <2>2, SumsAgree
<1> QED
  BY <1>2, <1>3, <1>4, Symmetric DEF Decision!NearDuplicate

(* Dominance is transitive, and no candidate dominates itself.             *)
LEMMA DominanceOrders ==
  ASSUME NEW a \in Answers, NEW b \in Answers, NEW c \in Answers
  PROVE  /\ Decision!Dominates(a, b) /\ Decision!Dominates(b, c) => Decision!Dominates(a, c)
         /\ ~Decision!Dominates(a, a)
<1>1. \A o \in Objectives : a.obj[o] \in Int /\ b.obj[o] \in Int /\ c.obj[o] \in Int
  BY DecisionAssumption
<1>2. ASSUME Decision!Dominates(a, b), Decision!Dominates(b, c) PROVE Decision!Dominates(a, c)
  <2>1. \A o \in Objectives : a.obj[o] >= b.obj[o] /\ b.obj[o] >= c.obj[o]
    BY <1>2 DEF Decision!Dominates
  <2>2. PICK o \in Objectives : a.obj[o] > b.obj[o]
    BY <1>2 DEF Decision!Dominates
  <2>3. a.obj[o] > c.obj[o]
    BY <1>1, <2>1, <2>2
  <2>4. \A p \in Objectives : a.obj[p] >= c.obj[p]
    BY <1>1, <2>1
  <2> QED
    BY <2>3, <2>4 DEF Decision!Dominates
<1>3. ~Decision!Dominates(a, a)
  BY <1>1 DEF Decision!Dominates
<1> QED
  BY <1>2, <1>3

\* What the operators of the pruning are of a list of candidates v.

ParetoOf(v, list) == {i \in list : ~\E j \in list \ {i} : Decision!Dominates(v[j], v[i])}
Near(v, i, j) == Decision!NearDuplicate(v[i], v[j])

(* The candidates of a list are finitely many positions.                   *)
LEMMA ListsFinite ==
  ASSUME NEW v \in Seq(Answers), NEW list \in SUBSET DOMAIN v
  PROVE  IsFiniteSet(list)
<1>1. DOMAIN v = 1 .. Len(v) /\ Len(v) \in Int /\ 1 \in Int
  OBVIOUS
<1>2. IsFiniteSet(1 .. Len(v))
  BY <1>1, FS_Interval
<1> QED
  BY <1>1, <1>2, FS_Subset

(* For what is dominated there is something that dominates it and is not   *)
(* dominated itself (frontier.py:37): one with the fewest above it.        *)
LEMMA Undominated ==
  ASSUME NEW v \in Seq(Answers), NEW list \in SUBSET DOMAIN v, NEW i \in list,
         i \notin ParetoOf(v, list)
  PROVE  \E k \in ParetoOf(v, list) : Decision!Dominates(v[k], v[i])
<1> DEFINE Above(k) == {j \in list : Decision!Dominates(v[j], v[k])}
<1> DEFINE B == {Above(k) : k \in Above(i)}
<1>1. IsFiniteSet(list)
  BY ListsFinite
<1>2. \A k \in list : v[k] \in Answers
  OBVIOUS
<1>3. Above(i) # {}
  BY DEF ParetoOf
<1>4. B \in SUBSET (SUBSET list) /\ B # {}
  BY <1>3
<1>5. PICK A \in B : Minimal(A, B)
  BY <1>1, <1>4, Smallest
<1>6. PICK k \in Above(i) : A = Above(k)
  BY <1>5
<1>7. ASSUME NEW j \in Above(k) PROVE FALSE
  <2>1. j \in list /\ k \in list /\ Decision!Dominates(v[j], v[k]) /\ Decision!Dominates(v[k], v[i])
    BY <1>6, <1>7
  <2>2. Decision!Dominates(v[j], v[i]) /\ ~Decision!Dominates(v[j], v[j])
    BY <1>2, <2>1, DominanceOrders
  <2>3. Above(j) \subseteq Above(k)
    <3>1. \A m \in list : Decision!Dominates(v[m], v[j]) => Decision!Dominates(v[m], v[k])
      BY <1>2, <2>1, DominanceOrders
    <3> QED
      BY <3>1
  <2>4. Above(j) \in B
    BY <2>1, <2>2
  <2>5. j \in Above(k) /\ j \notin Above(j)
    BY <2>1, <2>2
  <2>6. Above(j) = Above(k)
    <3> HIDE DEF Above, B
    <3> QED
      BY <1>5, <1>6, <2>3, <2>4 DEF Minimal
  <2> QED
    BY <2>5, <2>6
<1>8. k \in ParetoOf(v, list)
  BY <1>6, <1>7 DEF ParetoOf
<1> QED
  BY <1>6, <1>8

\* Dedupe of a list: who is kept, given who is kept before.
KeepsOf(v, list, f) ==
  \A i \in Nat : f[i] <=> i \in list /\ ~\E j \in 1 .. (i - 1) : f[j] /\ Near(v, i, j)

(* There is such a choice: the shortest list without one could be extended *)
(* by its last member.                                                     *)
LEMMA KeepsExist ==
  ASSUME NEW v \in Seq(Answers), NEW list \in SUBSET DOMAIN v
  PROVE  \E f \in [Nat -> BOOLEAN] : KeepsOf(v, list, f)
<1> DEFINE Part(n) == {i \in list : i <= n}
<1> DEFINE B == {n \in Nat : ~\E f \in [Nat -> BOOLEAN] : KeepsOf(v, Part(n), f)}
<1>0. list \subseteq Nat /\ list \subseteq 1 .. Len(v) /\ Len(v) \in Nat
  OBVIOUS
<1>1. B = {}
  <2>1. SUFFICES ASSUME B # {} PROVE FALSE
    OBVIOUS
  <2>2. PICK n \in B : \A m \in B : n <= m
    BY <2>1, Lowest
  <2>3. n # 0
    <3> SUFFICES ASSUME n = 0 PROVE FALSE
      OBVIOUS
    <3>1. Part(0) = {}
      BY <1>0
    <3>2. KeepsOf(v, {}, [i \in Nat |-> FALSE])
      BY DEF KeepsOf
    <3>3. [i \in Nat |-> FALSE] \in [Nat -> BOOLEAN]
      OBVIOUS
    <3> QED
      BY <3>1, <3>2, <3>3
  <2>4. n - 1 \in Nat /\ n - 1 \notin B
    <3>1. n \in Nat
      OBVIOUS
    <3>2. n - 1 \in Nat /\ ~(n <= n - 1)
      BY <2>3, <3>1
    <3> HIDE DEF B
    <3> QED
      BY <2>2, <3>2
  <2>5. PICK f \in [Nat -> BOOLEAN] : KeepsOf(v, Part(n - 1), f)
    BY <2>4
  <2> DEFINE h == [f EXCEPT ![n] = n \in list /\ ~\E j \in 1 .. (n - 1) : f[j] /\ Near(v, n, j)]
  <2>6. h \in [Nat -> BOOLEAN]
    OBVIOUS
  <2>7. \A i \in Nat : i # n => h[i] = f[i]
    OBVIOUS
  <2>8. ASSUME NEW i \in Nat
        PROVE  h[i] <=> i \in Part(n) /\ ~\E j \in 1 .. (i - 1) : h[j] /\ Near(v, i, j)
    <3>1. CASE i = n
      <4>1. n \in Part(n) <=> n \in list
        BY <1>0
      <4>2. \A j \in 1 .. (n - 1) : h[j] = f[j]
        BY <2>7
      <4>3. h[n] = (n \in list /\ ~\E j \in 1 .. (n - 1) : f[j] /\ Near(v, n, j))
        OBVIOUS
      <4> HIDE DEF h, Part
      <4> QED
        BY <3>1, <4>1, <4>2, <4>3
    <3>2. CASE i < n
      <4>1. i \in Part(n) <=> i \in Part(n - 1)
        BY <1>0, <3>2
      <4>2. \A j \in 1 .. (i - 1) : h[j] = f[j]
        BY <2>7, <3>2
      <4>3. h[i] = f[i]
        BY <2>7, <3>2
      <4>4. f[i] <=> i \in Part(n - 1) /\ ~\E j \in 1 .. (i - 1) : f[j] /\ Near(v, i, j)
        BY <2>5 DEF KeepsOf
      <4> HIDE DEF h, Part
      <4> QED
        BY <4>1, <4>2, <4>3, <4>4
    <3>3. CASE i > n
      <4>1. i \notin Part(n) /\ i \notin Part(n - 1)
        BY <1>0, <3>3
      <4>2. ~f[i]
        BY <2>5, <4>1 DEF KeepsOf
      <4>3. h[i] = f[i]
        BY <2>7, <3>3
      <4> HIDE DEF h, Part
      <4> QED
        BY <4>1, <4>2, <4>3
    <3> QED
      BY <2>2, <3>1, <3>2, <3>3
  <2>9. KeepsOf(v, Part(n), h)
    <3> HIDE DEF h, Part
    <3> QED
      BY <2>8 DEF KeepsOf
  <2> QED
    BY <2>2, <2>6, <2>9
<1>2. Part(Len(v)) = list
  BY <1>0
<1> QED
  BY <1>0, <1>1, <1>2

DedupeOf(v, list) ==
  LET kept[i \in Nat] == i \in list /\ ~\E j \in 1 .. (i - 1) : kept[j] /\ Near(v, i, j)
  IN {i \in list : kept[i]}

(* Removing near-duplicates keeps a candidate unless one before it is kept *)
(* that it is nearly a duplicate of (frontier.py:51).                      *)
LEMMA DedupeIs ==
  ASSUME NEW v \in Seq(Answers), NEW list \in SUBSET DOMAIN v
  PROVE  /\ DedupeOf(v, list) \subseteq list
         /\ \A i \in list : i \in DedupeOf(v, list) <=>
              ~\E j \in DedupeOf(v, list) : j < i /\ Near(v, i, j)
<1> DEFINE Turn(f) == [i \in Nat |-> i \in list /\ ~\E j \in 1 .. (i - 1) : f[j] /\ Near(v, i, j)]
<1> DEFINE kept == CHOOSE f : f = Turn(f)
<1>0. list \subseteq Nat \ {0}
  OBVIOUS
<1>1. \E f : f = Turn(f)
  <2>1. PICK f \in [Nat -> BOOLEAN] : KeepsOf(v, list, f)
    BY KeepsExist
  <2>2. \A i \in Nat : f[i] = (i \in list /\ ~\E j \in 1 .. (i - 1) : f[j] /\ Near(v, i, j))
    BY <2>1 DEF KeepsOf
  <2>3. f = [i \in Nat |-> f[i]]
    OBVIOUS
  <2>4. f = Turn(f)
    BY <2>2, <2>3
  <2> QED
    BY <2>4
<1>2. kept = Turn(kept)
  <2> HIDE DEF Turn
  <2> QED
    BY <1>1
<1>3. DedupeOf(v, list) = {i \in list : kept[i]}
  BY Zenon DEF DedupeOf
<1>4. \A i \in list : kept[i] = (i \in list /\ ~\E j \in 1 .. (i - 1) : kept[j] /\ Near(v, i, j))
  <2> HIDE DEF kept
  <2> QED
    BY <1>0, <1>2
<1>5. \A i \in Nat : kept[i] => i \in list
  <2> HIDE DEF kept
  <2> QED
    BY <1>2
<1> HIDE DEF kept
<1>6. \A i \in list : kept[i] <=> ~\E j \in {j \in list : kept[j]} : j < i /\ Near(v, i, j)
  <2> TAKE i \in list
  <2>1. \A j : j \in 1 .. (i - 1) /\ kept[j] <=> j \in list /\ kept[j] /\ j < i
    BY <1>0, <1>5
  <2> QED
    BY <1>4, <2>1
<1> QED
  BY <1>3, <1>6

(* Of all that is offered, the pruned list has something as good, or       *)
(* nearly a duplicate of that, and neither dominated members nor           *)
(* duplicates (frontier.py:37-61).                                         *)
PrunedOf(v, list) == DedupeOf(v, ParetoOf(v, list))
Survives(v, list, i) == \E j \in PrunedOf(v, list) : v[i] = v[j] \/ Near(v, i, j)

(* What pruning leaves out is near to or dominated by what it keeps.       *)
LEMMA PruningKeeps ==
  ASSUME NEW v \in Seq(Answers), NEW list \in SUBSET DOMAIN v
  PROVE  /\ PrunedOf(v, list) \subseteq ParetoOf(v, list)
         /\ \A i \in list : \/ Survives(v, list, i)
                            \/ \E k \in list : /\ Decision!Dominates(v[k], v[i])
                                               /\ Survives(v, list, k)
         /\ \A i, j \in PrunedOf(v, list) :
              i # j => ~Decision!Dominates(v[i], v[j]) /\ ~Near(v, i, j)
<1>1. ParetoOf(v, list) \in SUBSET DOMAIN v /\ ParetoOf(v, list) \subseteq list
  BY DEF ParetoOf
<1>2. /\ PrunedOf(v, list) \subseteq ParetoOf(v, list)
      /\ \A i \in ParetoOf(v, list) : i \in PrunedOf(v, list) <=>
           ~\E j \in PrunedOf(v, list) : j < i /\ Near(v, i, j)
  BY <1>1, DedupeIs DEF PrunedOf
<1>3. \A i \in ParetoOf(v, list) : Survives(v, list, i)
  BY <1>2 DEF Survives
<1>4. ASSUME NEW i \in list
      PROVE  \/ Survives(v, list, i)
             \/ \E k \in list : Decision!Dominates(v[k], v[i]) /\ Survives(v, list, k)
  <2>1. CASE i \in ParetoOf(v, list)
    BY <1>3, <2>1
  <2>2. CASE i \notin ParetoOf(v, list)
    BY <1>1, <1>3, <2>2, Undominated
  <2> QED
    BY <2>1, <2>2
<1>5. ASSUME NEW i \in PrunedOf(v, list), NEW j \in PrunedOf(v, list), i # j
      PROVE  ~Decision!Dominates(v[i], v[j]) /\ ~Near(v, i, j)
  <2>1. i \in ParetoOf(v, list) /\ j \in ParetoOf(v, list)
    BY <1>2
  <2>2. ~Decision!Dominates(v[i], v[j])
    BY <1>5, <2>1 DEF ParetoOf
  <2>3. v[i] \in Answers /\ v[j] \in Answers /\ i \in Nat /\ j \in Nat
    BY <1>1, <2>1
  <2>4. Near(v, i, j) <=> Near(v, j, i)
    BY <2>3, NearSymmetric DEF Near
  <2>5. ~(j < i /\ Near(v, i, j)) /\ ~(i < j /\ Near(v, j, i))
    BY <1>2, <2>1
  <2> QED
    BY <1>5, <2>2, <2>3, <2>4, <2>5
<1> QED
  BY <1>2, <1>4, <1>5

-------------------------------------------------------------------------------
(* The medoids: how well a choice of members covers a list.                *)

Closeness(v, i, combo) == {Decision!Cosine(v[i], v[m]) : m \in combo}
Best(v, combo) == [i \in DOMAIN v |-> Decision!Max(Closeness(v, i, combo))]

ScoreOf(v, list, combo) ==
  Decision!MapThenSumSet(LAMBDA i : Decision!Max(Closeness(v, i, combo)), list)

(* The score is the sum of what is closest to each member (frontier.py:79).*)
LEMMA ScoreIs ==
  ASSUME NEW v \in Seq(Answers), NEW list \in SUBSET DOMAIN v, NEW combo
  PROVE  \E f : Sums(f, Best(v, combo), list) /\ ScoreOf(v, list, combo) = f[list]
<1> DEFINE Turn(it) == [s \in SUBSET list |->
                          IF s = {} THEN 0
                          ELSE Decision!Max(Closeness(v, Pick(s), combo)) + it[s \ {Pick(s)}]]
<1> DEFINE c == CHOOSE it : it = Turn(it)
<1>1. \A f : Sums(f, Best(v, combo), list) <=> f = Turn(f)
  <2> TAKE f
  <2>1. \A s \in SUBSET list :
          s # {} => Best(v, combo)[Pick(s)] = Decision!Max(Closeness(v, Pick(s), combo))
    <3> TAKE s \in SUBSET list
    <3> HAVE s # {}
    <3>1. Pick(s) \in DOMAIN v
      BY PickIs
    <3> QED
      BY <3>1 DEF Best
  <2>2. Turn(f) = [s \in SUBSET list |->
                     IF s = {} THEN 0 ELSE Best(v, combo)[Pick(s)] + f[Rest(s)]]
    BY <2>1 DEF Rest
  <2> QED
    BY <2>2 DEF Sums
<1>2. \E f : f = Turn(f)
  BY <1>1, SumsExist, ListsFinite
<1>3. c = Turn(c)
  <2> HIDE DEF Turn
  <2> QED
    BY <1>2
<1>4. ScoreOf(v, list, combo) = c[list]
  BY Zenon DEF ScoreOf, Decision!MapThenSumSet, Decision!MapThenFoldSet, Pick
<1> HIDE DEF c
<1> QED
  BY <1>1, <1>3, <1>4

(* The greatest of some closenesses is one of them.                        *)
LEMMA BestIs ==
  ASSUME NEW v \in Seq(Answers), NEW i \in DOMAIN v, NEW combo \in SUBSET DOMAIN v, combo # {}
  PROVE  /\ Best(v, combo)[i] \in Int /\ Best(v, combo)[i] \in Closeness(v, i, combo)
         /\ \A x \in Closeness(v, i, combo) : x \in Int /\ Best(v, combo)[i] >= x
<1> DEFINE T == Closeness(v, i, combo)
<1>1. v[i] \in Answers /\ \A m \in combo : v[m] \in Answers
  OBVIOUS
<1>2. T \subseteq Int /\ T # {}
  BY <1>1, Symmetric DEF Closeness
<1>3. IsFiniteSet(T)
  <2> DEFINE f == [m \in combo |-> Decision!Cosine(v[i], v[m])]
  <2>1. f \in Surjection(combo, T)
    BY DEF Surjection, Closeness
  <2>2. IsFiniteSet(combo)
    BY ListsFinite
  <2> HIDE DEF f, T
  <2> QED
    BY <2>1, <2>2, FS_Surjection
<1>4. \E x \in T : \A y \in T : x >= y
  <2> HIDE DEF T
  <2> QED
    BY <1>2, <1>3, Greatest
<1>5. Decision!Max(T) \in T /\ \A y \in T : Decision!Max(T) >= y
  <2> HIDE DEF T
  <2> QED
    BY <1>4 DEF Decision!Max
<1>6. Best(v, combo)[i] = Decision!Max(T)
  BY DEF Best
<1> QED
  BY <1>2, <1>5, <1>6

(* A choice of more members covers a list at least as well.                *)
LEMMA ScoreGrows ==
  ASSUME NEW v \in Seq(Answers), NEW list \in SUBSET DOMAIN v, NEW less, NEW more,
         less \subseteq more, more \subseteq list, less # {}
  PROVE  /\ ScoreOf(v, list, less) \in Int /\ ScoreOf(v, list, more) \in Int
         /\ ScoreOf(v, list, less) <= ScoreOf(v, list, more)
<1>1. PICK f : Sums(f, Best(v, less), list) /\ ScoreOf(v, list, less) = f[list]
  BY ScoreIs
<1>2. PICK h : Sums(h, Best(v, more), list) /\ ScoreOf(v, list, more) = h[list]
  BY ScoreIs
<1>3. less \in SUBSET DOMAIN v /\ more \in SUBSET DOMAIN v /\ more # {}
  OBVIOUS
<1>4. ASSUME NEW i \in list
      PROVE  /\ Best(v, less)[i] \in Int /\ Best(v, more)[i] \in Int
             /\ Best(v, less)[i] <= Best(v, more)[i]
  <2>1. i \in DOMAIN v
    OBVIOUS
  <2>2. Best(v, less)[i] \in Closeness(v, i, less) /\ Best(v, less)[i] \in Int
    BY <1>3, <2>1, BestIs
  <2>3. Best(v, less)[i] \in Closeness(v, i, more)
    BY <2>2 DEF Closeness
  <2>4. Best(v, more)[i] \in Int /\ Best(v, more)[i] >= Best(v, less)[i]
    BY <1>3, <2>1, <2>3, BestIs
  <2> QED
    BY <2>2, <2>4
<1>5. IsFiniteSet(list)
  BY ListsFinite
<1>6. f[list] \in Int /\ h[list] \in Int /\ f[list] <= h[list]
  BY <1>1, <1>2, <1>4, <1>5, SumsGrow
<1> QED
  BY <1>1, <1>2, <1>6

(* A choice that was tried and found the best.                             *)
BestOf(v, list, combo) ==
  \A other \in Decision!Combinations(list) \ {combo} :
    \/ ScoreOf(v, list, combo) > ScoreOf(v, list, other)
    \/ ScoreOf(v, list, combo) = ScoreOf(v, list, other) /\ Decision!TriedBefore(combo, other)

(* Sizes are those of FiniteSets.                                          *)
LEMMA SameCardinality == \A S : Decision!Cardinality(S) = Cardinality(S)
  BY DEF Decision!Cardinality, Cardinality

(* The medoids cover the list as well as any choice of no more members,    *)
(* although only those of one size were tried: others can be extended      *)
(* (frontier.py:67).                                                       *)
LEMMA MedoidsBest ==
  ASSUME NEW v \in Seq(Answers), NEW list \in SUBSET DOMAIN v,
         NEW combo \in Decision!Combinations(list), BestOf(v, list, combo)
  PROVE  /\ combo \subseteq list
         /\ Cardinality(combo) = Decision!Min({Cardinality(list), MaxMedoids})
         /\ \A other \in SUBSET list :
              other # {} /\ Cardinality(other) <= MaxMedoids
                => ScoreOf(v, list, combo) >= ScoreOf(v, list, other)
<1>1. IsFiniteSet(list) /\ Cardinality(list) \in Nat /\ MaxMedoids \in Nat \ {0}
  BY ListsFinite, FS_CardinalityType, DecisionAssumption
<1>2. \A a, b \in Int : Decision!Min({a, b}) = IF a <= b THEN a ELSE b
  <2> TAKE a, b \in Int
  <2>1. \E x \in {a, b} : \A y \in {a, b} : x <= y
    OBVIOUS
  <2>2. Decision!Min({a, b}) \in {a, b} /\ \A y \in {a, b} : Decision!Min({a, b}) <= y
    BY <2>1 DEF Decision!Min
  <2> QED
    BY <2>2
<1>3. CASE Cardinality(list) <= MaxMedoids
  <2>1. combo = list
    BY <1>3, SameCardinality DEF Decision!Combinations
  <2>2. ASSUME NEW other \in SUBSET list, other # {}
        PROVE  ScoreOf(v, list, combo) >= ScoreOf(v, list, other)
    <3>1. /\ ScoreOf(v, list, other) \in Int /\ ScoreOf(v, list, list) \in Int
          /\ ScoreOf(v, list, other) <= ScoreOf(v, list, list)
      BY <2>2, ScoreGrows
    <3> QED
      BY <2>1, <3>1
  <2>3. Decision!Min({Cardinality(list), MaxMedoids}) = Cardinality(list)
    BY <1>1, <1>2, <1>3
  <2> QED
    BY <2>1, <2>2, <2>3
<1>4. CASE ~(Cardinality(list) <= MaxMedoids)
  <2>1. \A U : U \in Decision!Combinations(list) <=>
                 U \in SUBSET list /\ Cardinality(U) = MaxMedoids
    BY <1>4, SameCardinality DEF Decision!Combinations, Decision!kSubset
  <2>2. combo \in SUBSET list /\ Cardinality(combo) = MaxMedoids
    BY <2>1
  <2>3. combo # {}
    BY <1>1, <2>2, FS_EmptySet
  <2>4. \A U \in SUBSET list : U # {} => ScoreOf(v, list, U) \in Int
    BY ScoreGrows
  <2>5. ASSUME NEW other \in SUBSET list, other # {}, Cardinality(other) <= MaxMedoids
        PROVE  ScoreOf(v, list, combo) >= ScoreOf(v, list, other)
    <3>1. PICK U \in SUBSET list : other \subseteq U /\ Cardinality(U) = MaxMedoids
      BY <1>1, <1>4, <2>5, Extends
    <3>2. U # {} /\ U \in Decision!Combinations(list)
      BY <2>1, <2>5, <3>1
    <3>3. ScoreOf(v, list, combo) >= ScoreOf(v, list, U)
      <4>1. CASE U = combo
        BY <2>2, <2>3, <2>4, <4>1
      <4>2. CASE U # combo
        BY <2>2, <2>3, <2>4, <3>2, <4>2 DEF BestOf
      <4> QED
        BY <4>1, <4>2
    <3>4. ScoreOf(v, list, other) <= ScoreOf(v, list, U)
      BY <2>5, <3>1, ScoreGrows
    <3> QED
      BY <2>2, <2>3, <2>4, <2>5, <3>2, <3>3, <3>4
  <2>6. Decision!Min({Cardinality(list), MaxMedoids}) = MaxMedoids
    BY <1>1, <1>2, <1>4
  <2> QED
    BY <2>2, <2>5, <2>6
<1> QED
  BY <1>3, <1>4

-------------------------------------------------------------------------------
(* The selection of a candidate: the inductive invariant.                  *)

\* Every builder is counted once, and after the gate every candidate.
Counted ==
  /\ phase = "generate" => Len(valid) + rejected < Builders
  /\ phase = "gate" => Len(valid) + rejected = Builders
  /\ Decision!AllReported

\* How far the lists have come.
Listed ==
  /\ phase \in {"generate", "gate"} => offered = {}
  /\ phase \in {"generate", "gate", "build"} => deduped = {} /\ frontier = {}
  /\ \A i \in offered : Decision!Feasible(valid[i])

\* What has been pruned, and chosen of that.
Pruned ==
  phase \in {"decide", "end"} =>
    /\ deduped = PrunedOf(valid, offered)
    /\ frontier \in Decision!Combinations(deduped) /\ BestOf(valid, deduped, frontier)

Unselected == phase # "end" => outcome = "none" /\ selected = {}

DecisionInv ==
  Decision!TypeOK /\ Counted /\ Listed /\ Pruned /\ Unselected /\ Decision!SelectionRight

(* The operators of the module are those of the lists above.               *)
LEMMA PruneIs ==
  ASSUME NEW list
  PROVE  Decision!Dedupe(Decision!ParetoFilter(list)) = PrunedOf(valid, list)
  BY Zenon DEF Decision!Dedupe, Decision!ParetoFilter, PrunedOf, DedupeOf, ParetoOf, Near

(* The score of a choice of medoids (frontier.py:79).                      *)
LEMMA ScoreIsOf ==
  ASSUME NEW list, NEW combo
  PROVE  Decision!Score(list, combo) = ScoreOf(valid, list, combo)
  BY Zenon DEF Decision!Score, ScoreOf, Closeness

(* The choices of medoids that nothing beats (frontier.py:67).             *)
LEMMA BestIsOf ==
  ASSUME NEW list, NEW combo, Decision!IsBest(combo, list, Decision!Combinations(list))
  PROVE  BestOf(valid, list, combo)
  BY ScoreIsOf DEF Decision!IsBest, BestOf

(* What the invariant says of the properties.                              *)
LEMMA DecisionRight ==
  DecisionInv => /\ Decision!TypeOK /\ Decision!PruningRight /\ Decision!MedoidsRight
                 /\ Decision!SelectionRight /\ Decision!AllReported
<1> SUFFICES ASSUME DecisionInv
             PROVE  Decision!PruningRight /\ Decision!MedoidsRight
  BY DEF DecisionInv, Counted
<1>1. valid \in Seq(Answers) /\ offered \in SUBSET DOMAIN valid
  BY DEF DecisionInv, Decision!TypeOK
<1> SUFFICES ASSUME phase \in {"decide", "end"}
             PROVE  Decision!PruningRight /\ Decision!MedoidsRight
  BY DEF Decision!PruningRight, Decision!MedoidsRight
<1>2. /\ deduped = PrunedOf(valid, offered)
      /\ frontier \in Decision!Combinations(deduped) /\ BestOf(valid, deduped, frontier)
  BY DEF DecisionInv, Pruned
<1>3. Decision!PruningRight
  <2>1. /\ \A i \in offered :
             \/ Survives(valid, offered, i)
             \/ \E k \in offered : /\ Decision!Dominates(valid[k], valid[i])
                                   /\ Survives(valid, offered, k)
        /\ \A i, j \in PrunedOf(valid, offered) :
             i # j => ~Decision!Dominates(valid[i], valid[j]) /\ ~Near(valid, i, j)
    BY <1>1, PruningKeeps
  <2>2. \A i : Survives(valid, offered, i) <=>
          \E j \in deduped : valid[i] = valid[j] \/ Decision!NearDuplicate(valid[i], valid[j])
    BY <1>2 DEF Survives, Near
  <2> QED
    BY <1>2, <2>1, <2>2 DEF Decision!PruningRight, Near
<1>4. Decision!MedoidsRight
  <2>1. deduped \in SUBSET DOMAIN valid
    BY <1>1, <1>2, PruningKeeps DEF ParetoOf
  <2>2. /\ Cardinality(frontier) = Decision!Min({Cardinality(deduped), MaxMedoids})
        /\ \A other \in SUBSET deduped :
             other # {} /\ Cardinality(other) <= MaxMedoids
               => ScoreOf(valid, deduped, frontier) >= ScoreOf(valid, deduped, other)
    BY <1>1, <1>2, <2>1, MedoidsBest
  <2> QED
    BY <2>2, ScoreIsOf, SameCardinality DEF Decision!MedoidsRight
<1> QED
  BY <1>3, <1>4

(* The invariant holds initially.                                          *)
LEMMA DecisionInit == Decision!Init => DecisionInv
<1> SUFFICES ASSUME Decision!Init PROVE DecisionInv
  OBVIOUS
<1>1. Decision!Cardinality(selected) = 0
  BY SameCardinality, FS_EmptySet DEF Decision!Init
<1>2. Decision!TypeOK
  BY <1>1, DecisionAssumption DEF Decision!Init, Decision!TypeOK
<1>3. Counted
  BY DecisionAssumption DEF Decision!Init, Counted, Decision!AllReported
<1> QED
  BY <1>2, <1>3 DEF Decision!Init, DecisionInv, Listed, Pruned, Unselected, Decision!SelectionRight

(* A builder's answer is valid or not, and counted either way.             *)
LEMMA BuilderStep ==
  ASSUME DecisionInv, (\E c \in Answers : Decision!Builder(c)) \/ Decision!InvalidBuilder
  PROVE  DecisionInv'
<1>1. /\ phase = "generate" /\ phase' \in {"generate", "gate"}
      /\ phase' = (IF Len(valid) + rejected + 1 = Builders THEN "gate" ELSE "generate")
      /\ \/ rejected' = rejected /\ \E c \in Answers : valid' = Append(valid, c)
         \/ valid' = valid /\ rejected' = rejected + 1
      /\ UNCHANGED <<offered, deduped, frontier, outcome, selected>>
  BY DEF Decision!Builder, Decision!InvalidBuilder, Decision!Asked
<1>2. /\ valid \in Seq(Answers) /\ rejected \in 0 .. Builders /\ Builders \in Nat
      /\ Len(valid) \in Nat /\ Len(valid) + rejected < Builders
  BY <1>1, DecisionAssumption DEF DecisionInv, Decision!TypeOK, Counted
<1>3. offered = {} /\ deduped = {} /\ frontier = {} /\ outcome = "none" /\ selected = {}
  BY <1>1 DEF DecisionInv, Listed, Unselected
<1>4. valid' \in Seq(Answers) /\ Len(valid') + rejected' = Len(valid) + rejected + 1
      /\ rejected' \in 0 .. Builders
  <2>1. CASE rejected' = rejected /\ \E c \in Answers : valid' = Append(valid, c)
    BY <1>2, <2>1
  <2>2. CASE valid' = valid /\ rejected' = rejected + 1
    BY <1>2, <2>2
  <2> QED
    BY <1>1, <2>1, <2>2
<1>5. Decision!TypeOK'
  BY <1>1, <1>3, <1>4 DEF DecisionInv, Decision!TypeOK
<1>6. Counted'
  BY <1>1, <1>2, <1>4 DEF Counted, Decision!AllReported
<1> QED
  BY <1>1, <1>3, <1>5, <1>6
     DEF DecisionInv, Listed, Pruned, Unselected, Decision!SelectionRight

(* The gate offers what passes, and reports the rest as rejected.          *)
LEMMA GateStep == ASSUME DecisionInv, Decision!Gate PROVE DecisionInv'
<1>1. /\ phase = "gate" /\ phase' = "build"
      /\ offered' = {i \in DOMAIN valid : Decision!Feasible(valid[i])}
      /\ rejected' = rejected + Cardinality(DOMAIN valid \ offered')
      /\ UNCHANGED <<valid, deduped, frontier, outcome, selected>>
  BY SameCardinality DEF Decision!Gate
<1>2. /\ valid \in Seq(Answers) /\ rejected \in 0 .. Builders /\ Builders \in Nat
      /\ Len(valid) \in Nat /\ Len(valid) + rejected = Builders
  BY <1>1, DecisionAssumption DEF DecisionInv, Decision!TypeOK, Counted
<1>3. deduped = {} /\ frontier = {} /\ outcome = "none" /\ selected = {}
  BY <1>1 DEF DecisionInv, Listed, Unselected
<1>4. /\ Cardinality(offered') + Cardinality(DOMAIN valid \ offered') = Len(valid)
      /\ Cardinality(offered') \in Nat /\ Cardinality(DOMAIN valid \ offered') \in Nat
  <2> DEFINE A == offered'
             B == DOMAIN valid \ offered'
  <2>1. A \in SUBSET DOMAIN valid /\ B \in SUBSET DOMAIN valid
    BY <1>1
  <2>2. IsFiniteSet(A) /\ IsFiniteSet(B)
    BY <1>2, <2>1, ListsFinite
  <2>3. Cardinality(A) \in Nat /\ Cardinality(B) \in Nat
    BY <2>2, FS_CardinalityType
  <2>4. A \cup B = DOMAIN valid /\ A \cap B = {}
    BY <2>1
  <2>5. Cardinality(DOMAIN valid) = Cardinality(A) + Cardinality(B) - Cardinality({})
    <3> HIDE DEF A, B
    <3> QED
      BY <2>2, <2>4, FS_Union
  <2>6. DOMAIN valid = 1 .. Len(valid) /\ 1 \in Int /\ Len(valid) \in Int
    BY <1>2
  <2>7. Cardinality(DOMAIN valid) = Len(valid)
    <3>1. Cardinality(1 .. Len(valid)) = IF 1 > Len(valid) THEN 0 ELSE Len(valid) - 1 + 1
      BY <2>6, FS_Interval
    <3> QED
      BY <1>2, <2>6, <3>1
  <2> QED
    BY <2>3, <2>5, <2>7, FS_EmptySet
<1>5. rejected' \in 0 .. Builders /\ Cardinality(offered') + rejected' = Builders
  <2> DEFINE a == Cardinality(offered')
             b == Cardinality(DOMAIN valid \ offered')
  <2>1. a \in Nat /\ b \in Nat /\ a + b = Len(valid)
    BY <1>4
  <2>2. rejected \in Nat /\ rejected' = rejected + b
    BY <1>1, <1>2
  <2> HIDE DEF a, b
  <2>3. rejected' \in 0 .. Builders /\ a + rejected' = Builders
    BY <1>2, <2>1, <2>2
  <2> QED
    BY <2>3 DEF a
<1>6. Decision!TypeOK'
  BY <1>1, <1>3, <1>5 DEF DecisionInv, Decision!TypeOK
<1>7. Counted'
  BY <1>1, <1>5, SameCardinality DEF Counted, Decision!AllReported
<1>8. Listed'
  BY <1>1, <1>3 DEF Listed
<1> QED
  BY <1>1, <1>3, <1>6, <1>7, <1>8 DEF DecisionInv, Pruned, Unselected, Decision!SelectionRight

(* The frontier is what pruning leaves, and the medoids are a best choice. *)
LEMMA FrontierStep == ASSUME DecisionInv, Decision!BuildFrontier PROVE DecisionInv'
<1>1. /\ phase = "build" /\ phase' = "decide" /\ deduped' = PrunedOf(valid, offered)
      /\ UNCHANGED <<valid, rejected, offered, outcome, selected>>
  BY PruneIs DEF Decision!BuildFrontier
<1>2. frontier' \in Decision!Combinations(deduped') /\ BestOf(valid, deduped', frontier')
  BY BestIsOf DEF Decision!BuildFrontier
<1>3. valid \in Seq(Answers) /\ offered \in SUBSET DOMAIN valid
  BY DEF DecisionInv, Decision!TypeOK
<1>4. deduped' \in SUBSET offered
  BY <1>1, <1>3, PruningKeeps DEF ParetoOf
<1>5. frontier' \in SUBSET deduped'
  BY <1>2, <1>3, <1>4, MedoidsBest
<1>6. Decision!TypeOK'
  BY <1>1, <1>4, <1>5 DEF DecisionInv, Decision!TypeOK
<1>7. Counted'
  BY <1>1 DEF DecisionInv, Counted, Decision!AllReported
<1>8. Pruned'
  BY <1>1, <1>2 DEF Pruned
<1>9. Listed' /\ Unselected' /\ Decision!SelectionRight'
  BY <1>1 DEF DecisionInv, Listed, Unselected, Decision!SelectionRight
<1> QED
  BY <1>6, <1>7, <1>8, <1>9 DEF DecisionInv

(* The arbiter's decision.                                                 *)
LEMMA ArbiterStep ==
  ASSUME DecisionInv,
         \/ \E i \in frontier : Decision!Choose(i)
         \/ \E c \in Answers : Decision!Synthesize(c)
         \/ Decision!Reject
  PROVE  DecisionInv'
<1>1. /\ phase = "decide" /\ phase' = "end"
      /\ UNCHANGED <<valid, rejected, offered, deduped, frontier>>
  BY DEF Decision!Choose, Decision!Synthesize, Decision!Reject
<1>2. valid \in Seq(Answers) /\ offered \in SUBSET DOMAIN valid /\ frontier \subseteq deduped
  BY DEF DecisionInv, Decision!TypeOK
<1>3. deduped = PrunedOf(valid, offered)
  BY <1>1 DEF DecisionInv, Pruned
<1>4. selected = {}
  BY <1>1 DEF DecisionInv, Unselected
<1>5. /\ selected' = {} \/ \E c \in Answers : selected' = {c} /\ Decision!Feasible(c)
      /\ outcome' \in {"chosen", "synthesized", "rejected"}
      /\ outcome' = "chosen" =>
           \E i \in frontier : /\ selected' = {valid[i]}
                               /\ \A j \in offered \ {i} : ~Decision!Dominates(valid[j], valid[i])
  <2>1. CASE \E i \in frontier : Decision!Choose(i)
    <3>1. PICK i \in frontier : outcome' = "chosen" /\ selected' = {valid[i]}
      BY <2>1 DEF Decision!Choose
    <3>2. i \in ParetoOf(valid, offered)
      BY <1>2, <1>3, PruningKeeps
    <3>3. i \in offered /\ \A j \in offered \ {i} : ~Decision!Dominates(valid[j], valid[i])
      BY <3>2 DEF ParetoOf
    <3>4. valid[i] \in Answers /\ Decision!Feasible(valid[i])
      BY <1>2, <3>3 DEF DecisionInv, Listed
    <3> QED
      BY <3>1, <3>3, <3>4
  <2>2. CASE \E c \in Answers : Decision!Synthesize(c)
    BY <2>2 DEF Decision!Synthesize
  <2>3. CASE Decision!Reject
    BY <1>4, <2>3 DEF Decision!Reject
  <2> QED
    BY <2>1, <2>2, <2>3
<1>6. selected' \subseteq Answers /\ Decision!Cardinality(selected') <= 1
  <2>1. Cardinality({}) = 0 /\ \A c : Cardinality({c}) = 1
    BY FS_EmptySet, FS_Singleton
  <2>2. CASE selected' = {}
    BY <2>1, <2>2, SameCardinality
  <2>3. CASE \E c \in Answers : selected' = {c}
    <3>1. PICK c \in Answers : selected' = {c}
      BY <2>3
    <3>2. Cardinality(selected') = 1
      BY <2>1, <3>1
    <3> QED
      BY <3>1, <3>2, SameCardinality
  <2> QED
    BY <1>5, <2>2, <2>3
<1>7. Decision!TypeOK'
  BY <1>1, <1>5, <1>6 DEF DecisionInv, Decision!TypeOK
<1>8. Counted'
  BY <1>1 DEF DecisionInv, Counted, Decision!AllReported
<1>9. Pruned' /\ Listed' /\ Unselected'
  BY <1>1 DEF DecisionInv, Pruned, Listed, Unselected
<1>10. Decision!SelectionRight'
  <2>1. Decision!SelectionRight' <=>
          \A c \in selected' :
            /\ Decision!Feasible(c)
            /\ outcome' = "chosen" =>
                 \E i \in frontier' : /\ c = valid'[i]
                                      /\ ~\E j \in offered' \ {i} : Decision!Dominates(valid'[j], c)
    BY DEF Decision!SelectionRight, Decision!Feasible, Decision!Dominates
  <2> QED
    BY <1>1, <1>5, <2>1
<1> QED
  BY <1>7, <1>8, <1>9, <1>10 DEF DecisionInv

(* Every step keeps the invariant.                                         *)
LEMMA DecisionStep == DecisionInv /\ [Decision!Next]_decisionVars => DecisionInv'
<1> SUFFICES ASSUME DecisionInv, [Decision!Next]_decisionVars PROVE DecisionInv'
  OBVIOUS
<1>1. CASE Decision!ClientFails
  BY <1>1 DEF Decision!ClientFails, DecisionInv, Decision!TypeOK, Counted, Decision!AllReported,
              Listed, Pruned, Unselected, Decision!SelectionRight
<1>2. CASE UNCHANGED decisionVars
  BY <1>2 DEF decisionVars, DecisionInv, Decision!TypeOK, Counted, Decision!AllReported,
              Listed, Pruned, Unselected, Decision!SelectionRight
<1> QED
  BY <1>1, <1>2, BuilderStep, GateStep, FrontierStep, ArbiterStep DEF Decision!Next

-------------------------------------------------------------------------------
(* The overlays: the inductive invariant.                                  *)

Askers == Runs \cup {Lone}
Asks == [key : OverlayKeys, tasks : {{}, OverlayTasks}, blank : BOOLEAN]
OverlayRow == [key : OverlayKeys, by : Askers]
MemoryRow == [repo : OverlayRepos, blank : BOOLEAN]

AdviceTyped ==
  /\ asks \in [Askers -> Asks] /\ target \in [Askers -> Nat]
  /\ step \in [Askers -> {"idle", "update", "insert", "done", "failed"}]
  /\ overlayRows \in Seq(OverlayRow) /\ memoryRows \in Seq(MemoryRow)
  /\ answered \in [OverlayKeys -> Askers \cup {"none"}]

\* A row is of the request that wrote it last, and an update of a row there is.
RowsRight ==
  /\ \A i \in DOMAIN overlayRows : overlayRows[i].key = asks[overlayRows[i].by].key
  /\ \A u \in Askers : target[u] # 0 =>
       target[u] \in DOMAIN overlayRows /\ overlayRows[target[u]].key = asks[u].key
  /\ \A u \in Askers : step[u] = "update" => target[u] # 0

\* While the requests for a key do not overlap, it has one row at most, which is
\* of the last of them.
Of(k) == {i \in DOMAIN overlayRows : overlayRows[i].key = k}
KeyRight(k) ==
  /\ \A i, j \in Of(k) : i = j
  /\ \A u, w \in Askers : Advice!Under(u) /\ Advice!Under(w) /\ asks[u].key = k /\ asks[w].key = k
       => u = w
  /\ \A u \in Askers : step[u] = "insert" /\ asks[u].key = k => Of(k) = {}
  /\ \A i \in Of(k) : overlayRows[i].by = answered[k]
  /\ answered[k] # "none" => Of(k) # {}
KeysRight == \A k \in OverlayKeys \ overlapped : KeyRight(k)

\* What the index has of a repository after a refresh.
MemoryOf(ms, r) ==
  {[source |-> "memory", id |-> i, repo |-> r, by |-> "none"] :
     i \in {i \in DOMAIN ms : ms[i].repo = r /\ ~ms[i].blank}}
OverlaysOf(as, rs, r) ==
  {[source |-> "overlay", id |-> i, repo |-> r, by |-> rs[i].by] :
     i \in {i \in DOMAIN rs : OwnerOf(rs[i].key) = r /\ ~as[rs[i].by].blank}}
EntriesOf(as, rs, ms, r) == MemoryOf(ms, r) \cup OverlaysOf(as, rs, r)

IndexRight ==
  /\ \A e \in DOMAIN index : e.source = "memory" =>
       e.id \in DOMAIN memoryRows /\ e.repo = memoryRows[e.id].repo
  /\ \A r \in fresh :
       /\ {e \in DOMAIN index : e.repo = r} = EntriesOf(asks, overlayRows, memoryRows, r)
       /\ \A e \in EntriesOf(asks, overlayRows, memoryRows, r) : index[e] = 1

AdviceInv == AdviceTyped /\ RowsRight /\ KeysRight /\ IndexRight

(* The entries of a refresh are those.                                     *)
LEMMA EntriesAre ==
  ASSUME NEW r PROVE Advice!Entries(r) = EntriesOf(asks, overlayRows, memoryRows, r)
  BY Zenon DEF Advice!Entries, Advice!MemoryEntries, Advice!OverlayEntries, Advice!None,
               EntriesOf, MemoryOf, OverlaysOf

(* The row that an upsert finds for a key, if there is one.                *)
LEMMA RowIs ==
  ASSUME AdviceTyped, NEW k
  PROVE  IF Of(k) = {} THEN Advice!RowOf(k) = 0
         ELSE Advice!RowOf(k) \in Of(k) /\ Advice!RowOf(k) \in Nat \ {0}
<1>1. DOMAIN overlayRows \subseteq Nat \ {0} /\ DOMAIN overlayRows = 1 .. Len(overlayRows)
      /\ Len(overlayRows) \in Nat
  BY DEF AdviceTyped
<1>2. CASE Of(k) = {}
  BY <1>2 DEF Of, Advice!RowOf
<1>3. CASE Of(k) # {}
  <2>1. Of(k) \subseteq Nat
    BY <1>1 DEF Of
  <2>2. PICK m \in Of(k) : \A j \in Of(k) : m <= j
    BY <1>3, <2>1, Lowest
  <2>3. \A j \in 1 .. (m - 1) : overlayRows[j].key # k
    <3> TAKE j \in 1 .. (m - 1)
    <3>1. m \in 1 .. Len(overlayRows)
      BY <1>1 DEF Of
    <3>2. j \in DOMAIN overlayRows /\ ~(m <= j)
      BY <1>1, <3>1
    <3> QED
      BY <2>2, <3>2 DEF Of
  <2>4. \E i \in DOMAIN overlayRows :
          overlayRows[i].key = k /\ \A j \in 1 .. (i - 1) : overlayRows[j].key # k
    BY <2>3 DEF Of
  <2>5. /\ Advice!RowOf(k) \in DOMAIN overlayRows
        /\ overlayRows[Advice!RowOf(k)].key = k
    BY <2>4 DEF Advice!RowOf
  <2> QED
    BY <1>1, <1>3, <2>5 DEF Of
<1> QED
  BY <1>2, <1>3

(* What the invariant says of the properties.                              *)
LEMMA LastResolved == AdviceInv => Advice!LastIsResolved
<1> SUFFICES ASSUME AdviceInv, NEW k \in OverlayKeys \ overlapped, NEW t
             PROVE  Advice!Resolved(k, t) = {u \in Askers : u = answered[k] /\ Advice!Applies(u, t)}
  BY DEF Advice!LastIsResolved, Askers
<1>1. KeyRight(k) /\ AdviceTyped
  BY DEF AdviceInv, KeysRight
<1>2. CASE Of(k) = {}
  <2>1. Advice!Resolved(k, t) = {}
    BY <1>1, <1>2, RowIs DEF Advice!Resolved
  <2>2. answered[k] = "none" /\ "none" \notin Askers
    BY <1>1, <1>2, RunsAssumption, AdviceAssumption DEF KeyRight, Askers
  <2> QED
    BY <2>1, <2>2
<1>3. CASE Of(k) # {}
  <2> DEFINE i == Advice!RowOf(k)
  <2>1. i \in Of(k) /\ i # 0
    BY <1>1, <1>3, RowIs
  <2>2. overlayRows[i].by = answered[k] /\ overlayRows[i].by \in Askers
    <3>1. i \in DOMAIN overlayRows
      BY <2>1 DEF Of
    <3>2. overlayRows[i] \in OverlayRow
      BY <1>1, <3>1 DEF AdviceTyped
    <3> QED
      BY <1>1, <2>1, <3>2 DEF KeyRight, OverlayRow
  <2>3. Advice!Resolved(k, t)
          = IF Advice!Applies(overlayRows[i].by, t) THEN {overlayRows[i].by} ELSE {}
    BY <2>1 DEF Advice!Resolved
  <2> HIDE DEF i
  <2> QED
    BY <2>2, <2>3
<1> QED
  BY <1>2, <1>3

(* Sizes of sets of entries are those of FiniteSets.                       *)
LEMMA SameCount == \A S : Advice!Cardinality(S) = Cardinality(S)
  BY DEF Advice!Cardinality, Cardinality

LEMMA IndexCurrent == AdviceInv => Advice!IndexIsCurrent
<1> SUFFICES ASSUME AdviceInv, NEW r \in fresh
             PROVE  /\ \A i \in {i \in DOMAIN memoryRows :
                                   memoryRows[i].repo = r /\ ~memoryRows[i].blank} :
                         \E e \in DOMAIN index :
                           /\ {f \in DOMAIN index : f.source = "memory" /\ f.id = i} = {e}
                           /\ index[e] = 1
                    /\ \A k \in {k \in OverlayKeys \ overlapped : OwnerOf(k) = r},
                          t \in OverlayTasks \cup {"none"} :
                         LET found == {e \in Advice!Hits(k, t) : e.source = "overlay"}
                             guide == {u \in Advice!Resolved(k, t) : ~asks[u].blank}
                         IN /\ {e.by : e \in found} = guide
                            /\ Cardinality(found) = Cardinality(guide)
                            /\ \A e \in found : index[e] = 1
  BY SameCount DEF Advice!IndexIsCurrent, Advice!None
<1> DEFINE E == EntriesOf(asks, overlayRows, memoryRows, r)
<1>1. /\ \A e \in DOMAIN index : e.source = "memory" =>
           e.id \in DOMAIN memoryRows /\ e.repo = memoryRows[e.id].repo
      /\ {e \in DOMAIN index : e.repo = r} = E
      /\ \A e \in E : index[e] = 1
  BY DEF AdviceInv, IndexRight
<1>2. ASSUME NEW i \in DOMAIN memoryRows, memoryRows[i].repo = r, ~memoryRows[i].blank
      PROVE  \E e \in DOMAIN index :
               /\ {f \in DOMAIN index : f.source = "memory" /\ f.id = i} = {e}
               /\ index[e] = 1
  <2> DEFINE e == [source |-> "memory", id |-> i, repo |-> r, by |-> "none"]
  <2>1. e \in E
    BY <1>2 DEF EntriesOf, MemoryOf
  <2>2. e \in DOMAIN index /\ index[e] = 1
    BY <1>1, <2>1
  <2>3. ASSUME NEW f \in DOMAIN index, f.source = "memory", f.id = i PROVE f = e
    <3>1. f \in E
      BY <1>1, <1>2, <2>3
    <3>2. f \notin OverlaysOf(asks, overlayRows, r)
      BY <2>3 DEF OverlaysOf
    <3> QED
      BY <2>3, <3>1, <3>2 DEF EntriesOf, MemoryOf
  <2>4. e.source = "memory" /\ e.id = i
    OBVIOUS
  <2> HIDE DEF e
  <2> QED
    BY <2>2, <2>3, <2>4
<1>3. ASSUME NEW k \in OverlayKeys \ overlapped, OwnerOf(k) = r, NEW t
      PROVE  LET found == {e \in Advice!Hits(k, t) : e.source = "overlay"}
                 guide == {u \in Advice!Resolved(k, t) : ~asks[u].blank}
             IN /\ {e.by : e \in found} = guide
                /\ Cardinality(found) = Cardinality(guide)
                /\ \A e \in found : index[e] = 1
  <2> DEFINE found == {e \in Advice!Hits(k, t) : e.source = "overlay"}
             guide == {u \in Advice!Resolved(k, t) : ~asks[u].blank}
  <2>0. KeyRight(k) /\ AdviceTyped /\ RowsRight
    BY DEF AdviceInv, KeysRight
  <2>1. found = {e \in OverlaysOf(asks, overlayRows, r) :
                   asks[e.by].key = k /\ Advice!Applies(e.by, t)}
    <3>1. found = {e \in DOMAIN index : /\ e.source = "overlay" /\ e.repo = r
                                        /\ asks[e.by].key = k /\ Advice!Applies(e.by, t)}
      BY <1>3 DEF Advice!Hits, Advice!Relevant, Advice!Key
    <3>2. found = {e \in E : e.source = "overlay" /\ asks[e.by].key = k /\ Advice!Applies(e.by, t)}
      BY <1>1, <3>1
    <3>3. /\ \A e \in MemoryOf(memoryRows, r) : e.source # "overlay"
          /\ \A e \in OverlaysOf(asks, overlayRows, r) : e.source = "overlay"
      BY DEF MemoryOf, OverlaysOf
    <3> HIDE DEF found
    <3> QED
      BY <3>2, <3>3 DEF EntriesOf
  <2>2. \A e \in found : index[e] = 1
    BY <1>1, <2>1 DEF EntriesOf
  <2>3. /\ \A e \in found : /\ e.id \in Of(k)
                            /\ e = [source |-> "overlay", id |-> e.id, repo |-> r,
                                    by |-> overlayRows[e.id].by]
                            /\ ~asks[overlayRows[e.id].by].blank
                            /\ Advice!Applies(overlayRows[e.id].by, t)
        /\ \A i \in Of(k) : ~asks[overlayRows[i].by].blank /\ Advice!Applies(overlayRows[i].by, t)
             => [source |-> "overlay", id |-> i, repo |-> r, by |-> overlayRows[i].by] \in found
    <3>1. ASSUME NEW e \in found
          PROVE  /\ e.id \in Of(k)
                 /\ e = [source |-> "overlay", id |-> e.id, repo |-> r,
                         by |-> overlayRows[e.id].by]
                 /\ ~asks[overlayRows[e.id].by].blank
                 /\ Advice!Applies(overlayRows[e.id].by, t)
      <4>1. PICK i \in DOMAIN overlayRows :
              /\ e = [source |-> "overlay", id |-> i, repo |-> r, by |-> overlayRows[i].by]
              /\ ~asks[overlayRows[i].by].blank
        BY <2>1 DEF OverlaysOf
      <4>2. e.id = i /\ e.by = overlayRows[i].by
        BY <4>1
      <4>3. asks[overlayRows[i].by].key = k /\ Advice!Applies(overlayRows[i].by, t)
        BY <2>1, <4>2
      <4>4. overlayRows[i].key = k
        BY <2>0, <4>3 DEF RowsRight
      <4> HIDE DEF found
      <4> QED
        BY <4>1, <4>2, <4>3, <4>4 DEF Of
    <3>2. ASSUME NEW i \in Of(k), ~asks[overlayRows[i].by].blank,
                 Advice!Applies(overlayRows[i].by, t)
          PROVE  [source |-> "overlay", id |-> i, repo |-> r, by |-> overlayRows[i].by] \in found
      <4> DEFINE e == [source |-> "overlay", id |-> i, repo |-> r, by |-> overlayRows[i].by]
      <4>1. i \in DOMAIN overlayRows /\ overlayRows[i].key = k
        BY DEF Of
      <4>2. asks[overlayRows[i].by].key = k
        BY <2>0, <4>1 DEF RowsRight
      <4>3. e \in OverlaysOf(asks, overlayRows, r)
        BY <1>3, <3>2, <4>1 DEF OverlaysOf
      <4>4. e.by = overlayRows[i].by
        OBVIOUS
      <4> HIDE DEF e
      <4>5. e \in found
        BY <2>1, <3>2, <4>2, <4>3, <4>4
      <4> QED
        BY <4>5 DEF e
    <3> HIDE DEF found
    <3> QED
      BY <3>1, <3>2
  <2>4. CASE Of(k) = {}
    <3>1. Advice!Resolved(k, t) = {}
      BY <2>0, <2>4, RowIs DEF Advice!Resolved
    <3>2. found = {}
      <4> HIDE DEF found
      <4> QED
        BY <2>3, <2>4
    <3> QED
      BY <3>1, <3>2
  <2>5. CASE Of(k) # {}
    <3> DEFINE i == Advice!RowOf(k)
               e == [source |-> "overlay", id |-> i, repo |-> r, by |-> overlayRows[i].by]
    <3>1. i \in Of(k) /\ i # 0 /\ \A j \in Of(k) : j = i
      BY <2>0, <2>5, RowIs DEF KeyRight
    <3>2. guide = IF Advice!Applies(overlayRows[i].by, t) /\ ~asks[overlayRows[i].by].blank
                  THEN {overlayRows[i].by} ELSE {}
      BY <3>1 DEF Advice!Resolved
    <3>3. found = IF Advice!Applies(overlayRows[i].by, t) /\ ~asks[overlayRows[i].by].blank
                  THEN {e} ELSE {}
      <4> HIDE DEF found, i
      <4> QED
        BY <2>3, <3>1
    <3>4. e.by = overlayRows[i].by
      OBVIOUS
    <3> HIDE DEF found, guide, i, e
    <3>5. {f.by : f \in found} = guide /\ Cardinality(found) = Cardinality(guide)
      BY <3>2, <3>3, <3>4, FS_Singleton
    <3> QED
      BY <2>2, <3>5 DEF found, guide
  <2> QED
    BY <2>4, <2>5
<1> QED
  BY <1>2, <1>3

(* The type invariant follows.                                             *)
LEMMA AdviceTypes == AdviceInv => Advice!TypeOK
  BY DEF AdviceInv, AdviceTyped, RowsRight, Advice!TypeOK, Advice!Key, Askers

(* The invariant holds initially.                                          *)
LEMMA AdviceInit == Advice!Init => AdviceInv
<1> SUFFICES ASSUME Advice!Init PROVE AdviceInv
  OBVIOUS
<1>1. overlayRows = <<>> /\ memoryRows = <<>> /\ DOMAIN index = {} /\ fresh = {}
  BY DEF Advice!Init
<1>2. AdviceTyped
  BY <1>1 DEF Advice!Init, Advice!None, AdviceTyped, Askers, Asks
<1>3. RowsRight
  BY <1>1 DEF Advice!Init, RowsRight, Askers
<1>4. KeysRight
  <2>1. \A k : Of(k) = {}
    BY <1>1 DEF Of
  <2>2. \A u \in Askers : step[u] = "idle"
    BY DEF Advice!Init, Askers
  <2>3. \A k \in OverlayKeys : answered[k] = "none"
    BY DEF Advice!Init, Advice!None
  <2> QED
    BY <2>1, <2>2, <2>3 DEF KeysRight, KeyRight, Advice!Under
<1>5. IndexRight
  BY <1>1 DEF IndexRight
<1> QED
  BY <1>2, <1>3, <1>4, <1>5 DEF AdviceInv

(* An upsert looks for the row of its key.                                 *)
LEMMA SelectStep ==
  ASSUME AdviceInv, NEW u \in Askers, Advice!UpsertSelect(u) PROVE AdviceInv'
<1> DEFINE k == asks[u].key
<1>1. /\ step[u] = "idle" /\ target' = [target EXCEPT ![u] = Advice!RowOf(k)]
      /\ step' = [step EXCEPT ![u] = IF Advice!RowOf(k) = 0 THEN "insert" ELSE "update"]
      /\ overlapped \subseteq overlapped'
      /\ (\E w \in Askers : Advice!Under(w) /\ asks[w].key = k) => k \in overlapped'
      /\ UNCHANGED <<asks, overlayRows, memoryRows, index, answered, fresh>>
  BY DEF Advice!UpsertSelect, Advice!Key, Askers
<1>2. AdviceTyped /\ RowsRight /\ KeysRight /\ IndexRight
  BY DEF AdviceInv
<1>3. IF Of(k) = {} THEN Advice!RowOf(k) = 0
      ELSE Advice!RowOf(k) \in Of(k) /\ Advice!RowOf(k) \in Nat \ {0}
  BY <1>2, RowIs
<1>4. Advice!RowOf(k) \in Nat
  BY <1>3
<1>5. AdviceTyped'
  BY <1>1, <1>2, <1>4 DEF AdviceTyped
<1>6. \A w \in Askers \ {u} : target'[w] = target[w] /\ step'[w] = step[w]
  BY <1>1, <1>2 DEF AdviceTyped
<1>7. /\ target'[u] = Advice!RowOf(k)
      /\ step'[u] = IF Advice!RowOf(k) = 0 THEN "insert" ELSE "update"
  BY <1>1, <1>2 DEF AdviceTyped
<1> HIDE DEF k
<1>8. RowsRight'
  <2>1. \A w \in Askers \ {u} :
          /\ target'[w] # 0 =>
               target'[w] \in DOMAIN overlayRows /\ overlayRows[target'[w]].key = asks[w].key
          /\ step'[w] = "update" => target'[w] # 0
    BY <1>2, <1>6 DEF RowsRight
  <2>2. /\ target'[u] # 0 =>
             target'[u] \in DOMAIN overlayRows /\ overlayRows[target'[u]].key = asks[u].key
        /\ step'[u] = "update" => target'[u] # 0
    BY <1>3, <1>7 DEF Of, k
  <2> QED
    BY <1>1, <1>2, <2>1, <2>2 DEF RowsRight
<1>9. KeysRight'
  <2> SUFFICES ASSUME NEW l \in OverlayKeys, l \notin overlapped' PROVE KeyRight(l)'
    BY DEF KeysRight
  <2>1. KeyRight(l)
    BY <1>1, <1>2 DEF KeysRight
  <2>2. Of(l)' = Of(l)
    BY <1>1 DEF Of
  <2>3. \A w \in Askers \ {u} : Advice!Under(w)' = Advice!Under(w)
    BY <1>6 DEF Advice!Under
  <2>4. \A w \in Askers : Advice!Under(w) /\ asks[w].key = l => l # k
    BY <1>1 DEF k
  <2>5. \A w, x \in Askers :
          Advice!Under(w)' /\ Advice!Under(x)' /\ asks[w].key = l /\ asks[x].key = l => w = x
    <3> SUFFICES ASSUME NEW w \in Askers, NEW x \in Askers,
                        Advice!Under(w)', Advice!Under(x)', asks[w].key = l, asks[x].key = l,
                        w # x
                 PROVE  FALSE
      OBVIOUS
    <3>1. CASE w # u /\ x # u
      BY <2>1, <2>3, <3>1 DEF KeyRight
    <3>2. CASE w = u
      BY <2>3, <2>4, <3>2 DEF k
    <3>3. CASE x = u
      BY <2>3, <2>4, <3>3 DEF k
    <3> QED
      BY <3>1, <3>2, <3>3
  <2>6. \A w \in Askers : step'[w] = "insert" /\ asks[w].key = l => Of(l) = {}
    <3> SUFFICES ASSUME NEW w \in Askers, step'[w] = "insert", asks[w].key = l
                 PROVE  Of(l) = {}
      OBVIOUS
    <3>1. CASE w = u
      BY <1>3, <1>7, <3>1 DEF k
    <3>2. CASE w # u
      BY <1>6, <2>1, <3>2 DEF KeyRight
    <3> QED
      BY <3>1, <3>2
  <2> QED
    BY <1>1, <2>1, <2>2, <2>5, <2>6 DEF KeyRight
<1>10. IndexRight'
  BY <1>1, <1>2 DEF IndexRight
<1> QED
  BY <1>5, <1>8, <1>9, <1>10 DEF AdviceInv

(* A write to one repository leaves the entries of another.                *)
LEMMA OtherEntries ==
  ASSUME AdviceTyped, NEW r, NEW u \in Askers, OwnerOf(asks[u].key) # r
  PROVE  /\ OverlaysOf(asks, Append(overlayRows, [key |-> asks[u].key, by |-> u]), r)
              = OverlaysOf(asks, overlayRows, r)
         /\ \A t \in DOMAIN overlayRows : overlayRows[t].key = asks[u].key =>
              OverlaysOf(asks, [overlayRows EXCEPT ![t].by = u], r)
                = OverlaysOf(asks, overlayRows, r)
<1> DEFINE Rows(rs) == {i \in DOMAIN rs : OwnerOf(rs[i].key) = r /\ ~asks[rs[i].by].blank}
<1>0. overlayRows \in Seq(OverlayRow) /\ [key |-> asks[u].key, by |-> u] \in OverlayRow
  BY DEF AdviceTyped, OverlayRow, Asks
<1>1. ASSUME NEW rs, Rows(rs) = Rows(overlayRows),
             \A i \in Rows(overlayRows) : rs[i].by = overlayRows[i].by
      PROVE  OverlaysOf(asks, rs, r) = OverlaysOf(asks, overlayRows, r)
  <2>1. \A ss : OverlaysOf(asks, ss, r)
          = {[source |-> "overlay", id |-> i, repo |-> r, by |-> ss[i].by] : i \in Rows(ss)}
    BY DEF OverlaysOf
  <2> DEFINE Entry(i, b) == [source |-> "overlay", id |-> i, repo |-> r, by |-> b]
  <2>2. /\ OverlaysOf(asks, rs, r) = {Entry(i, rs[i].by) : i \in Rows(rs)}
        /\ OverlaysOf(asks, overlayRows, r) = {Entry(i, overlayRows[i].by) : i \in Rows(overlayRows)}
    BY <2>1
  <2> HIDE DEF Rows, Entry
  <2>3. {Entry(i, rs[i].by) : i \in Rows(rs)} = {Entry(i, overlayRows[i].by) : i \in Rows(overlayRows)}
    BY <1>1
  <2> QED
    BY <2>2, <2>3
<1>2. OverlaysOf(asks, Append(overlayRows, [key |-> asks[u].key, by |-> u]), r)
        = OverlaysOf(asks, overlayRows, r)
  <2> DEFINE rs == Append(overlayRows, [key |-> asks[u].key, by |-> u])
  <2>1. /\ DOMAIN rs = 1 .. (Len(overlayRows) + 1) /\ Len(overlayRows) \in Nat
        /\ DOMAIN overlayRows = 1 .. Len(overlayRows)
        /\ \A i \in DOMAIN overlayRows : rs[i] = overlayRows[i]
        /\ rs[Len(overlayRows) + 1].key = asks[u].key
    BY <1>0
  <2> HIDE DEF rs
  <2>2. Rows(rs) = Rows(overlayRows)
    BY <2>1
  <2>3. \A i \in Rows(overlayRows) : rs[i].by = overlayRows[i].by
    BY <2>1
  <2>4. OverlaysOf(asks, rs, r) = OverlaysOf(asks, overlayRows, r)
    BY <1>1, <2>2, <2>3
  <2> QED
    BY <2>4 DEF rs
<1>3. ASSUME NEW t \in DOMAIN overlayRows, overlayRows[t].key = asks[u].key
      PROVE  OverlaysOf(asks, [overlayRows EXCEPT ![t].by = u], r)
               = OverlaysOf(asks, overlayRows, r)
  <2> DEFINE rs == [overlayRows EXCEPT ![t].by = u]
  <2>1. /\ DOMAIN rs = DOMAIN overlayRows
        /\ \A i \in DOMAIN overlayRows : rs[i].key = overlayRows[i].key
        /\ \A i \in DOMAIN overlayRows \ {t} : rs[i] = overlayRows[i]
    BY <1>0 DEF OverlayRow
  <2> HIDE DEF rs
  <2>2. Rows(rs) = Rows(overlayRows) /\ t \notin Rows(overlayRows)
    BY <1>3, <2>1
  <2>3. \A i \in Rows(overlayRows) : rs[i].by = overlayRows[i].by
    BY <2>1, <2>2
  <2>4. OverlaysOf(asks, rs, r) = OverlaysOf(asks, overlayRows, r)
    BY <1>1, <2>2, <2>3
  <2> QED
    BY <2>4 DEF rs
<1> QED
  BY <1>2, <1>3

(* An upsert writes the row that it found, or a new one.                   *)
LEMMA WriteStep ==
  ASSUME AdviceInv, NEW u \in Askers, Advice!UpsertWrite(u) PROVE AdviceInv'
<1> DEFINE k == asks[u].key
<1>1. /\ Advice!Under(u) /\ step' = [step EXCEPT ![u] = "done"]
      /\ overlayRows' = IF step[u] = "insert" THEN Append(overlayRows, [key |-> k, by |-> u])
                        ELSE [overlayRows EXCEPT ![target[u]].by = u]
      /\ answered' = [answered EXCEPT ![k] = u] /\ fresh' = fresh \ {OwnerOf(k)}
      /\ UNCHANGED <<asks, target, memoryRows, index, overlapped>>
  BY DEF Advice!UpsertWrite, Advice!Key
<1>2. AdviceTyped /\ RowsRight /\ KeysRight /\ IndexRight
  BY DEF AdviceInv
<1>3. /\ overlayRows \in Seq(OverlayRow) /\ asks[u] \in Asks /\ k \in OverlayKeys
      /\ [key |-> k, by |-> u] \in OverlayRow /\ u \in Askers
  BY <1>2 DEF AdviceTyped, OverlayRow, Asks
<1>4. step[u] # "insert" => target[u] \in DOMAIN overlayRows /\ overlayRows[target[u]].key = k
  BY <1>1, <1>2 DEF RowsRight, Advice!Under
<1> DEFINE n == IF step[u] = "insert" THEN Len(overlayRows) + 1 ELSE target[u]
<1> HIDE DEF k
<1>5. /\ overlayRows' \in Seq(OverlayRow) /\ DOMAIN overlayRows' = DOMAIN overlayRows \cup {n}
      /\ overlayRows'[n].key = k /\ overlayRows'[n].by = u
      /\ \A i \in DOMAIN overlayRows \ {n} : overlayRows'[i] = overlayRows[i]
      /\ step[u] = "insert" => n \notin DOMAIN overlayRows
      /\ n \in DOMAIN overlayRows => overlayRows[n].key = k
  <2>1. CASE step[u] = "insert"
    BY <1>1, <1>3, <2>1
  <2>2. CASE step[u] # "insert"
    <3>1. n = target[u] /\ n \in DOMAIN overlayRows /\ overlayRows[n].key = k
      BY <1>4, <2>2
    <3> HIDE DEF n
    <3>2. overlayRows' = [overlayRows EXCEPT ![n] = [overlayRows[n] EXCEPT !.by = u]]
      BY <1>1, <2>2, <3>1
    <3>3. /\ [overlayRows[n] EXCEPT !.by = u] \in OverlayRow
          /\ [overlayRows[n] EXCEPT !.by = u].key = k /\ [overlayRows[n] EXCEPT !.by = u].by = u
      <4>1. overlayRows[n] \in OverlayRow
        BY <1>3, <3>1
      <4> QED
        BY <1>3, <3>1, <4>1 DEF OverlayRow
    <3> DEFINE new == [overlayRows[n] EXCEPT !.by = u]
    <3> HIDE DEF new
    <3>4. overlayRows' = [overlayRows EXCEPT ![n] = new] /\ new \in OverlayRow
          /\ new.key = k /\ new.by = u
      BY <3>2, <3>3 DEF new
    <3>5. overlayRows' \in Seq(OverlayRow)
      BY <1>3, <3>1, <3>4
    <3>6. DOMAIN overlayRows' = DOMAIN overlayRows /\ overlayRows'[n] = new
          /\ \A i \in DOMAIN overlayRows \ {n} : overlayRows'[i] = overlayRows[i]
      BY <3>1, <3>4
    <3> QED
      BY <2>2, <3>1, <3>4, <3>5, <3>6
  <2> QED
    BY <2>1, <2>2
<1> HIDE DEF n
<1>6. AdviceTyped'
  BY <1>1, <1>2, <1>3, <1>5 DEF AdviceTyped
<1>7. \A w \in Askers \ {u} : step'[w] = step[w]
  BY <1>1, <1>2 DEF AdviceTyped
<1>8. step'[u] = "done"
  BY <1>1, <1>2 DEF AdviceTyped
<1>9. RowsRight'
  <2>1. \A i \in DOMAIN overlayRows' : overlayRows'[i].key = asks[overlayRows'[i].by].key
    BY <1>2, <1>5 DEF RowsRight, k
  <2>2. \A w \in Askers : target[w] # 0 =>
          target[w] \in DOMAIN overlayRows' /\ overlayRows'[target[w]].key = asks[w].key
    BY <1>2, <1>5 DEF RowsRight
  <2>3. \A w \in Askers : step'[w] = "update" => target[w] # 0
    BY <1>2, <1>7, <1>8 DEF RowsRight
  <2> QED
    BY <1>1, <2>1, <2>2, <2>3 DEF RowsRight
<1>10. KeysRight'
  <2> SUFFICES ASSUME NEW l \in OverlayKeys, l \notin overlapped PROVE KeyRight(l)'
    BY <1>1 DEF KeysRight
  <2>1. KeyRight(l)
    BY <1>2 DEF KeysRight
  <2>2. \A w \in Askers : Advice!Under(w)' => Advice!Under(w) /\ w # u
    BY <1>7, <1>8 DEF Advice!Under
  <2>3. \A w \in Askers : step'[w] = "insert" => step[w] = "insert" /\ w # u
    BY <1>7, <1>8
  <2>4. CASE l # k
    <3>1. Of(l)' = Of(l) /\ \A i \in Of(l) : overlayRows'[i] = overlayRows[i]
      BY <1>5, <2>4 DEF Of
    <3>2. answered'[l] = answered[l]
      BY <1>1, <1>2, <2>4 DEF AdviceTyped
    <3>3. \A w, x \in Askers :
            Advice!Under(w)' /\ Advice!Under(x)' /\ asks[w].key = l /\ asks[x].key = l => w = x
      BY <2>1, <2>2 DEF KeyRight
    <3>4. \A w \in Askers : step'[w] = "insert" /\ asks[w].key = l => Of(l) = {}
      BY <2>1, <2>3 DEF KeyRight
    <3>5. /\ \A i, j \in Of(l) : i = j
          /\ \A i \in Of(l) : overlayRows'[i].by = answered[l]
          /\ answered[l] # "none" => Of(l) # {}
      BY <2>1, <3>1 DEF KeyRight
    <3>6. asks' = asks
      BY <1>1
    <3> QED
      BY <3>1, <3>2, <3>3, <3>4, <3>5, <3>6 DEF KeyRight
  <2>5. CASE l = k
    <3>1. Of(l)' = {n}
      <4>1. Of(l) \subseteq {n}
        <5>1. CASE step[u] = "insert"
          BY <2>1, <2>5, <5>1 DEF KeyRight, k
        <5>2. CASE step[u] # "insert"
          <6>1. n \in Of(l)
            BY <1>4, <2>5, <5>2 DEF n, Of
          <6> QED
            BY <2>1, <6>1 DEF KeyRight
        <5> QED
          BY <5>1, <5>2
      <4> QED
        BY <1>5, <2>5, <4>1 DEF Of
    <3>2. answered'[l] = u
      BY <1>1, <1>2, <2>5 DEF AdviceTyped
    <3>3. \A w \in Askers : Advice!Under(w)' => asks[w].key # l
      BY <1>1, <2>1, <2>2, <2>5 DEF KeyRight, k
    <3>4. \A w \in Askers : step'[w] = "insert" => asks[w].key # l
      BY <3>3 DEF Advice!Under
    <3>5. \A w \in Askers : ~(Advice!Under(w)' /\ asks'[w].key = l)
                            /\ ~(step'[w] = "insert" /\ asks'[w].key = l)
      BY <1>1, <3>3, <3>4
    <3> QED
      BY <1>5, <3>1, <3>2, <3>5 DEF KeyRight
  <2> QED
    BY <2>4, <2>5
<1>11. IndexRight'
  <2>1. \A r \in fresh' : r \in fresh /\ OwnerOf(k) # r
    BY <1>1
  <2>2. \A r \in fresh' :
          EntriesOf(asks, overlayRows', memoryRows, r) = EntriesOf(asks, overlayRows, memoryRows, r)
    <3> SUFFICES ASSUME NEW r \in fresh'
                 PROVE  OverlaysOf(asks, overlayRows', r) = OverlaysOf(asks, overlayRows, r)
      BY DEF EntriesOf
    <3>1. OwnerOf(asks[u].key) # r
      BY <2>1 DEF k
    <3>2. CASE step[u] = "insert"
      BY <1>1, <1>2, <3>1, <3>2, OtherEntries DEF k
    <3>3. CASE step[u] # "insert"
      BY <1>1, <1>2, <1>4, <3>1, <3>3, OtherEntries DEF k
    <3> QED
      BY <3>2, <3>3
  <2> QED
    BY <1>1, <1>2, <2>1, <2>2 DEF IndexRight
<1> QED
  BY <1>6, <1>9, <1>10, <1>11 DEF AdviceInv

(* An upsert that fails leaves everything.                                 *)
LEMMA FailStep ==
  ASSUME AdviceInv, NEW u \in Askers, Advice!UpsertFails(u) PROVE AdviceInv'
<1>1. /\ step' = [step EXCEPT ![u] = "failed"]
      /\ UNCHANGED <<asks, target, overlayRows, memoryRows, index, overlapped, answered, fresh>>
  BY DEF Advice!UpsertFails
<1>2. AdviceTyped /\ RowsRight /\ KeysRight /\ IndexRight
  BY DEF AdviceInv
<1>3. AdviceTyped'
  BY <1>1, <1>2 DEF AdviceTyped
<1>4. \A w \in Askers : step'[w] = (IF w = u THEN "failed" ELSE step[w])
  BY <1>1, <1>2 DEF AdviceTyped
<1>5. RowsRight'
  BY <1>1, <1>2, <1>4 DEF RowsRight
<1>6. KeysRight'
  <2>1. \A k : Of(k)' = Of(k)
    BY <1>1 DEF Of
  <2>2. \A w \in Askers : /\ Advice!Under(w)' => Advice!Under(w)
                          /\ step'[w] = "insert" => step[w] = "insert"
    BY <1>4 DEF Advice!Under
  <2>3. ASSUME NEW k, KeyRight(k) PROVE KeyRight(k)'
    BY <1>1, <2>1, <2>2, <2>3 DEF KeyRight
  <2> QED
    BY <1>1, <1>2, <2>3 DEF KeysRight
<1>7. IndexRight'
  BY <1>1, <1>2 DEF IndexRight
<1> QED
  BY <1>3, <1>5, <1>6, <1>7 DEF AdviceInv

(* Memory of a repository is written elsewhere.                            *)
LEMMA MemoryStep ==
  ASSUME AdviceInv, NEW r \in OverlayRepos, NEW b \in BOOLEAN, Advice!MemoryWritten(r, b)
  PROVE  AdviceInv'
<1>1. /\ memoryRows' = Append(memoryRows, [repo |-> r, blank |-> b]) /\ fresh' = fresh \ {r}
      /\ UNCHANGED <<asks, step, target, overlayRows, index, overlapped, answered>>
  BY DEF Advice!MemoryWritten
<1>2. AdviceTyped /\ RowsRight /\ KeysRight /\ IndexRight
  BY DEF AdviceInv
<1>3. /\ memoryRows \in Seq(MemoryRow) /\ [repo |-> r, blank |-> b] \in MemoryRow
      /\ Len(memoryRows) \in Nat /\ DOMAIN memoryRows = 1 .. Len(memoryRows)
  BY <1>2 DEF AdviceTyped, MemoryRow
<1>4. /\ memoryRows' \in Seq(MemoryRow) /\ DOMAIN memoryRows' = 1 .. (Len(memoryRows) + 1)
      /\ \A i \in DOMAIN memoryRows : i \in DOMAIN memoryRows' /\ memoryRows'[i] = memoryRows[i]
      /\ memoryRows'[Len(memoryRows) + 1].repo = r
  BY <1>1, <1>3
<1>5. AdviceTyped'
  BY <1>1, <1>2, <1>4 DEF AdviceTyped
<1>6. RowsRight'
  BY <1>1, <1>2 DEF RowsRight
<1>7. KeysRight'
  <2>1. \A k : Of(k)' = Of(k)
    BY <1>1 DEF Of
  <2>2. ASSUME NEW k, KeyRight(k) PROVE KeyRight(k)'
    BY <1>1, <2>1, <2>2 DEF KeyRight, Advice!Under
  <2> QED
    BY <1>1, <1>2, <2>2 DEF KeysRight
<1>8. IndexRight'
  <2>1. \A q \in fresh' : MemoryOf(memoryRows', q) = MemoryOf(memoryRows, q)
    <3> SUFFICES ASSUME NEW q \in fresh'
                 PROVE  MemoryOf(memoryRows', q) = MemoryOf(memoryRows, q)
      OBVIOUS
    <3>1. q # r
      BY <1>1
    <3>2. {i \in DOMAIN memoryRows' : memoryRows'[i].repo = q /\ ~memoryRows'[i].blank}
            = {i \in DOMAIN memoryRows : memoryRows[i].repo = q /\ ~memoryRows[i].blank}
      BY <1>3, <1>4, <3>1
    <3> QED
      BY <3>2 DEF MemoryOf
  <2>2. \A q \in fresh' :
          EntriesOf(asks, overlayRows, memoryRows', q) = EntriesOf(asks, overlayRows, memoryRows, q)
    BY <2>1 DEF EntriesOf
  <2>3. \A e \in DOMAIN index : e.source = "memory" =>
          e.id \in DOMAIN memoryRows' /\ e.repo = memoryRows'[e.id].repo
    BY <1>2, <1>4 DEF IndexRight
  <2> QED
    BY <1>1, <1>2, <2>2, <2>3 DEF IndexRight
<1> QED
  BY <1>5, <1>6, <1>7, <1>8 DEF AdviceInv

(* A refresh makes the entries of one repository what the tables say.      *)
LEMMA RefreshStep ==
  ASSUME AdviceInv, NEW r \in OverlayRepos, Advice!Refresh(r) PROVE AdviceInv'
<1> DEFINE E == EntriesOf(asks, overlayRows, memoryRows, r)
<1>1. /\ index' = [e \in {e \in DOMAIN index : e.repo # r} \cup E |->
                     IF e.repo = r THEN 1 ELSE index[e]]
      /\ fresh' = fresh \cup {r}
      /\ UNCHANGED <<asks, step, target, overlayRows, memoryRows, overlapped, answered>>
  BY EntriesAre DEF Advice!Refresh
<1>2. AdviceTyped /\ RowsRight /\ KeysRight /\ IndexRight
  BY DEF AdviceInv
<1>3. \A q : \A e \in EntriesOf(asks, overlayRows, memoryRows, q) : e.repo = q
  BY DEF EntriesOf, MemoryOf, OverlaysOf
<1>4. \A e \in E : e.source = "memory" =>
        e.id \in DOMAIN memoryRows /\ e.repo = memoryRows[e.id].repo
  BY DEF EntriesOf, MemoryOf, OverlaysOf
<1>5. AdviceTyped' /\ RowsRight'
  BY <1>1, <1>2 DEF AdviceTyped, RowsRight
<1>6. KeysRight'
  <2>1. \A k : Of(k)' = Of(k)
    BY <1>1 DEF Of
  <2>2. ASSUME NEW k, KeyRight(k) PROVE KeyRight(k)'
    BY <1>1, <2>1, <2>2 DEF KeyRight, Advice!Under
  <2> QED
    BY <1>1, <1>2, <2>2 DEF KeysRight
<1> HIDE DEF E
<1>7. IndexRight'
  <2>1. DOMAIN index' = {e \in DOMAIN index : e.repo # r} \cup E
    BY <1>1
  <2>2. \A e \in DOMAIN index' : index'[e] = IF e.repo = r THEN 1 ELSE index[e]
    BY <1>1
  <2>3. \A e \in DOMAIN index' : e.source = "memory" =>
          e.id \in DOMAIN memoryRows /\ e.repo = memoryRows[e.id].repo
    BY <1>2, <1>4, <2>1 DEF IndexRight
  <2>4. {e \in DOMAIN index' : e.repo = r} = E /\ \A e \in E : index'[e] = 1
    BY <1>3, <2>1, <2>2 DEF E
  <2>5. ASSUME NEW q \in fresh, q # r
        PROVE  /\ {e \in DOMAIN index' : e.repo = q} = EntriesOf(asks, overlayRows, memoryRows, q)
               /\ \A e \in EntriesOf(asks, overlayRows, memoryRows, q) : index'[e] = 1
    <3>1. /\ {e \in DOMAIN index : e.repo = q} = EntriesOf(asks, overlayRows, memoryRows, q)
          /\ \A e \in EntriesOf(asks, overlayRows, memoryRows, q) : index[e] = 1
      BY <1>2 DEF IndexRight
    <3>2. \A e \in E : e.repo = r
      BY <1>3 DEF E
    <3>3. {e \in DOMAIN index' : e.repo = q} = {e \in DOMAIN index : e.repo = q}
      BY <2>1, <2>5, <3>2
    <3> QED
      BY <2>2, <2>5, <3>1, <3>3
  <2> QED
    BY <1>1, <2>3, <2>4, <2>5 DEF IndexRight, E
<1> QED
  BY <1>5, <1>6, <1>7 DEF AdviceInv

(* Every step keeps the invariant.                                         *)
LEMMA AdviceStep == AdviceInv /\ [Advice!Next]_adviceVars => AdviceInv'
<1> SUFFICES ASSUME AdviceInv, [Advice!Next]_adviceVars PROVE AdviceInv'
  OBVIOUS
<1>1. CASE \E u \in Askers :
             Advice!UpsertSelect(u) \/ Advice!UpsertWrite(u) \/ Advice!UpsertFails(u)
  BY <1>1, SelectStep, WriteStep, FailStep
<1>2. CASE \E r \in OverlayRepos :
             Advice!Refresh(r) \/ \E b \in BOOLEAN : Advice!MemoryWritten(r, b)
  BY <1>2, RefreshStep, MemoryStep
<1>3. CASE UNCHANGED adviceVars
  <2>1. UNCHANGED <<asks, step, target, overlayRows, memoryRows, index, overlapped, answered, fresh>>
    BY <1>3 DEF adviceVars
  <2>2. AdviceTyped' /\ RowsRight' /\ IndexRight'
    BY <2>1 DEF AdviceInv, AdviceTyped, RowsRight, IndexRight
  <2>3. ASSUME NEW k, KeyRight(k) PROVE KeyRight(k)'
    BY <2>1, <2>3 DEF KeyRight, Advice!Under, Of
  <2>4. KeysRight'
    BY <2>1, <2>3 DEF AdviceInv, KeysRight
  <2> QED
    BY <2>2, <2>4 DEF AdviceInv
<1> QED
  BY <1>1, <1>2, <1>3 DEF Advice!Next, Askers

-------------------------------------------------------------------------------
(* The composition.                                                        *)

DecisionsInv == (part = "decision" => DecisionInv) /\ (part = "advice" => AdviceInv)

(* Either part starts in its invariant.                                    *)
LEMMA DecisionsInit == PartsInit => DecisionsInv
  BY DecisionInit, AdviceInit DEF PartsInit, DecisionsInv

(* Every step of either part keeps its invariant.                          *)
LEMMA DecisionsStep == DecisionsInv /\ [PartsNext]_partVars => DecisionsInv'
<1> SUFFICES ASSUME DecisionsInv, [PartsNext]_partVars PROVE DecisionsInv'
  OBVIOUS
<1>1. part' = part
  BY DEF PartsNext, partVars
<1>2. part = "decision" => [Decision!Next]_decisionVars
  BY DEF PartsNext, partVars
<1>3. part = "advice" => [Advice!Next]_adviceVars
  BY DEF PartsNext, partVars
<1> QED
  BY <1>1, <1>2, <1>3, DecisionStep, AdviceStep DEF DecisionsInv

(* The invariants of both hold in every reachable state.                   *)
THEOREM PartsStrengthening == PartsSpec => []DecisionsInv
  BY DecisionsInit, DecisionsStep, PTL DEF PartsSpec

(* What the arbiter selects passes every check and is dominated by nothing *)
(* that was offered; pruning keeps, of every candidate, itself, one that   *)
(* dominates it or a near-duplicate of those, and the medoids cover what   *)
(* it keeps as well as any choice of no more; builders are guided by the   *)
(* overlay that was stored last, and a refreshed index agrees with it      *)
(* (frontier.py:37-88, arbiter.py:50, overlay_state.py:53,                 *)
(* retrieval.py:132).                                                      *)
THEOREM DecisionsAreRight == PartsSpec => []DecisionsRight
<1>1. DecisionsInv => DecisionsRight
  BY DecisionRight, AdviceTypes, LastResolved, IndexCurrent DEF DecisionsInv, DecisionsRight
<1> QED
  BY <1>1, PartsStrengthening, PTL
===============================================================================
