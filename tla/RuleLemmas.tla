----------------------------- MODULE RuleLemmas -----------------------------
(***************************************************************************)
(* What the rules compute, for inputs of any size: first, sums over finite *)
(* sets, folds over sequences and the sequence that lists a finite set in  *)
(* order; then the eviction planner, as long as its sums stay below 2^64;  *)
(* and the merged list of trackers.                                        *)
(*                                                                         *)
(* A proof by induction is one by least counterexample: the sets (or       *)
(* numbers) of which a formula is false, if there are any, have a least    *)
(* one.                                                                    *)
(***************************************************************************)
EXTENDS EvictionPlan, TrackerRules, FiniteSetTheorems, FunctionTheorems,
        WellFoundedInduction, TLAPS

-----------------------------------------------------------------------------
(* Least counterexamples.                                                  *)

\* T is a least set of the family F: no other of F is within it.
LeastIn(T, F) == T \in F /\ \A U \in F : U \subseteq T => U = T

\* A non-empty family of subsets of a finite set has a least one.
LEMMA LeastSet ==
  ASSUME NEW S, IsFiniteSet(S), NEW F, F \subseteq SUBSET S, F # {}
  PROVE  \E T : LeastIn(T, F)
<1>1. IsWellFoundedOn(StrictSubsetOrdering(S), FiniteSubsetsOf(S))
  BY FS_StrictSubsetOrderingWellFounded
<1>2. F \subseteq FiniteSubsetsOf(S)
  BY FS_FiniteSubsetsOfFinite
<1>3. \E T \in F : \A U \in F : ~ (<<U, T>> \in StrictSubsetOrdering(S))
  BY <1>1, <1>2, WFMin
<1> QED
  BY <1>3 DEF StrictSubsetOrdering, LeastIn

\* A non-empty set of naturals has a least element.
LEMMA LeastNat ==
  ASSUME NEW N \in SUBSET Nat, N # {}
  PROVE  \E n \in N : \A m \in N : n <= m
<1>1. PICK k \in N : TRUE
  OBVIOUS
<1> DEFINE S == 0..k
           F == {T \in SUBSET S : \E n \in N : T = 0..n}
<1>2. IsFiniteSet(S)
  BY <1>1, FS_Interval
<1>3. F \subseteq SUBSET S /\ F # {} /\ \A T \in F : \E n \in N : T = 0..n
  OBVIOUS
<1>4. ASSUME NEW m \in N, m <= k PROVE 0..m \in F
  BY <1>1, <1>4
<1> HIDE DEF S, F
<1>5. PICK T : LeastIn(T, F)
  BY <1>2, <1>3, LeastSet
<1>6. PICK n \in N : T = 0..n
  BY <1>3, <1>5 DEF LeastIn
<1>7. n <= k
  <2>1. n \in S
    BY <1>3, <1>5, <1>6 DEF LeastIn
  <2> QED
    BY <2>1 DEF S
<1>8. ASSUME NEW m \in N, m < n PROVE FALSE
  <2>1. 0..m \in F
    BY <1>1, <1>4, <1>7, <1>8
  <2>2. 0..m \subseteq T /\ n \in T /\ n \notin 0..m
    BY <1>6, <1>8
  <2> QED
    BY <2>1, <2>2, <1>5 DEF LeastIn
<1> QED
  BY <1>8

\* A finite non-empty set of naturals has a greatest element, and Max is it.
LEMMA MaxOf ==
  ASSUME NEW S \in SUBSET Nat, IsFiniteSet(S), S # {}
  PROVE  /\ Max(S) \in S
         /\ \A m \in S : m <= Max(S)
<1> DEFINE Above(n) == {m \in S : n < m}
           F == {Above(n) : n \in S}
<1>1. F \subseteq SUBSET S /\ F # {}
  OBVIOUS
<1> HIDE DEF F
<1>2. PICK T : LeastIn(T, F)
  BY <1>1, LeastSet
<1>3. PICK n \in S : T = Above(n)
  BY <1>2 DEF LeastIn, F
<1>4. ASSUME NEW m \in S, n < m PROVE FALSE
  <2>1. Above(m) \in F
    BY DEF F
  <2>2. \A x \in S : x \in Nat
    OBVIOUS
  <2>3. \A x \in S : m < x => n < x
    BY <1>4, <2>2
  <2>4. Above(m) \subseteq Above(n)
    BY <2>3
  <2>5. m \in Above(n) /\ ~(m < m)
    BY <1>4, <2>2
  <2> QED
    BY <2>1, <2>4, <2>5, <1>2, <1>3 DEF LeastIn
<1>5. \E x \in S : \A y \in S : x >= y
  BY <1>4
<1> QED
  BY <1>5 DEF Max

-----------------------------------------------------------------------------
(* Recursion over the subsets of a finite set.  pick[t] is the element of  *)
(* t that goes first, next[<<a, x>>] the value after x when it was a.      *)

\* What a fold of D computes for each subset of T.
Folded(g, T, A, base, pick, next) ==
    /\ g \in [SUBSET T -> A]
    /\ \A t \in SUBSET T :
         g[t] = IF t = {} THEN base ELSE next[<<g[t \ {pick[t]}], pick[t]>>]

Foldable(D, A, base, pick, next) ==
    /\ IsFiniteSet(D)
    /\ base \in A
    /\ next \in [A \X D -> A]
    /\ \A t \in SUBSET D : t # {} => pick[t] \in t

\* Two folds agree wherever both are defined.
LEMMA FoldUnique ==
  ASSUME NEW D, NEW A, NEW base, NEW pick, NEW next,
         Foldable(D, A, base, pick, next),
         NEW T \in SUBSET D, NEW g, Folded(g, T, A, base, pick, next),
         NEW U \in SUBSET D, NEW h, Folded(h, U, A, base, pick, next),
         NEW t, t \subseteq T, t \subseteq U
  PROVE  g[t] = h[t]
<1> DEFINE F == {s \in SUBSET D : s \subseteq T /\ s \subseteq U /\ g[s] # h[s]}
<1>1. F \subseteq SUBSET D
  OBVIOUS
<1>2. SUFFICES ASSUME F # {} PROVE FALSE
  OBVIOUS
<1> HIDE DEF F
<1>3. PICK s : LeastIn(s, F)
  BY <1>1, <1>2, LeastSet DEF Foldable
<1>4. s \in SUBSET D /\ s \subseteq T /\ s \subseteq U /\ g[s] # h[s]
  BY <1>3 DEF LeastIn, F
<1>5. s # {}
  BY <1>4 DEF Folded
<1> DEFINE r == s \ {pick[s]}
<1>6. r \in SUBSET D /\ r \subseteq T /\ r \subseteq U /\ r \subseteq s /\ r # s
  BY <1>4, <1>5 DEF Foldable
<1>7. r \notin F
  BY <1>3, <1>6 DEF LeastIn
<1>8. g[r] = h[r]
  BY <1>6, <1>7 DEF F
<1>9. g[s] = next[<<g[r], pick[s]>>] /\ h[s] = next[<<h[r], pick[s]>>]
  BY <1>4, <1>5 DEF Folded
<1> QED
  BY <1>4, <1>8, <1>9

\* Every foldable set has its fold.
LEMMA FoldExists ==
  ASSUME NEW D, NEW A, NEW base, NEW pick, NEW next,
         Foldable(D, A, base, pick, next)
  PROVE  \E g : Folded(g, D, A, base, pick, next)
<1> DEFINE Has(T) == \E g : Folded(g, T, A, base, pick, next)
           F == {T \in SUBSET D : ~Has(T)}
<1>1. F \subseteq SUBSET D
  OBVIOUS
<1>2. SUFFICES ASSUME F # {} PROVE FALSE
  OBVIOUS
<1> HIDE DEF F
<1>3. PICK T : LeastIn(T, F)
  BY <1>1, <1>2, LeastSet DEF Foldable
<1>4. T \in SUBSET D /\ ~Has(T)
  BY <1>3 DEF LeastIn, F
<1>5. ASSUME NEW t \in SUBSET T, t # T PROVE Has(t)
  BY <1>3, <1>4, <1>5 DEF LeastIn, F
<1> DEFINE Val(t) == (CHOOSE g : Folded(g, t, A, base, pick, next))[t]
           Rest(t) == t \ {pick[t]}
           g == [t \in SUBSET T |->
                   IF t = {} THEN base ELSE next[<<Val(Rest(t)), pick[t]>>]]
<1>6. ASSUME NEW t \in SUBSET T, t # {}
      PROVE  /\ Rest(t) \in SUBSET T /\ Rest(t) # T /\ pick[t] \in D
             /\ Rest(t) \subseteq t
  BY <1>4, <1>6 DEF Foldable
<1>7. ASSUME NEW t \in SUBSET T, t # T
      PROVE  Folded(CHOOSE h : Folded(h, t, A, base, pick, next), t, A, base, pick, next)
  BY <1>5, <1>7
<1>8. ASSUME NEW t \in SUBSET T, t # T PROVE Val(t) \in A
  BY <1>7, <1>8 DEF Folded
<1>9. ASSUME NEW t \in SUBSET T, t # T PROVE Val(t) = g[t]
  <2> DEFINE h == CHOOSE h : Folded(h, t, A, base, pick, next)
             k == CHOOSE k : Folded(k, Rest(t), A, base, pick, next)
  <2>1. Folded(h, t, A, base, pick, next)
    BY <1>7, <1>9
  <2>2. CASE t = {}
    BY <2>1, <2>2 DEF Folded
  <2>3. CASE t # {}
    <3>1. Folded(k, Rest(t), A, base, pick, next)
      BY <1>6, <1>7, <2>3
    <3>2. Rest(t) \in SUBSET D /\ t \in SUBSET D /\ Rest(t) \subseteq t
      BY <1>4, <1>6, <2>3
    <3> HIDE DEF h, k
    <3>3. h[Rest(t)] = k[Rest(t)]
      <4> DEFINE r == Rest(t)
      <4> HIDE DEF r
      <4>1. Folded(k, r, A, base, pick, next) /\ r \in SUBSET D /\ r \subseteq t /\ r \subseteq r
        BY <3>1, <3>2 DEF r
      <4>2. h[r] = k[r]
        BY <4>1, <2>1, <3>2, FoldUnique
      <4> QED
        BY <4>2 DEF r
    <3>4. h[t] = next[<<h[Rest(t)], pick[t]>>]
      BY <2>1, <2>3 DEF Folded
    <3>5. k[Rest(t)] = Val(Rest(t)) /\ h[t] = Val(t)
      BY DEF h, k
    <3> QED
      BY <2>3, <3>3, <3>4, <3>5
  <2> QED
    BY <2>2, <2>3
<1>10. g \in [SUBSET T -> A]
  <2>1. ASSUME NEW t \in SUBSET T, t # {} PROVE next[<<Val(Rest(t)), pick[t]>>] \in A
    <3>1. Val(Rest(t)) \in A /\ pick[t] \in D
      BY <1>6, <1>8, <2>1
    <3> HIDE DEF Val, Rest
    <3> QED
      BY <3>1 DEF Foldable
  <2> HIDE DEF Val, Rest
  <2> QED
    BY <2>1 DEF Foldable
<1>11. ASSUME NEW t \in SUBSET T
       PROVE  g[t] = IF t = {} THEN base ELSE next[<<g[Rest(t)], pick[t]>>]
  <2>1. t # {} => Val(Rest(t)) = g[Rest(t)]
    BY <1>6, <1>9
  <2> HIDE DEF Val, Rest
  <2> QED
    BY <2>1
<1> HIDE DEF g
<1>12. Folded(g, T, A, base, pick, next)
  BY <1>10, <1>11 DEF Folded
<1> QED
  BY <1>4, <1>12

\* h obeys the recursion wherever its values are in A.
Follows(h, T, A, base, pick, next) ==
    /\ h[{}] = base
    /\ \A t \in SUBSET T :
         t # {} /\ h[t \ {pick[t]}] \in A
            => h[t] = next[<<h[t \ {pick[t]}], pick[t]>>]

\* Whatever obeys the recursion where its values are in A is the fold.
LEMMA FoldAgrees ==
  ASSUME NEW D, NEW A, NEW base, NEW pick, NEW next,
         Foldable(D, A, base, pick, next),
         NEW g, Folded(g, D, A, base, pick, next),
         NEW T \in SUBSET D, NEW h, Follows(h, T, A, base, pick, next)
  PROVE  \A t \in SUBSET T : h[t] = g[t]
<1> DEFINE F == {t \in SUBSET T : h[t] # g[t]}
<1>1. F \subseteq SUBSET D
  OBVIOUS
<1>2. SUFFICES ASSUME F # {} PROVE FALSE
  OBVIOUS
<1> HIDE DEF F
<1>3. PICK s : LeastIn(s, F)
  BY <1>1, <1>2, LeastSet DEF Foldable
<1>4. s \in SUBSET T /\ s \in SUBSET D /\ h[s] # g[s]
  BY <1>3 DEF LeastIn, F
<1>5. s # {}
  BY <1>4 DEF Folded, Follows
<1> DEFINE r == s \ {pick[s]}
<1>6. r \in SUBSET T /\ r \in SUBSET D /\ r \subseteq s /\ r # s
  BY <1>4, <1>5 DEF Foldable
<1>7. r \notin F
  BY <1>3, <1>6 DEF LeastIn
<1>8. h[r] = g[r]
  BY <1>6, <1>7 DEF F
<1>9. g[r] \in A /\ g[s] = next[<<g[r], pick[s]>>]
  BY <1>4, <1>5, <1>6 DEF Folded
<1>10. h[s] = next[<<h[r], pick[s]>>]
  BY <1>4, <1>5, <1>8, <1>9 DEF Follows
<1> QED
  BY <1>4, <1>8, <1>9, <1>10

-----------------------------------------------------------------------------
(* Sums of naturals over a finite set.                                     *)

Sum(f, S) == MapThenSumSet(LAMBDA x : f[x], S)

AnyOf(D) == [t \in SUBSET D |-> CHOOSE x \in t : TRUE]
Plus(f, D) == [p \in Nat \X D |-> f[p[2]] + p[1]]

\* What the fold of the sum computes for every subset at once.
LEMMA SumFold ==
  ASSUME NEW D, IsFiniteSet(D), NEW f \in [D -> Nat]
  PROVE  \E g : /\ Folded(g, D, Nat, 0, AnyOf(D), Plus(f, D))
                /\ \A S \in SUBSET D : Sum(f, S) = g[S]
<1> DEFINE pick == AnyOf(D)
           next == Plus(f, D)
<1>1. \A t \in SUBSET D : t # {} => pick[t] \in t /\ pick[t] = CHOOSE x \in t : TRUE
  BY DEF AnyOf
<1>2. \A a \in Nat, x \in D : next[<<a, x>>] = f[x] + a
  BY DEF Plus
<1>3. next \in [Nat \X D -> Nat]
  BY DEF Plus
<1> HIDE DEF pick, next
<1>4. Foldable(D, Nat, 0, pick, next)
  BY <1>1, <1>3 DEF Foldable
<1>5. PICK g : Folded(g, D, Nat, 0, pick, next)
  BY <1>4, FoldExists
<1>6. ASSUME NEW S \in SUBSET D PROVE Sum(f, S) = g[S]
  <2> DEFINE AnyOne(s) == CHOOSE x \in s : TRUE
             Step(h) == [s \in SUBSET S |->
                           IF s = {} THEN 0 ELSE f[AnyOne(s)] + h[s \ {AnyOne(s)}]]
             h == CHOOSE h : h = Step(h)
             w == [s \in SUBSET S |-> g[s]]
  <2>1. Sum(f, S) = h[S]
    BY DEF Sum, MapThenSumSet, MapThenFoldSet
  <2>2. w = Step(w)
    <3>1. ASSUME NEW s \in SUBSET S
          PROVE  g[s] = IF s = {} THEN 0 ELSE f[AnyOne(s)] + w[s \ {AnyOne(s)}]
      <4>1. CASE s = {}
        BY <1>5, <4>1 DEF Folded
      <4>2. CASE s # {}
        <5> DEFINE r == s \ {AnyOne(s)}
        <5>1. pick[s] = AnyOne(s) /\ AnyOne(s) \in D /\ r \in SUBSET S /\ r \in SUBSET D
          BY <1>1, <4>2
        <5>2. g[s] = next[<<g[r], AnyOne(s)>>] /\ g[r] \in Nat
          BY <1>5, <5>1, <4>2 DEF Folded
        <5> QED
          BY <1>2, <5>1, <5>2, <4>2
      <4> QED
        BY <4>1, <4>2
    <3> QED
      BY <3>1
  <2>3. h = Step(h)
    <3> HIDE DEF w, Step
    <3> QED
      BY <2>2
  <2> HIDE DEF h
  <2>4. h[{}] = 0
    BY <2>3
  <2>5. ASSUME NEW t \in SUBSET S, t # {}, h[t \ {pick[t]}] \in Nat
        PROVE  h[t] = next[<<h[t \ {pick[t]}], pick[t]>>]
    <3>1. h[t] = f[AnyOne(t)] + h[t \ {AnyOne(t)}]
      BY <2>3, <2>5
    <3>2. pick[t] = AnyOne(t) /\ pick[t] \in D
      BY <1>1, <2>5
    <3> QED
      BY <1>2, <2>5, <3>1, <3>2
  <2>6. \A t \in SUBSET S : h[t] = g[t]
    <3>1. Follows(h, S, Nat, 0, pick, next)
      BY <2>4, <2>5 DEF Follows
    <3> HIDE DEF AnyOne, Step, w
    <3> QED
      BY <1>4, <1>5, <3>1, FoldAgrees
  <2> QED
    BY <2>1, <2>6
<1> QED
  BY <1>5, <1>6 DEF pick, next

\* The sum over nothing is zero, and any element may be taken out first.
LEMMA SumTake ==
  ASSUME NEW D, IsFiniteSet(D), NEW f \in [D -> Nat]
  PROVE  /\ \A S \in SUBSET D : Sum(f, S) \in Nat
         /\ Sum(f, {}) = 0
         /\ \A S \in SUBSET D : \A x \in S : Sum(f, S) = f[x] + Sum(f, S \ {x})
<1> DEFINE pick == AnyOf(D)
           next == Plus(f, D)
<1>1. PICK g : /\ Folded(g, D, Nat, 0, AnyOf(D), Plus(f, D))
               /\ \A S \in SUBSET D : Sum(f, S) = g[S]
  BY SumFold
<1>2. \A S \in SUBSET D : g[S] \in Nat
  BY <1>1 DEF Folded
<1>3. g[{}] = 0
  BY <1>1 DEF Folded
<1>4. ASSUME NEW S \in SUBSET D, S # {}
      PROVE  \E c \in S : g[S] = f[c] + g[S \ {c}]
  <2>1. AnyOf(D)[S] \in S
    BY <1>4 DEF AnyOf
  <2>2. PICK c \in S : c = AnyOf(D)[S]
    BY <2>1
  <2>3. g[S] = Plus(f, D)[<<g[S \ {c}], c>>]
    BY <1>1, <1>4, <2>2 DEF Folded
  <2>4. S \ {c} \in SUBSET D /\ g[S \ {c}] \in Nat /\ c \in D
    BY <1>2
  <2> QED
    BY <2>3, <2>4 DEF Plus
<1> DEFINE F == {S \in SUBSET D : \E x \in S : g[S] # f[x] + g[S \ {x}]}
<1>5. F \subseteq SUBSET D
  OBVIOUS
<1>6. ASSUME F # {} PROVE FALSE
  <2> HIDE DEF F
  <2>1. PICK S : LeastIn(S, F)
    BY <1>5, <1>6, LeastSet
  <2>2. PICK x \in S : S \in SUBSET D /\ g[S] # f[x] + g[S \ {x}]
    BY <2>1 DEF LeastIn, F
  <2>3. PICK c \in S : g[S] = f[c] + g[S \ {c}]
    BY <1>4, <2>2
  <2>4. c # x
    BY <2>2, <2>3
  <2> DEFINE Sc == S \ {c}
             Sx == S \ {x}
             R == S \ {c, x}
  <2>5. Sc \notin F /\ Sx \notin F
    BY <2>1, <2>2 DEF LeastIn
  <2>6. Sc \in SUBSET D /\ Sx \in SUBSET D /\ R \in SUBSET D /\ x \in Sc /\ c \in Sx
    BY <2>2, <2>4
  <2>7. Sc \ {x} = R /\ Sx \ {c} = R
    OBVIOUS
  <2>8. g[Sc] = f[x] + g[R] /\ g[Sx] = f[c] + g[R]
    <3> HIDE DEF Sc, Sx, R
    <3> QED
      BY <2>5, <2>6, <2>7 DEF F
  <2>9. g[R] \in Nat /\ f[x] \in Nat /\ f[c] \in Nat
    BY <1>2, <2>6
  <2> HIDE DEF R
  <2> QED
    BY <2>2, <2>3, <2>8, <2>9
<1>7. \A S \in SUBSET D : \A x \in S : g[S] = f[x] + g[S \ {x}]
  BY <1>6
<1> QED
  BY <1>1, <1>2, <1>3, <1>7

\* The sum over two disjoint sets.
LEMMA SumSplit ==
  ASSUME NEW D, IsFiniteSet(D), NEW f \in [D -> Nat],
         NEW S \in SUBSET D, NEW R \in SUBSET D, S \cap R = {}
  PROVE  Sum(f, S \cup R) = Sum(f, S) + Sum(f, R)
<1> DEFINE F == {T \in SUBSET S : Sum(f, T \cup R) # Sum(f, T) + Sum(f, R)}
<1>1. F \subseteq SUBSET S /\ IsFiniteSet(S)
  BY FS_Subset
<1>2. SUFFICES ASSUME F # {} PROVE FALSE
  OBVIOUS
<1> HIDE DEF F
<1>3. PICK T : LeastIn(T, F)
  BY <1>1, <1>2, LeastSet
<1>4. T \in SUBSET S /\ T \in SUBSET D /\ Sum(f, T \cup R) # Sum(f, T) + Sum(f, R)
  BY <1>3 DEF LeastIn, F
<1>5. \A U \in SUBSET D : Sum(f, U) \in Nat
  BY SumTake
<1>6. CASE T = {}
  <2>1. {} \cup R = R
    OBVIOUS
  <2> QED
    BY <1>4, <1>5, <1>6, <2>1, SumTake
<1>7. CASE T # {}
  <2>1. PICK x \in T : TRUE
    BY <1>7
  <2> DEFINE U == T \ {x}
             TR == T \cup R
             UR == U \cup R
  <2>2. U \in SUBSET S /\ U \subseteq T /\ U # T
    BY <1>4
  <2>3. Sum(f, UR) = Sum(f, U) + Sum(f, R)
    BY <1>3, <2>2 DEF LeastIn, F
  <2>4. TR \in SUBSET D /\ x \in TR /\ TR \ {x} = UR
    BY <1>4
  <2>5. Sum(f, TR) = f[x] + Sum(f, UR)
    <3> HIDE DEF TR, UR
    <3> QED
      BY <2>4, SumTake
  <2>6. Sum(f, T) = f[x] + Sum(f, U)
    BY <1>4, SumTake
  <2>7. Sum(f, U) \in Nat /\ Sum(f, R) \in Nat /\ f[x] \in Nat
    BY <1>4, <1>5
  <2> QED
    BY <1>4, <2>3, <2>5, <2>6, <2>7
<1> QED
  BY <1>6, <1>7

\* A smaller set has the smaller sum.
LEMMA SumMonotone ==
  ASSUME NEW D, IsFiniteSet(D), NEW f \in [D -> Nat],
         NEW S \in SUBSET D, NEW R \in SUBSET S
  PROVE  Sum(f, S) = Sum(f, R) + Sum(f, S \ R) /\ Sum(f, R) <= Sum(f, S)
<1> DEFINE Q == S \ R
<1>1. Q \in SUBSET D /\ R \in SUBSET D /\ R \cap Q = {} /\ R \cup Q = S
  OBVIOUS
<1>2. Sum(f, R \cup Q) = Sum(f, R) + Sum(f, Q)
  <2> HIDE DEF Q
  <2> QED
    BY <1>1, SumSplit
<1>3. Sum(f, S) \in Nat /\ Sum(f, R) \in Nat /\ Sum(f, Q) \in Nat
  BY <1>1, SumTake
<1> QED
  BY <1>1, <1>2, <1>3

\* Renaming the elements one to one leaves the sum alone.
LEMMA SumRename ==
  ASSUME NEW D, IsFiniteSet(D), NEW f \in [D -> Nat],
         NEW E, IsFiniteSet(E), NEW e \in [E -> Nat], NEW key \in [E -> D],
         \A x, y \in E : key[x] = key[y] => x = y,
         \A x \in E : e[x] = f[key[x]],
         NEW S \in SUBSET E
  PROVE  Sum(e, S) = Sum(f, {key[x] : x \in S})
<1> DEFINE Keys(T) == {key[x] : x \in T}
           F == {T \in SUBSET E : Sum(e, T) # Sum(f, Keys(T))}
<1>1. F \subseteq SUBSET E
  OBVIOUS
<1>2. SUFFICES ASSUME F # {} PROVE FALSE
  OBVIOUS
<1> HIDE DEF F
<1>3. PICK T : LeastIn(T, F)
  BY <1>1, <1>2, LeastSet
<1>4. T \in SUBSET E /\ Sum(e, T) # Sum(f, Keys(T))
  BY <1>3 DEF LeastIn, F
<1>5. CASE T = {}
  <2>1. Keys(T) = {}
    BY <1>5
  <2> QED
    BY <1>4, <1>5, <2>1, SumTake
<1>6. CASE T # {}
  <2>1. PICK x \in T : TRUE
    BY <1>6
  <2> DEFINE U == T \ {x}
             K == Keys(T)
             L == Keys(U)
  <2>2. U \in SUBSET E /\ U \subseteq T /\ U # T
    BY <1>4
  <2>3. Sum(e, U) = Sum(f, L)
    BY <1>3, <2>2 DEF LeastIn, F
  <2>4. K \in SUBSET D /\ key[x] \in K /\ K \ {key[x]} = L
    BY <1>4
  <2>5. Sum(f, K) = f[key[x]] + Sum(f, L)
    <3> HIDE DEF K, L
    <3> QED
      BY <2>4, SumTake
  <2>6. Sum(e, T) = e[x] + Sum(e, U)
    BY <1>4, SumTake
  <2>7. e[x] = f[key[x]]
    BY <1>4
  <2> HIDE DEF U, L
  <2> QED
    BY <1>4, <2>3, <2>5, <2>6, <2>7
<1> QED
  BY <1>5, <1>6

-----------------------------------------------------------------------------
(* Folds over a sequence, from its first element to its last.              *)

Top(n) == [t \in SUBSET (1..n) |-> Max(t)]

\* p[k] is the value after the first k elements.
Runs(p, n, A, base, next) ==
    /\ p \in [0..n -> A]
    /\ p[0] = base
    /\ \A k \in 1..n : p[k] = next[<<p[k - 1], k>>]

\* A fold that goes through the values after each prefix.
ByPrefix(n, A, base, next) ==
    \E g : /\ Folded(g, 1..n, A, base, Top(n), next)
          /\ \E p : Runs(p, n, A, base, next) /\ g[1..n] = p[n]

\* FoldLeft goes through the values after each prefix.
LEMMA PrefixFold ==
  ASSUME NEW n \in Nat, NEW A, NEW base \in A, NEW next \in [A \X (1..n) -> A]
  PROVE  /\ Foldable(1..n, A, base, Top(n), next)
         /\ ByPrefix(n, A, base, next)
<1>1. IsFiniteSet(1..n)
  BY FS_Interval
<1>2. ASSUME NEW t \in SUBSET (1..n), t # {} PROVE Top(n)[t] \in t /\ \A m \in t : m <= Top(n)[t]
  <2>1. IsFiniteSet(t)
    BY <1>1, FS_Subset
  <2> QED
    BY <2>1, <1>2, MaxOf DEF Top
<1>3. Foldable(1..n, A, base, Top(n), next)
  BY <1>1, <1>2 DEF Foldable
<1>4. PICK g : Folded(g, 1..n, A, base, Top(n), next)
  BY <1>3, FoldExists
<1> DEFINE p == [k \in 0..n |-> g[1..k]]
<1>5. ASSUME NEW k \in 1..n
      PROVE  g[1..k] = next[<<g[1..(k - 1)], k>>]
  <2> DEFINE s == 1..k
  <2>1. s \in SUBSET (1..n) /\ s # {} /\ k \in s /\ \A m \in s : m <= k
    OBVIOUS
  <2> HIDE DEF s
  <2>2. Top(n)[s] \in s /\ \A m \in s : m <= Top(n)[s]
    BY <1>2, <2>1
  <2>3. Top(n)[s] = k
    BY <2>1, <2>2
  <2>4. g[s] = next[<<g[s \ {k}], k>>]
    BY <1>4, <2>1, <2>3 DEF Folded
  <2>5. s \ {k} = 1..(k - 1)
    BY DEF s
  <2> QED
    BY <2>4, <2>5 DEF s
<1>6. g[{}] = base
  BY <1>4 DEF Folded
<1>0. 1..0 = {}
  OBVIOUS
<1>7. ASSUME NEW k \in 0..n PROVE g[1..k] \in A
  BY <1>4 DEF Folded
<1>8. Runs(p, n, A, base, next)
  <2>1. p \in [0..n -> A] /\ p[0] = base
    BY <1>0, <1>6, <1>7
  <2>2. ASSUME NEW k \in 1..n PROVE p[k] = next[<<p[k - 1], k>>]
    BY <1>5
  <2> QED
    BY <2>1, <2>2 DEF Runs
<1>9. g[1..n] = p[n]
  OBVIOUS
<1> HIDE DEF p
<1> QED
  BY <1>3, <1>4, <1>8, <1>9 DEF ByPrefix

-----------------------------------------------------------------------------
(* Sorting.                                                                *)

\* R orders S strictly.
Orders(R, S) ==
    /\ \A x \in S : <<x, x>> \notin R
    /\ \A x, y, z \in S : <<x, y>> \in R /\ <<y, z>> \in R => <<x, z>> \in R
    /\ \A x, y \in S : x = y \/ <<x, y>> \in R \/ <<y, x>> \in R

\* s lists the elements of S, each once, in the order of R.
Enumerates(s, S, R) ==
    /\ s \in [1..Cardinality(S) -> S]
    /\ \A x \in S : \E i \in 1..Cardinality(S) : s[i] = x
    /\ \A i, j \in 1..Cardinality(S) : i < j => <<s[i], s[j]>> \in R

\* A finite ordered set that is not empty has a last element.
LEMMA LastOf ==
  ASSUME NEW S, IsFiniteSet(S), S # {}, NEW R, Orders(R, S)
  PROVE  \E m \in S : \A x \in S \ {m} : <<x, m>> \in R
<1> DEFINE After(x) == {y \in S : <<x, y>> \in R}
           F == {After(x) : x \in S}
<1>1. F \subseteq SUBSET S /\ F # {}
  OBVIOUS
<1> HIDE DEF F
<1>2. PICK T : LeastIn(T, F)
  BY <1>1, LeastSet
<1>3. PICK m \in S : T = After(m)
  BY <1>2 DEF LeastIn, F
<1>4. ASSUME NEW x \in S, <<m, x>> \in R PROVE FALSE
  <2>1. After(x) \in F
    BY DEF F
  <2>2. After(x) \subseteq After(m) /\ x \in After(m) /\ x \notin After(x)
    BY <1>4 DEF Orders
  <2> QED
    BY <2>1, <2>2, <1>2, <1>3 DEF LeastIn
<1> QED
  BY <1>4 DEF Orders

\* A finite ordered set can be listed in its order.
LEMMA ListExists ==
  ASSUME NEW S, IsFiniteSet(S), NEW R, Orders(R, S)
  PROVE  \E s : Enumerates(s, S, R)
<1> DEFINE F == {T \in SUBSET S : ~ \E s : Enumerates(s, T, R)}
<1>1. F \subseteq SUBSET S
  OBVIOUS
<1>2. SUFFICES ASSUME F # {} PROVE FALSE
  OBVIOUS
<1> HIDE DEF F
<1>3. PICK T : LeastIn(T, F)
  BY <1>1, <1>2, LeastSet
<1>4. T \in SUBSET S /\ ~ \E s : Enumerates(s, T, R)
  BY <1>3 DEF LeastIn, F
<1>5. IsFiniteSet(T) /\ Orders(R, T)
  BY <1>4, FS_Subset DEF Orders
<1>6. T # {}
  <2>1. SUFFICES ASSUME T = {} PROVE FALSE
    OBVIOUS
  <2>2. Cardinality(T) = 0
    BY <2>1, FS_EmptySet
  <2> DEFINE s == [i \in 1..0 |-> i]
  <2>3. 1..0 = {}
    OBVIOUS
  <2>4. s \in [1..0 -> T]
    BY <2>3
  <2>5. Enumerates(s, T, R)
    BY <2>1, <2>2, <2>3, <2>4 DEF Enumerates
  <2> QED
    BY <1>4, <2>5
<1>7. PICK m \in T : \A x \in T \ {m} : <<x, m>> \in R
  BY <1>5, <1>6, LastOf
<1> DEFINE U == T \ {m}
<1>8. U \in SUBSET S /\ U \subseteq T /\ U # T
  BY <1>4
<1>9. PICK s : Enumerates(s, U, R)
  BY <1>3, <1>8 DEF LeastIn, F
<1>10. Cardinality(T) = Cardinality(U) + 1 /\ Cardinality(U) \in Nat
  <2>1. IsFiniteSet(U) /\ m \notin U /\ U \cup {m} = T
    BY <1>5, FS_Subset
  <2> HIDE DEF U
  <2> QED
    BY <2>1, FS_AddElement, FS_CardinalityType
<1> DEFINE n == Cardinality(U)
           t == [i \in 1..(n + 1) |-> IF i = n + 1 THEN m ELSE s[i]]
<1>11. n \in Nat /\ Cardinality(T) = n + 1
  BY <1>10
<1>12. /\ s \in [1..n -> U]
       /\ \A x \in U : \E i \in 1..n : s[i] = x
       /\ \A i, j \in 1..n : i < j => <<s[i], s[j]>> \in R
  BY <1>9 DEF Enumerates
<1> HIDE DEF n
<1>13. \A i \in 1..(n + 1) : i = n + 1 \/ i \in 1..n
  BY <1>11
<1>14. t \in [1..(n + 1) -> T]
  BY <1>12, <1>13
<1>15. ASSUME NEW x \in T PROVE \E i \in 1..(n + 1) : t[i] = x
  <2>1. CASE x = m
    BY <1>11, <2>1
  <2>2. CASE x # m
    <3>1. PICK i \in 1..n : s[i] = x
      BY <1>12, <2>2
    <3>2. i \in 1..(n + 1) /\ i # n + 1
      BY <1>11
    <3> QED
      BY <3>1, <3>2
  <2> QED
    BY <2>1, <2>2
<1>16. ASSUME NEW i \in 1..(n + 1), NEW j \in 1..(n + 1), i < j
       PROVE  <<t[i], t[j]>> \in R
  <2>1. i \in 1..n /\ i # n + 1
    BY <1>11, <1>16
  <2>2. t[i] = s[i] /\ s[i] \in T \ {m}
    BY <1>12, <2>1
  <2>3. CASE j = n + 1
    BY <1>7, <2>2, <2>3
  <2>4. CASE j # n + 1
    BY <1>12, <1>13, <1>16, <2>1, <2>2, <2>4
  <2> QED
    BY <2>3, <2>4
<1> HIDE DEF t
<1>17. Enumerates(t, T, R)
  BY <1>11, <1>14, <1>15, <1>16 DEF Enumerates
<1> QED
  BY <1>4, <1>17

-----------------------------------------------------------------------------
(* What the planner computes.                                              *)

SizeIn(cs) == [c \in cs |-> c.size]

-----------------------------------------------------------------------------
(* Sums of sizes.                                                          *)

\* The total size of some candidates is the sum of their sizes.
LEMMA TotalSizeIsSum ==
  ASSUME NEW cs, IsLibrary(cs), NEW S \in SUBSET cs
  PROVE  TotalSize(S) = Sum(SizeIn(cs), S)
<1> DEFINE f == SizeIn(cs)
           pick == AnyOf(cs)
           next == Plus(f, cs)
<1>0. IsFiniteSet(cs) /\ f \in [cs -> Nat] /\ \A c \in cs : f[c] = c.size
  BY DEF IsLibrary, SizeIn, PlanCandidate
<1> HIDE DEF f
<1>1. PICK g : /\ Folded(g, cs, Nat, 0, pick, next)
               /\ \A T \in SUBSET cs : Sum(f, T) = g[T]
  BY <1>0, SumFold
<1>2. \A t \in SUBSET cs : t # {} => pick[t] \in t /\ pick[t] = CHOOSE x \in t : TRUE
  BY DEF AnyOf
<1>3. \A a \in Nat, x \in cs : next[<<a, x>>] = x.size + a
  BY <1>0 DEF Plus
<1>4. next \in [Nat \X cs -> Nat]
  BY <1>0 DEF Plus
<1> HIDE DEF pick, next
<1>5. Foldable(cs, Nat, 0, pick, next)
  BY <1>0, <1>2, <1>4 DEF Foldable
<1> DEFINE AnyOne(s) == CHOOSE x \in s : TRUE
           Step(h) == [s \in SUBSET S |->
                         IF s = {} THEN 0 ELSE AnyOne(s).size + h[s \ {AnyOne(s)}]]
           h == CHOOSE h : h = Step(h)
           w == [s \in SUBSET S |-> g[s]]
<1>6. TotalSize(S) = h[S]
  BY DEF TotalSize, MapThenSumSet, MapThenFoldSet
<1>7. w = Step(w)
  <2>1. ASSUME NEW s \in SUBSET S
        PROVE  g[s] = IF s = {} THEN 0 ELSE AnyOne(s).size + w[s \ {AnyOne(s)}]
    <3>1. CASE s = {}
      BY <1>1, <3>1 DEF Folded
    <3>2. CASE s # {}
      <4> DEFINE r == s \ {AnyOne(s)}
      <4>1. pick[s] = AnyOne(s) /\ AnyOne(s) \in cs /\ r \in SUBSET S /\ r \in SUBSET cs
        BY <1>2, <3>2
      <4>2. g[s] = next[<<g[r], AnyOne(s)>>] /\ g[r] \in Nat
        BY <1>1, <4>1, <3>2 DEF Folded
      <4> QED
        BY <1>3, <4>1, <4>2, <3>2
    <3> QED
      BY <3>1, <3>2
  <2> QED
    BY <2>1
<1>8. h = Step(h)
  <2> HIDE DEF w, Step
  <2> QED
    BY <1>7
<1> HIDE DEF h
<1>9. Follows(h, S, Nat, 0, pick, next)
  <2>1. h[{}] = 0
    BY <1>8
  <2>2. ASSUME NEW t \in SUBSET S, t # {}, h[t \ {pick[t]}] \in Nat
        PROVE  h[t] = next[<<h[t \ {pick[t]}], pick[t]>>]
    <3>1. h[t] = AnyOne(t).size + h[t \ {AnyOne(t)}]
      BY <1>8, <2>2
    <3>2. pick[t] = AnyOne(t) /\ pick[t] \in cs
      BY <1>2, <2>2
    <3> QED
      BY <1>3, <2>2, <3>1, <3>2
  <2> QED
    BY <2>1, <2>2 DEF Follows
<1> HIDE DEF AnyOne, Step, w
<1>10. h[S] = g[S]
  BY <1>1, <1>5, <1>9, FoldAgrees
<1> QED
  BY <1>1, <1>6, <1>10 DEF f

\* What the sums of sizes obey.
LEMMA SizeFacts ==
  ASSUME NEW cs, IsLibrary(cs)
  PROVE  /\ \A S \in SUBSET cs : TotalSize(S) \in Nat
         /\ TotalSize({}) = 0
         /\ \A S \in SUBSET cs : \A c \in S : TotalSize(S) = c.size + TotalSize(S \ {c})
         /\ \A S \in SUBSET cs : \A R \in SUBSET S :
               /\ TotalSize(S) = TotalSize(R) + TotalSize(S \ R)
               /\ TotalSize(R) <= TotalSize(S)
<1> DEFINE f == SizeIn(cs)
<1>0. IsFiniteSet(cs) /\ f \in [cs -> Nat] /\ \A c \in cs : f[c] = c.size
  BY DEF IsLibrary, SizeIn, PlanCandidate
<1> HIDE DEF f
<1>1. \A S \in SUBSET cs : TotalSize(S) = Sum(f, S)
  BY TotalSizeIsSum DEF f
<1>2. \A S \in SUBSET cs : TotalSize(S) \in Nat
  BY <1>0, <1>1, SumTake
<1>3. TotalSize({}) = 0
  BY <1>0, <1>1, SumTake
<1>4. ASSUME NEW S \in SUBSET cs, NEW c \in S
      PROVE  TotalSize(S) = c.size + TotalSize(S \ {c})
  <2>1. S \ {c} \in SUBSET cs
    OBVIOUS
  <2>2. Sum(f, S) = f[c] + Sum(f, S \ {c})
    BY <1>0, SumTake
  <2> QED
    BY <1>0, <1>1, <2>1, <2>2
<1>5. ASSUME NEW S \in SUBSET cs, NEW R \in SUBSET S
      PROVE  /\ TotalSize(S) = TotalSize(R) + TotalSize(S \ R)
             /\ TotalSize(R) <= TotalSize(S)
  <2>1. S \ R \in SUBSET cs /\ R \in SUBSET cs
    OBVIOUS
  <2>2. Sum(f, S) = Sum(f, R) + Sum(f, S \ R) /\ Sum(f, R) <= Sum(f, S)
    BY <1>0, SumMonotone
  <2> QED
    BY <1>1, <2>1, <2>2
<1> QED
  BY <1>2, <1>3, <1>4, <1>5

-----------------------------------------------------------------------------
(* The order.                                                              *)

BeforeIn(cs) == {p \in cs \X cs : Before(p[1], p[2])}

\* (last_used_at, key) orders a library.
LEMMA BeforeOrders ==
  ASSUME NEW cs, IsLibrary(cs)
  PROVE  Orders(BeforeIn(cs), cs)
<1>0. \A c \in cs : c.last_used_at \in Int /\ c.key \in Int
  BY DEF IsLibrary, PlanCandidate
<1>1. \A x, y \in cs : <<x, y>> \in BeforeIn(cs) <=> Before(x, y)
  BY DEF BeforeIn
<1>2. \A x \in cs : ~Before(x, x)
  BY <1>0 DEF Before
<1>3. \A x, y, z \in cs : Before(x, y) /\ Before(y, z) => Before(x, z)
  BY <1>0 DEF Before
<1>4. \A x, y \in cs : x = y \/ Before(x, y) \/ Before(y, x)
  BY <1>0 DEF Before, IsLibrary
<1> QED
  BY <1>1, <1>2, <1>3, <1>4 DEF Orders

\* sort_by_key lists every candidate once, least recently used first.
LEMMA SortedInOrder ==
  ASSUME NEW cs, IsLibrary(cs)
  PROVE  /\ Cardinality(cs) \in Nat
         /\ Sorted(cs) \in [1..Cardinality(cs) -> cs]
         /\ \A c \in cs : \E i \in 1..Cardinality(cs) : Sorted(cs)[i] = c
         /\ \A i, j \in 1..Cardinality(cs) : i < j => Before(Sorted(cs)[i], Sorted(cs)[j])
         /\ \A i, j \in 1..Cardinality(cs) : Sorted(cs)[i] = Sorted(cs)[j] => i = j
<1> DEFINE n == Cardinality(cs)
           InOrder(s) == /\ \A c \in cs : \E i \in DOMAIN s : s[i] = c
                         /\ \A i, j \in DOMAIN s : i < j => Before(s[i], s[j])
<1>0. IsFiniteSet(cs) /\ n \in Nat
  BY FS_CardinalityType DEF IsLibrary
<1>1. PICK s : Enumerates(s, cs, BeforeIn(cs))
  BY <1>0, BeforeOrders, ListExists
<1>2. s \in [1..n -> cs] /\ InOrder(s)
  BY <1>1 DEF Enumerates, BeforeIn
<1>3. Sorted(cs) \in [1..n -> cs] /\ InOrder(Sorted(cs))
  <2>1. Sorted(cs) = CHOOSE t \in [1..n -> cs] : InOrder(t)
    BY DEF Sorted
  <2> HIDE DEF InOrder, n
  <2> QED
    BY <1>2, <2>1
<1>4. DOMAIN Sorted(cs) = 1..n
  BY <1>3
<1>5. ASSUME NEW i \in 1..n, NEW j \in 1..n, Sorted(cs)[i] = Sorted(cs)[j] PROVE i = j
  <2>1. ~Before(Sorted(cs)[i], Sorted(cs)[i])
    <3>1. Sorted(cs)[i] \in cs
      BY <1>3
    <3>2. Sorted(cs)[i].last_used_at \in Int /\ Sorted(cs)[i].key \in Int
      BY <3>1 DEF IsLibrary, PlanCandidate
    <3> QED
      BY <3>2 DEF Before
  <2>2. i < j => FALSE
    BY <1>3, <1>4, <1>5, <2>1
  <2>3. j < i => FALSE
    BY <1>3, <1>4, <1>5, <2>1
  <2> HIDE DEF n
  <2> QED
    BY <1>0, <2>2, <2>3
<1> QED
  BY <1>0, <1>3, <1>4, <1>5

-----------------------------------------------------------------------------
(* The planner's loop.                                                     *)

\* The first k of a sequence, and the sequence they are.
FirstOf(s, k) == {s[i] : i \in 1..k}
UpTo(s, k) == [i \in 1..k |-> s[i]]

\* Where the loop is after j of the sorted candidates: it has taken the first k,
\* all of them or just as many as are needed.
Loop(acc, j, s, needed) ==
    \E k \in 0..j :
        /\ acc.evict = UpTo(s, k)
        /\ acc.freed = TotalSize(FirstOf(s, k))
        /\ acc.freed >= needed \/ k = j
        /\ k > 0 => TotalSize(FirstOf(s, k - 1)) < needed

\* The running totals of the sorted candidates.
LEMMA FirstSizes ==
  ASSUME NEW cs, IsLibrary(cs), NEW k \in 1..Cardinality(cs)
  PROVE  /\ TotalSize(FirstOf(Sorted(cs), k))
               = TotalSize(FirstOf(Sorted(cs), k - 1)) + Sorted(cs)[k].size
         /\ TotalSize(FirstOf(Sorted(cs), k)) <= TotalSize(cs)
         /\ TotalSize(FirstOf(Sorted(cs), k - 1)) \in Nat
<1> DEFINE s == Sorted(cs)
           n == Cardinality(cs)
           K == FirstOf(s, k)
           J == FirstOf(s, k - 1)
<1>0. /\ n \in Nat /\ s \in [1..n -> cs]
      /\ \A i, j \in 1..n : s[i] = s[j] => i = j
  BY SortedInOrder
<1> HIDE DEF s, n
<1>1. k \in 1..n
  BY DEF n
<1>2. K \in SUBSET cs /\ J \in SUBSET cs /\ s[k] \in K
  BY <1>0, <1>1 DEF FirstOf
<1>3. K \ {s[k]} = J
  <2>1. \A i \in 1..k : i \in 1..n /\ (i = k \/ i \in 1..(k - 1))
    BY <1>0, <1>1
  <2>2. \A i \in 1..(k - 1) : i \in 1..k /\ i \in 1..n /\ i # k
    BY <1>0, <1>1
  <2> QED
    BY <1>0, <1>1, <2>1, <2>2 DEF FirstOf
<1> HIDE DEF K, J
<1>4. TotalSize(K) = s[k].size + TotalSize(J)
  BY <1>2, <1>3, SizeFacts
<1>5. TotalSize(K) <= TotalSize(cs) /\ TotalSize(J) \in Nat
  BY <1>2, SizeFacts
<1>6. s[k].size \in Nat
  BY <1>0, <1>1 DEF IsLibrary, PlanCandidate
<1> QED
  BY <1>4, <1>5, <1>6 DEF s, K, J

\* One turn of the loop.
LEMMA TakeStep ==
  ASSUME NEW cs, IsLibrary(cs), TotalSize(cs) < Word, NEW needed \in Nat,
         NEW j \in 1..Cardinality(cs), NEW acc,
         Loop(acc, j - 1, Sorted(cs), needed)
  PROVE  Loop(Take(needed, acc, Sorted(cs)[j]), j, Sorted(cs), needed)
<1> DEFINE s == Sorted(cs)
           n == Cardinality(cs)
           b == Take(needed, acc, s[j])
<1>0. n \in Nat /\ s \in [1..n -> cs] /\ j \in 1..n
  BY SortedInOrder
<1>1. PICK k \in 0..(j - 1) :
        /\ acc.evict = UpTo(s, k)
        /\ acc.freed = TotalSize(FirstOf(s, k))
        /\ acc.freed >= needed \/ k = j - 1
        /\ k > 0 => TotalSize(FirstOf(s, k - 1)) < needed
  BY DEF Loop
<1>2. CASE acc.freed >= needed
  <2>1. b = acc
    BY <1>2 DEF Take
  <2>2. k \in 0..j
    BY <1>0
  <2> HIDE DEF b, s
  <2> QED
    BY <1>1, <1>2, <2>1, <2>2 DEF Loop, b, s
<1>3. CASE ~(acc.freed >= needed)
  <2>1. k = j - 1 /\ j - 1 \in Nat /\ j > 0
    BY <1>0, <1>1, <1>3
  <2>2. /\ TotalSize(FirstOf(s, j)) = TotalSize(FirstOf(s, j - 1)) + s[j].size
        /\ TotalSize(FirstOf(s, j)) <= TotalSize(cs)
        /\ TotalSize(FirstOf(s, j - 1)) \in Nat
    BY FirstSizes
  <2>3. s[j].size \in Nat /\ TotalSize(cs) \in Nat
    <3>1. s[j] \in cs
      BY <1>0
    <3> QED
      BY <3>1, SizeFacts DEF IsLibrary, PlanCandidate
  <2>4. b = [evict |-> Append(acc.evict, s[j]), freed |-> WrappingAdd(acc.freed, s[j].size)]
    BY <1>3 DEF Take
  <2>5. b.freed = TotalSize(FirstOf(s, j))
    <3>1. b.freed = (TotalSize(FirstOf(s, j - 1)) + s[j].size) % Word
      BY <1>1, <2>1, <2>4 DEF WrappingAdd
    <3> HIDE DEF b, s
    <3> QED
      BY <2>2, <2>3, <3>1, WordAssumption
  <2>6. b.evict = UpTo(s, j)
    <3>1. b.evict = Append(UpTo(s, j - 1), s[j])
      BY <1>1, <2>1, <2>4
    <3>2. UpTo(s, j - 1) \in Seq(cs) /\ Len(UpTo(s, j - 1)) = j - 1
      <4>1. \A i \in 1..(j - 1) : i \in 1..n
        BY <1>0
      <4>2. UpTo(s, j - 1) \in [1..(j - 1) -> cs]
        BY <1>0, <4>1 DEF UpTo
      <4> QED
        BY <4>2, <2>1
    <3>3. \A i \in 1..j : Append(UpTo(s, j - 1), s[j])[i] = s[i]
      BY <3>2, <2>1, <1>0 DEF UpTo
    <3>4. Append(UpTo(s, j - 1), s[j]) = [i \in 1..j |-> s[i]]
      BY <3>2, <3>3, <2>1, <1>0
    <3> QED
      BY <3>1, <3>4 DEF UpTo
  <2>7. TotalSize(FirstOf(s, j - 1)) < needed
    BY <1>1, <1>3, <2>1, <2>2
  <2>8. j \in 0..j
    BY <2>1
  <2> HIDE DEF b, s
  <2> QED
    BY <2>5, <2>6, <2>7, <2>8 DEF Loop, b, s
<1> QED
  BY <1>2, <1>3

\* What the loop has when it ends: the shortest run of the sorted unprotected
\* candidates that frees what is needed, or all of them.
LEMMA PickedLoop ==
  ASSUME NEW cs, IsLibrary(cs), TotalSize(Unprotected(cs)) < Word, NEW needed \in Nat
  PROVE  Loop(Picked(cs, needed), Cardinality(Unprotected(cs)),
              Sorted(Unprotected(cs)), needed)
<1> DEFINE U == Unprotected(cs)
           s == Sorted(U)
           n == Cardinality(U)
           A == [evict : Seq(U), freed : Nat]
           base == [evict |-> <<>>, freed |-> 0]
           next == [p \in A \X (1..n) |-> Take(needed, p[1], s[p[2]])]
<1>1. IsLibrary(U)
  BY FS_Subset DEF IsLibrary, Unprotected
<1>2. TotalSize(U) < Word
  OBVIOUS
<1> HIDE DEF U
<1>3. n \in Nat /\ s \in [1..n -> U]
  BY <1>1, SortedInOrder
<1> HIDE DEF s, n
<1>4. ASSUME NEW a \in A, NEW j \in 1..n PROVE Take(needed, a, s[j]) \in A
  <2>1. s[j] \in U
    BY <1>3
  <2>2. s[j].size \in Nat
    BY <1>1, <2>1 DEF IsLibrary, PlanCandidate
  <2>3. a.evict \in Seq(U) /\ a.freed \in Nat
    OBVIOUS
  <2>4. Append(a.evict, s[j]) \in Seq(U)
    BY <2>1, <2>3
  <2>5. WrappingAdd(a.freed, s[j].size) \in Nat
    BY <2>2, <2>3, WordAssumption DEF WrappingAdd
  <2> QED
    BY <2>4, <2>5 DEF Take
<1>5. base \in A
  OBVIOUS
<1> HIDE DEF A
<1>6. next \in [A \X (1..n) -> A]
  BY <1>4
<1>7. \A a \in A, j \in 1..n : next[<<a, j>>] = Take(needed, a, s[j])
  OBVIOUS
<1> HIDE DEF next, base
<1>8. Foldable(1..n, A, base, Top(n), next) /\ ByPrefix(n, A, base, next)
  BY <1>3, <1>5, <1>6, PrefixFold
<1>9. PICK g : /\ Folded(g, 1..n, A, base, Top(n), next)
               /\ \E p : Runs(p, n, A, base, next) /\ g[1..n] = p[n]
  BY <1>8 DEF ByPrefix
<1>10. PICK p : Runs(p, n, A, base, next) /\ g[1..n] = p[n]
  BY <1>9
<1>11. Loop(p[n], n, s, needed)
  <2> DEFINE N == {j \in 0..n : ~Loop(p[j], j, s, needed)}
  <2>1. SUFFICES ASSUME N # {} PROVE FALSE
    BY <1>3
  <2>2. N \in SUBSET Nat
    BY <1>3
  <2>3. PICK j \in N : \A m \in N : j <= m
    BY <2>1, <2>2, LeastNat
  <2>4. j \in 0..n /\ ~Loop(p[j], j, s, needed)
    OBVIOUS
  <2>5. CASE j = 0
    <3>1. p[0] = [evict |-> <<>>, freed |-> 0]
      BY <1>10 DEF Runs, base
    <3>2. FirstOf(s, 0) = {} /\ UpTo(s, 0) = <<>>
      BY DEF FirstOf, UpTo
    <3>3. TotalSize(FirstOf(s, 0)) = 0
      BY <1>1, <3>2, SizeFacts
    <3> QED
      BY <2>4, <2>5, <3>1, <3>2, <3>3 DEF Loop
  <2>6. CASE j # 0
    <3>1. j \in 1..n /\ j - 1 \in 0..n /\ j - 1 < j
      BY <1>3, <2>4, <2>6
    <3>2. Loop(p[j - 1], j - 1, s, needed)
      BY <2>3, <3>1
    <3>3. p[j - 1] \in A /\ p[j] = next[<<p[j - 1], j>>]
      BY <1>10, <3>1 DEF Runs
    <3>4. p[j] = Take(needed, p[j - 1], s[j])
      BY <1>7, <3>1, <3>3
    <3>5. Loop(Take(needed, p[j - 1], s[j]), j, s, needed)
      BY <1>1, <1>2, <3>1, <3>2, TakeStep DEF s, n
    <3> QED
      BY <2>4, <3>4, <3>5
  <2> QED
    BY <2>5, <2>6
<1> DEFINE Step(h) == [t \in SUBSET (1..n) |->
                         IF t = {} THEN base
                         ELSE Take(needed, h[t \ {Max(t)}], s[Max(t)])]
           h == CHOOSE h : h = Step(h)
           w == [t \in SUBSET (1..n) |-> g[t]]
<1>12. Picked(cs, needed) = h[1..n]
  <2>1. DOMAIN s = 1..n
    BY <1>3
  <2>2. Picked(cs, needed) = FoldLeft(LAMBDA acc, c : Take(needed, acc, c), base, s)
    BY DEF Picked, base, s, U
  <2> QED
    BY <2>1, <2>2 DEF FoldLeft, MapThenFoldSet
<1>13. \A t \in SUBSET (1..n) : t # {} => Top(n)[t] = Max(t) /\ Max(t) \in t
  BY <1>8 DEF Foldable, Top
<1>14. w = Step(w)
  <2>1. ASSUME NEW t \in SUBSET (1..n)
        PROVE  g[t] = IF t = {} THEN base ELSE Take(needed, w[t \ {Max(t)}], s[Max(t)])
    <3>1. CASE t = {}
      BY <1>9, <3>1 DEF Folded
    <3>2. CASE t # {}
      <4> DEFINE r == t \ {Max(t)}
      <4>1. Top(n)[t] = Max(t) /\ Max(t) \in 1..n /\ r \in SUBSET (1..n)
        BY <1>13, <3>2
      <4>2. g[t] = next[<<g[r], Max(t)>>] /\ g[r] \in A
        BY <1>9, <4>1, <3>2 DEF Folded
      <4> QED
        BY <1>7, <4>1, <4>2, <3>2
    <3> QED
      BY <3>1, <3>2
  <2> QED
    BY <2>1
<1>15. h = Step(h)
  <2> HIDE DEF w, Step
  <2> QED
    BY <1>14
<1> HIDE DEF h
<1>16. Follows(h, 1..n, A, base, Top(n), next)
  <2>1. h[{}] = base
    BY <1>15
  <2>2. ASSUME NEW t \in SUBSET (1..n), t # {}, h[t \ {Top(n)[t]}] \in A
        PROVE  h[t] = next[<<h[t \ {Top(n)[t]}], Top(n)[t]>>]
    <3>1. h[t] = Take(needed, h[t \ {Max(t)}], s[Max(t)])
      BY <1>15, <2>2
    <3>2. Top(n)[t] = Max(t) /\ Max(t) \in 1..n
      BY <1>13, <2>2
    <3> QED
      BY <1>7, <2>2, <3>1, <3>2
  <2> QED
    BY <2>1, <2>2 DEF Follows
<1> HIDE DEF Step, w
<1>17. h[1..n] = g[1..n]
  BY <1>8, <1>9, <1>16, FoldAgrees
<1> QED
  BY <1>10, <1>11, <1>12, <1>17 DEF s, n, U

\* e evicts, for what is needed, a least recently used part of cs and no more.
LeastUsed(e, cs, needed) ==
    /\ ToSet(e) \subseteq Unprotected(cs)
    /\ \A c \in ToSet(e), d \in Unprotected(cs) \ ToSet(e) : Before(c, d)
    /\ \A i, j \in DOMAIN e : i < j => Before(e[i], e[j])
    /\ e # <<>> => TotalSize(ToSet(e) \ {Last(e)}) < needed

\* The loop's outcome in terms of the movies it takes.
LEMMA PickedSet ==
  ASSUME NEW cs, IsLibrary(cs), TotalSize(Unprotected(cs)) < Word, NEW needed \in Nat
  PROVE  LET p == Picked(cs, needed) IN
         /\ LeastUsed(p.evict, cs, needed)
         /\ p.freed = TotalSize(ToSet(p.evict))
         /\ p.freed >= needed \/ ToSet(p.evict) = Unprotected(cs)
<1> DEFINE U == Unprotected(cs)
           s == Sorted(U)
           n == Cardinality(U)
           acc == Picked(cs, needed)
           e == acc.evict
<1>1. IsLibrary(U)
  BY FS_Subset DEF IsLibrary, Unprotected
<1>2. Loop(acc, n, s, needed)
  BY PickedLoop
<1> HIDE DEF U, acc
<1>3. /\ n \in Nat /\ s \in [1..n -> U]
      /\ \A c \in U : \E i \in 1..n : s[i] = c
      /\ \A i, j \in 1..n : i < j => Before(s[i], s[j])
      /\ \A i, j \in 1..n : s[i] = s[j] => i = j
  BY <1>1, SortedInOrder
<1> HIDE DEF s, n
<1>4. PICK k \in 0..n :
        /\ acc.evict = UpTo(s, k)
        /\ acc.freed = TotalSize(FirstOf(s, k))
        /\ acc.freed >= needed \/ k = n
        /\ k > 0 => TotalSize(FirstOf(s, k - 1)) < needed
  BY <1>2 DEF Loop
<1>5. k \in Nat /\ k <= n /\ \A i \in 1..k : i \in 1..n
  BY <1>3
<1>6. DOMAIN e = 1..k /\ (\A i \in 1..k : e[i] = s[i]) /\ ToSet(e) = FirstOf(s, k)
  BY <1>4 DEF UpTo, FirstOf, ToSet
<1>7. ToSet(e) \subseteq U
  BY <1>3, <1>5, <1>6 DEF FirstOf
<1>8. ASSUME NEW c \in ToSet(e), NEW d \in U \ ToSet(e) PROVE Before(c, d)
  <2>1. PICK i \in 1..k : c = s[i]
    BY <1>6 DEF FirstOf
  <2>2. PICK j \in 1..n : d = s[j]
    BY <1>3
  <2>3. j \notin 1..k
    BY <1>6, <2>2 DEF FirstOf
  <2>4. i < j /\ i \in 1..n
    BY <1>5, <2>3
  <2> QED
    BY <1>3, <2>1, <2>2, <2>4
<1>9. \A i, j \in DOMAIN e : i < j => Before(e[i], e[j])
  BY <1>3, <1>5, <1>6
<1>10. ASSUME e # <<>> PROVE TotalSize(ToSet(e) \ {Last(e)}) < needed
  <2>1. e \in Seq(U) /\ Len(e) = k
    <3>1. e = [i \in 1..k |-> s[i]]
      BY <1>4 DEF UpTo
    <3>2. \A i \in 1..k : s[i] \in U
      BY <1>3, <1>5
    <3> HIDE DEF e
    <3> QED
      BY <1>5, <3>1, <3>2
  <2>2. k > 0
    BY <1>5, <1>10, <2>1
  <2>3. Last(e) = s[k] /\ k \in 1..k
    BY <1>5, <1>6, <2>1, <2>2 DEF Last
  <2>4. FirstOf(s, k) \ {s[k]} = FirstOf(s, k - 1)
    <3>1. \A i \in 1..k : i \in 1..n /\ (i = k \/ i \in 1..(k - 1))
      BY <1>5
    <3>2. \A i \in 1..(k - 1) : i \in 1..k /\ i \in 1..n /\ i # k
      BY <1>5
    <3>3. k \in 1..n
      BY <1>5, <2>2
    <3> QED
      BY <1>3, <3>1, <3>2, <3>3 DEF FirstOf
  <2> QED
    BY <1>4, <1>6, <2>2, <2>3, <2>4
<1>11. k = n => ToSet(e) = U
  BY <1>3, <1>6 DEF FirstOf
<1>12. LeastUsed(e, cs, needed)
  BY <1>7, <1>8, <1>9, <1>10 DEF LeastUsed, U
<1>13. acc.freed = TotalSize(ToSet(e)) /\ (acc.freed >= needed \/ ToSet(e) = U)
  BY <1>4, <1>6, <1>11
<1> HIDE DEF e
<1>14. LeastUsed(e, cs, needed) /\ acc.freed = TotalSize(ToSet(e))
       /\ (acc.freed >= needed \/ ToSet(e) = U)
  BY <1>12, <1>13
<1> QED
  BY <1>14 DEF acc, e, U

-----------------------------------------------------------------------------
(* The plan.                                                               *)

\* A granted plan: the evicted movies E are the least recently used ones, enough
\* for the budget and the floor, and without the last of them there is no room.
LEMMA PlanGranted ==
  ASSUME NEW cs, NEW incoming, NEW limit, NEW free, NEW min_free,
         PlanInput(cs, incoming, limit, free, min_free),
         NEW r, r = CatalogPlan(cs, TotalSize(cs), free, incoming, limit, min_free),
         r.ok
  PROVE  LET E == ToSet(r.evict)
             needed == Needed(TotalSize(cs), incoming, limit, Extra(incoming, min_free, free))
         IN  /\ needed \in Nat
             /\ LeastUsed(r.evict, cs, needed)
             /\ TotalSize(cs \ E) + incoming <= limit
             /\ free + TotalSize(E) >= incoming + min_free
             /\ r.used_after = TotalSize(cs \ E)
             /\ \A x \in Nat : x < needed =>
                   TotalSize(cs) - x + incoming > limit \/ free + x < incoming + min_free
<1> DEFINE used == TotalSize(cs)
           extra == Extra(incoming, min_free, free)
           needed == Needed(used, incoming, limit, extra)
           p == Picked(cs, needed)
           E == ToSet(r.evict)
<1>1. /\ IsLibrary(cs) /\ incoming \in Nat /\ limit \in Nat /\ free \in Nat /\ min_free \in Nat
      /\ used + limit < Word /\ limit + min_free < Word
  BY DEF PlanInput
<1>2. used \in Nat /\ Word \in Nat
  BY <1>1, SizeFacts, WordAssumption
<1> HIDE DEF used
<1>3. r = plan(cs, used, incoming, limit, extra)
  BY DEF CatalogPlan, used
<1>4. incoming <= limit
  <2>1. ~(incoming > limit)
    BY <1>3 DEF plan, LargerThanBudget
  <2> QED
    BY <1>1, <2>1
<1>5. extra = SaturatingSub(incoming + min_free, free)
  <2>1. (incoming + min_free) % Word = incoming + min_free
    BY <1>1, <1>2, <1>4
  <2> QED
    BY <2>1 DEF Extra, WrappingAdd
<1>6. needed = Larger(SaturatingSub(used + incoming, limit), extra)
  <2>1. (used + incoming) % Word = used + incoming
    BY <1>1, <1>2, <1>4
  <2> QED
    BY <2>1 DEF Needed, WrappingAdd
<1>7. /\ needed \in Nat
      /\ needed >= used + incoming - limit
      /\ needed >= incoming + min_free - free
      /\ \A x \in Nat : x < needed =>
            used - x + incoming > limit \/ free + x < incoming + min_free
  <2> HIDE DEF needed, extra
  <2> QED
    BY <1>1, <1>2, <1>5, <1>6 DEF Larger, SaturatingSub
<1> HIDE DEF needed, extra
<1>8. CASE needed = 0
  <2>1. r = Ok(<<>>, used, used)
    BY <1>1, <1>3, <1>4, <1>8 DEF plan, needed
  <2>2. r.evict = <<>> /\ r.used_after = used /\ E = {}
    BY <2>1 DEF Ok, ToSet
  <2>3. TotalSize(E) = 0 /\ cs \ E = cs
    BY <1>1, <2>2, SizeFacts
  <2>4. LeastUsed(r.evict, cs, needed)
    BY <2>2 DEF LeastUsed
  <2>5. /\ TotalSize(cs \ E) + incoming <= limit
        /\ free + TotalSize(E) >= incoming + min_free
        /\ r.used_after = TotalSize(cs \ E)
    <3>1. TotalSize(cs \ E) = used
      BY <2>3 DEF used
    <3> HIDE DEF E
    <3> QED
      BY <1>1, <1>2, <1>7, <1>8, <2>2, <2>3, <3>1
  <2> HIDE DEF E
  <2> QED
    BY <1>7, <2>4, <2>5 DEF used, needed, extra, E
<1>9. CASE needed # 0
  <2>1. r = IF p.freed < needed THEN NotEnoughSpace(needed - p.freed, p.freed)
            ELSE Ok(p.evict, used, SaturatingSub(used, p.freed))
    BY <1>1, <1>3, <1>4, <1>9 DEF plan, needed
  <2>2. ~(p.freed < needed)
    BY <2>1 DEF NotEnoughSpace
  <2>3. r.evict = p.evict /\ r.used_after = SaturatingSub(used, p.freed)
    BY <2>1, <2>2 DEF Ok
  <2>4. TotalSize(Unprotected(cs)) < Word
    <3>1. Unprotected(cs) \in SUBSET cs
      BY DEF Unprotected
    <3>2. TotalSize(Unprotected(cs)) <= used /\ TotalSize(Unprotected(cs)) \in Nat
      BY <1>1, <3>1, SizeFacts DEF used
    <3> QED
      BY <1>1, <1>2, <3>2
  <2>5. LeastUsed(p.evict, cs, needed) /\ p.freed = TotalSize(ToSet(p.evict))
    BY <1>1, <1>7, <2>4, PickedSet
  <2>6. E \subseteq cs /\ p.freed = TotalSize(E) /\ LeastUsed(r.evict, cs, needed)
    BY <2>3, <2>5 DEF LeastUsed, Unprotected
  <2>7. used = TotalSize(E) + TotalSize(cs \ E) /\ TotalSize(E) \in Nat /\ TotalSize(cs \ E) \in Nat
    <3>1. cs \in SUBSET cs /\ cs \ E \in SUBSET cs /\ E \in SUBSET cs
      BY <2>6
    <3> HIDE DEF E
    <3> QED
      BY <1>1, <3>1, SizeFacts DEF used
  <2> HIDE DEF p, E
  <2>8. r.used_after = TotalSize(cs \ E)
    BY <2>3, <2>6, <2>7 DEF SaturatingSub
  <2>9. TotalSize(cs \ E) + incoming <= limit /\ free + TotalSize(E) >= incoming + min_free
    BY <1>1, <1>2, <1>7, <2>2, <2>6, <2>7
  <2> QED
    BY <1>7, <2>6, <2>8, <2>9 DEF used, needed, extra, E
<1> QED
  BY <1>8, <1>9

\* A refused plan: the movie is larger than the budget, or evicting every
\* unprotected movie is not enough.
LEMMA PlanRefused ==
  ASSUME NEW cs, NEW incoming, NEW limit, NEW free, NEW min_free,
         PlanInput(cs, incoming, limit, free, min_free),
         NEW r, r = CatalogPlan(cs, TotalSize(cs), free, incoming, limit, min_free),
         ~r.ok
  PROVE  LET U == Unprotected(cs) IN
         \/ incoming > limit
         \/ TotalSize(cs \ U) + incoming > limit
         \/ free + TotalSize(U) < incoming + min_free
<1> DEFINE used == TotalSize(cs)
           U == Unprotected(cs)
           extra == Extra(incoming, min_free, free)
           needed == Needed(used, incoming, limit, extra)
           p == Picked(cs, needed)
<1>1. /\ IsLibrary(cs) /\ incoming \in Nat /\ limit \in Nat /\ free \in Nat /\ min_free \in Nat
      /\ used + limit < Word /\ limit + min_free < Word
  BY DEF PlanInput
<1>2. SUFFICES ASSUME incoming <= limit
      PROVE  used - TotalSize(U) + incoming > limit \/ free + TotalSize(U) < incoming + min_free
  <2>1. U \in SUBSET cs /\ cs \in SUBSET cs
    BY DEF Unprotected
  <2> HIDE DEF U
  <2>2. TotalSize(cs) = TotalSize(U) + TotalSize(cs \ U) /\ TotalSize(U) \in Nat
        /\ TotalSize(cs \ U) \in Nat
    <3>1. cs \ U \in SUBSET cs
      OBVIOUS
    <3> QED
      BY <1>1, <2>1, <3>1, SizeFacts
  <2>3. used = TotalSize(cs)
    OBVIOUS
  <2> HIDE DEF used
  <2> QED
    BY <1>1, <2>2, <2>3 DEF U
<1>3. used \in Nat /\ Word \in Nat
  BY <1>1, SizeFacts, WordAssumption
<1> HIDE DEF used
<1>4. r = plan(cs, used, incoming, limit, extra)
  BY DEF CatalogPlan, used
<1>5. extra = SaturatingSub(incoming + min_free, free)
  <2>1. (incoming + min_free) % Word = incoming + min_free
    BY <1>1, <1>2, <1>3
  <2> QED
    BY <2>1 DEF Extra, WrappingAdd
<1>6. needed = Larger(SaturatingSub(used + incoming, limit), extra)
  <2>1. (used + incoming) % Word = used + incoming
    BY <1>1, <1>2, <1>3
  <2> QED
    BY <2>1 DEF Needed, WrappingAdd
<1>7. /\ needed \in Nat
      /\ \A x \in Nat : x < needed =>
            used - x + incoming > limit \/ free + x < incoming + min_free
  <2> HIDE DEF needed, extra
  <2> QED
    BY <1>1, <1>2, <1>3, <1>5, <1>6 DEF Larger, SaturatingSub
<1>8. needed # 0 /\ p.freed < needed
  BY <1>1, <1>2, <1>4 DEF plan, Ok
<1> HIDE DEF needed, extra
<1>9. U \in SUBSET cs /\ TotalSize(U) \in Nat /\ TotalSize(U) < Word
  <2>1. U \in SUBSET cs
    BY DEF Unprotected
  <2>2. TotalSize(U) <= used /\ TotalSize(U) \in Nat
    BY <1>1, <2>1, SizeFacts DEF used
  <2> HIDE DEF U
  <2> QED
    BY <1>1, <1>3, <2>1, <2>2
<1>10. p.freed = TotalSize(ToSet(p.evict)) /\ (p.freed >= needed \/ ToSet(p.evict) = U)
  BY <1>1, <1>7, <1>9, PickedSet
<1> HIDE DEF p
<1>11. p.freed \in Int
  <2>1. p.freed \in Nat
    <3>1. ToSet(p.evict) \in SUBSET cs
      BY <1>1, <1>7, <1>9, PickedSet DEF p, LeastUsed, Unprotected
    <3> QED
      BY <1>1, <1>10, <3>1, SizeFacts
  <2> QED
    BY <2>1
<1>12. p.freed = TotalSize(U)
  BY <1>7, <1>8, <1>10, <1>11
<1> HIDE DEF U
<1> QED
  BY <1>7, <1>8, <1>9, <1>12

-----------------------------------------------------------------------------
(* What the merged list holds: every admitted tracker once, up to the cap.  *)

\* The canonical forms of some lines, and the sequences of them without repetition.
Canon(L) == {normalize(raw)[1] : raw \in L}
Once(L) == {o \in Seq(Canon(L)) : \A i, j \in DOMAIN o : o[i] = o[j] => i = j}

\* Lists of lines, each with the schemes of its source.
ListsOf(T, L) == Seq([schemes : T, list : Seq(L)])

\* What a line adds to the list, what a list adds, and what all lists add.
Adds(cfg, l, raw, L) == {t \in Canon(L) : normalize(raw) = <<t>> /\ Admits(cfg, l, t)}
ListAdds(cfg, l, L) == UNION {Adds(cfg, l, l.list[i], L) : i \in DOMAIN l.list}
Chained(cfg, lists) == Append(lists, Statics(cfg))
AllAdd(cfg, lists, L) ==
    UNION {ListAdds(cfg, Chained(cfg, lists)[k], L) : k \in DOMAIN Chained(cfg, lists)}

\* The elements of a sequence.
LEMMA Elements ==
  ASSUME NEW C, NEW s \in Seq(C), NEW x \in C
  PROVE  /\ Append(s, x) \in Seq(C)
         /\ Len(Append(s, x)) = Len(s) + 1 /\ Len(s) \in Nat
         /\ \A i \in 1..Len(s) : Append(s, x)[i] = s[i]
         /\ Append(s, x)[Len(s) + 1] = x
         /\ ToSet(Append(s, x)) = ToSet(s) \cup {x}
         /\ Contains(s, x) <=> x \in ToSet(s)
<1>1. /\ Append(s, x) \in Seq(C)
      /\ Len(Append(s, x)) = Len(s) + 1 /\ Len(s) \in Nat
      /\ \A i \in 1..Len(s) : Append(s, x)[i] = s[i]
      /\ Append(s, x)[Len(s) + 1] = x
  OBVIOUS
<1>2. DOMAIN Append(s, x) = 1..(Len(s) + 1) /\ DOMAIN s = 1..Len(s)
  OBVIOUS
<1>3. Contains(s, x) <=> x \in ToSet(s)
  BY <1>2 DEF Contains, ToSet
<1>4. ToSet(Append(s, x)) = ToSet(s) \cup {x}
  <2> DEFINE n == Len(s)
             a == Append(s, x)
  <2>1. /\ n \in Nat /\ \A i \in 1..n : a[i] = s[i]
        /\ a[n + 1] = x /\ DOMAIN a = 1..(n + 1) /\ DOMAIN s = 1..n
    BY <1>1, <1>2
  <2> HIDE DEF n, a
  <2>2. \A i : i \in 1..(n + 1) <=> i \in 1..n \/ i = n + 1
    BY <2>1
  <2>3. ToSet(a) = ToSet(s) \cup {x}
    BY <2>1, <2>2 DEF ToSet
  <2> QED
    BY <2>3 DEF a
<1> QED
  BY <1>1, <1>3, <1>4

\* One line: the list stays without repetition and gains what the line adds.
LEMMA KeepStep ==
  ASSUME NEW cfg, NEW l, NEW L, NEW raw \in L, NEW out \in Once(L)
  PROVE  /\ Keep(cfg, l, out, raw) \in Once(L)
         /\ ToSet(Keep(cfg, l, out, raw)) = ToSet(out) \cup Adds(cfg, l, raw, L)
<1> DEFINE t == normalize(raw)
           x == t[1]
<1>1. x \in Canon(L)
  BY DEF Canon
<1>2. t = <<>> \/ t = <<x>>
  BY DEF normalize
<1>3. out \in Seq(Canon(L)) /\ \A i, j \in DOMAIN out : out[i] = out[j] => i = j
  BY DEF Once
<1> HIDE DEF t, x
<1>4. /\ Append(out, x) \in Seq(Canon(L))
      /\ Len(Append(out, x)) = Len(out) + 1 /\ Len(out) \in Nat
      /\ \A i \in 1..Len(out) : Append(out, x)[i] = out[i]
      /\ Append(out, x)[Len(out) + 1] = x
      /\ ToSet(Append(out, x)) = ToSet(out) \cup {x}
      /\ Contains(out, x) <=> x \in ToSet(out)
  BY <1>1, <1>3, Elements
<1>5. Keep(cfg, l, out, raw) =
        IF t = <<>> \/ ~Admits(cfg, l, x) \/ Contains(out, x) THEN out ELSE Append(out, x)
  BY DEF Keep, t, x
<1>6. CASE t = <<>> \/ ~Admits(cfg, l, x)
  <2>1. Adds(cfg, l, raw, L) = {}
    <3> SUFFICES ASSUME NEW y, t = <<y>>, Admits(cfg, l, y) PROVE FALSE
      BY DEF Adds, t
    <3>1. t # <<>> /\ t[1] = y
      OBVIOUS
    <3> QED
      BY <1>6, <3>1 DEF x
  <2> QED
    BY <1>5, <1>6, <2>1
<1>7. CASE t # <<>> /\ Admits(cfg, l, x)
  <2>1. Adds(cfg, l, raw, L) = {x}
    <3>1. t = <<x>>
      BY <1>2, <1>7
    <3>2. \A y : t = <<y>> => y = x
      BY <3>1
    <3> QED
      BY <1>1, <1>7, <3>1, <3>2 DEF Adds, t
  <2>2. CASE Contains(out, x)
    BY <1>4, <1>5, <2>1, <2>2
  <2>3. CASE ~Contains(out, x)
    <3> DEFINE n == Len(out)
               a == Append(out, x)
    <3>1. /\ n \in Nat /\ a \in Seq(Canon(L)) /\ DOMAIN a = 1..(n + 1) /\ DOMAIN out = 1..n
          /\ \A i \in 1..n : a[i] = out[i] /\ a[i] # x
          /\ a[n + 1] = x
      BY <1>3, <1>4, <2>3 DEF Contains
    <3> HIDE DEF n, a
    <3>2. \A i \in 1..(n + 1) : i \in 1..n \/ i = n + 1
      BY <3>1
    <3>3. \A i, j \in 1..(n + 1) : a[i] = a[j] => i = j
      BY <1>3, <3>1, <3>2
    <3>4. a \in Once(L)
      BY <3>1, <3>3 DEF Once
    <3>5. a = Append(out, x)
      BY DEF a
    <3> QED
      BY <1>4, <1>5, <1>7, <2>1, <2>3, <3>4, <3>5
  <2> QED
    BY <2>2, <2>3
<1> QED
  BY <1>6, <1>7

\* A run each of whose steps adds B[k] has added all of them up to the k-th.
Collects(A, n, next, B) ==
    \A a \in A, k \in 1..n : ToSet(next[<<a, k>>]) = ToSet(a) \cup B[k]
Collected(end, base, B, n) == ToSet(end) = ToSet(base) \cup UNION {B[k] : k \in 1..n}
LEMMA CollectRun ==
  ASSUME NEW n \in Nat, NEW A, NEW base \in A, NEW next, NEW B, NEW p,
         Collects(A, n, next, B), Runs(p, n, A, base, next)
  PROVE  \A j \in 0..n : Collected(p[j], base, B, j)
<1> DEFINE Up(j) == ToSet(base) \cup UNION {B[k] : k \in 1..j}
           N == {j \in 0..n : ToSet(p[j]) # Up(j)}
<1>1. SUFFICES ASSUME N # {} PROVE FALSE
  BY DEF Collected
<1>2. N \in SUBSET Nat
  OBVIOUS
<1>3. PICK j \in N : \A m \in N : j <= m
  BY <1>1, <1>2, LeastNat
<1>4. j \in 0..n /\ ToSet(p[j]) # Up(j)
  OBVIOUS
<1>5. CASE j = 0
  <2>1. p[0] = base /\ 1..0 = {}
    BY DEF Runs
  <2> QED
    BY <1>4, <1>5, <2>1
<1>6. CASE j # 0
  <2>1. j \in 1..n /\ j - 1 \in 0..n /\ ~(j <= j - 1)
    BY <1>4, <1>6
  <2>2. ToSet(p[j - 1]) = Up(j - 1)
    BY <1>3, <2>1
  <2>3. p[j - 1] \in A /\ p[j] = next[<<p[j - 1], j>>]
    BY <2>1 DEF Runs
  <2>4. ToSet(p[j]) = ToSet(p[j - 1]) \cup B[j]
    BY <2>1, <2>3 DEF Collects
  <2>5. \A k : k \in 1..j <=> k \in 1..(j - 1) \/ k = j
    BY <2>1
  <2>6. Up(j) = Up(j - 1) \cup B[j]
    BY <2>5
  <2> HIDE DEF Up
  <2> QED
    BY <1>4, <2>2, <2>4, <2>6
<1> QED
  BY <1>5, <1>6

\* The run of KeepList, line by line.
KeepNext(cfg, l, L) ==
    [p \in Once(L) \X (1..Len(l.list)) |-> Keep(cfg, l, p[1], l.list[p[2]])]
KeepRun(p, cfg, l, L, out) == Runs(p, Len(l.list), Once(L), out, KeepNext(cfg, l, L))

\* One list: the trackers found before, and what the list adds.
LEMMA KeepListAdds ==
  ASSUME NEW cfg, NEW l, NEW L, l.list \in Seq(L), NEW out \in Once(L)
  PROVE  /\ KeepList(cfg, out, l) \in Once(L)
         /\ ToSet(KeepList(cfg, out, l)) = ToSet(out) \cup ListAdds(cfg, l, L)
         /\ \E p : KeepRun(p, cfg, l, L, out) /\ KeepList(cfg, out, l) = p[Len(l.list)]
<1> DEFINE s == l.list
           n == Len(s)
           A == Once(L)
           next == [p \in A \X (1..n) |-> Keep(cfg, l, p[1], s[p[2]])]
           B == [k \in 1..n |-> Adds(cfg, l, s[k], L)]
<1>1. n \in Nat /\ DOMAIN s = 1..n /\ \A k \in 1..n : s[k] \in L
  OBVIOUS
<1>2. out \in A
  OBVIOUS
<1>3. ListAdds(cfg, l, L) = UNION {B[k] : k \in 1..n}
  BY <1>1 DEF ListAdds
<1>4. KeepList(cfg, out, l) = FoldLeft(LAMBDA o, raw : Keep(cfg, l, o, raw), out, s)
  BY DEF KeepList
<1> HIDE DEF s, n
<1>5. ASSUME NEW a \in A, NEW k \in 1..n
      PROVE  /\ Keep(cfg, l, a, s[k]) \in A
             /\ ToSet(Keep(cfg, l, a, s[k])) = ToSet(a) \cup B[k]
  <2>1. B[k] = Adds(cfg, l, s[k], L) /\ s[k] \in L
    BY <1>1
  <2> HIDE DEF B
  <2> QED
    BY <2>1, KeepStep
<1> HIDE DEF A, B
<1>6. next \in [A \X (1..n) -> A]
  BY <1>5
<1>7. \A a \in A, k \in 1..n : next[<<a, k>>] = Keep(cfg, l, a, s[k])
  OBVIOUS
<1> HIDE DEF next
<1>8. Collects(A, n, next, B)
  BY <1>5, <1>7 DEF Collects
<1>9. Foldable(1..n, A, out, Top(n), next) /\ ByPrefix(n, A, out, next)
  BY <1>1, <1>2, <1>6, PrefixFold
<1>10. PICK g : /\ Folded(g, 1..n, A, out, Top(n), next)
                /\ \E p : Runs(p, n, A, out, next) /\ g[1..n] = p[n]
  BY <1>9 DEF ByPrefix
<1>11. PICK p : Runs(p, n, A, out, next) /\ g[1..n] = p[n]
  BY <1>10
<1>12. Collected(p[n], out, B, n)
  BY <1>1, <1>2, <1>8, <1>11, CollectRun
<1> DEFINE Step(h) == [t \in SUBSET (1..n) |->
                         IF t = {} THEN out
                         ELSE Keep(cfg, l, h[t \ {Max(t)}], s[Max(t)])]
           h == CHOOSE h : h = Step(h)
           w == [t \in SUBSET (1..n) |-> g[t]]
<1>13. KeepList(cfg, out, l) = h[1..n]
  BY <1>1, <1>4 DEF FoldLeft, MapThenFoldSet
<1>14. \A t \in SUBSET (1..n) : t # {} => Top(n)[t] = Max(t) /\ Max(t) \in t
  BY <1>9 DEF Foldable, Top
<1>15. w = Step(w)
  <2>1. ASSUME NEW t \in SUBSET (1..n)
        PROVE  g[t] = IF t = {} THEN out ELSE Keep(cfg, l, w[t \ {Max(t)}], s[Max(t)])
    <3>1. CASE t = {}
      BY <1>10, <3>1 DEF Folded
    <3>2. CASE t # {}
      <4> DEFINE r == t \ {Max(t)}
      <4>1. Top(n)[t] = Max(t) /\ Max(t) \in 1..n /\ r \in SUBSET (1..n)
        BY <1>14, <3>2
      <4>2. g[t] = next[<<g[r], Max(t)>>] /\ g[r] \in A
        BY <1>10, <4>1, <3>2 DEF Folded
      <4> QED
        BY <1>7, <4>1, <4>2, <3>2
    <3> QED
      BY <3>1, <3>2
  <2> QED
    BY <2>1
<1>16. h = Step(h)
  <2> HIDE DEF w, Step
  <2> QED
    BY <1>15
<1> HIDE DEF h
<1>17. Follows(h, 1..n, A, out, Top(n), next)
  <2>1. h[{}] = out
    BY <1>16
  <2>2. ASSUME NEW t \in SUBSET (1..n), t # {}, h[t \ {Top(n)[t]}] \in A
        PROVE  h[t] = next[<<h[t \ {Top(n)[t]}], Top(n)[t]>>]
    <3>1. h[t] = Keep(cfg, l, h[t \ {Max(t)}], s[Max(t)])
      BY <1>16, <2>2
    <3>2. Top(n)[t] = Max(t) /\ Max(t) \in 1..n
      BY <1>14, <2>2
    <3> QED
      BY <1>7, <2>2, <3>1, <3>2
  <2> QED
    BY <2>1, <2>2 DEF Follows
<1> HIDE DEF Step, w
<1>18. h[1..n] = g[1..n] /\ g[1..n] \in A
  <2>1. h[1..n] = g[1..n]
    BY <1>9, <1>10, <1>17, FoldAgrees
  <2> QED
    BY <1>10, <2>1 DEF Folded
<1>19. KeepRun(p, cfg, l, L, out) /\ KeepList(cfg, out, l) = p[Len(l.list)]
  <2>1. next = KeepNext(cfg, l, L) /\ n = Len(l.list)
    BY DEF KeepNext, next, n, A, s
  <2> QED
    BY <2>1, <1>11, <1>13, <1>18 DEF A, KeepRun
<1> QED
  BY <1>3, <1>11, <1>12, <1>13, <1>18, <1>19 DEF A, Collected

\* x holds what the lists add, without the static trackers.
Sourced(x, cfg, lists, L) ==
    ToSet(x) = UNION {ListAdds(cfg, lists[k], L) : k \in 1..Len(lists)}

\* All lists, the static trackers last: every admitted tracker once.
LEMMA AllKeptAdds ==
  ASSUME NEW cfg, NEW T, NEW L, cfg.add \in Seq(L),
         NEW lists \in ListsOf(T, L)
  PROVE  /\ AllKept(cfg, lists) \in Once(L)
         /\ ToSet(AllKept(cfg, lists)) = AllAdd(cfg, lists, L)
         /\ \E x \in Once(L) :
               /\ AllKept(cfg, lists) = KeepList(cfg, x, Statics(cfg))
               /\ Sourced(x, cfg, lists, L)
<1> DEFINE s == Chained(cfg, lists)
           n == Len(s)
           A == Once(L)
           next == [p \in A \X (1..n) |-> KeepList(cfg, p[1], s[p[2]])]
           B == [k \in 1..n |-> ListAdds(cfg, s[k], L)]
<1>0. PICK out : out = <<>>
  OBVIOUS
<1>1. /\ n \in Nat /\ DOMAIN s = 1..n /\ \A k \in 1..n : s[k].list \in Seq(L)
      /\ Len(lists) \in Nat /\ n = Len(lists) + 1 /\ s[n] = Statics(cfg)
      /\ \A k \in 1..Len(lists) : s[k] = lists[k]
  <2> DEFINE R == [schemes : T, list : Seq(L)]
             m == Len(lists)
  <2>1. Statics(cfg).list \in Seq(L) /\ \A x \in R : x.list \in Seq(L)
    BY DEF Statics
  <2> HIDE DEF R
  <2>2. /\ m \in Nat /\ \A k \in 1..m : lists[k] \in R
        /\ Len(s) = m + 1 /\ DOMAIN s = 1..(m + 1)
        /\ \A k \in 1..m : s[k] = lists[k]
        /\ s[m + 1] = Statics(cfg)
    <3>1. lists \in Seq(R)
      BY DEF R, ListsOf
    <3> QED
      BY <3>1 DEF Chained
  <2> HIDE DEF s, m
  <2>3. \A k \in 1..(m + 1) : k \in 1..m \/ k = m + 1
    BY <2>2
  <2>4. \A k \in 1..(m + 1) : s[k].list \in Seq(L)
    BY <2>1, <2>2, <2>3
  <2>5. n = m + 1
    BY <2>2
  <2> HIDE DEF n
  <2> QED
    BY <2>2, <2>4, <2>5 DEF m, n
<1>2. out \in A
  BY <1>0 DEF Once
<1>3. AllAdd(cfg, lists, L) = UNION {B[k] : k \in 1..n}
  BY <1>1 DEF AllAdd
<1>4. AllKept(cfg, lists) = FoldLeft(LAMBDA o, l : KeepList(cfg, o, l), out, s)
  BY <1>0 DEF AllKept, Chained
<1> HIDE DEF s, n
<1>5. \A a \in A, k \in 1..n : /\ KeepList(cfg, a, s[k]) \in A
                               /\ ToSet(KeepList(cfg, a, s[k])) = ToSet(a) \cup B[k]
  BY <1>1, KeepListAdds
<1> HIDE DEF A, B
<1>6. next \in [A \X (1..n) -> A]
  BY <1>5
<1>7. \A a \in A, k \in 1..n : next[<<a, k>>] = KeepList(cfg, a, s[k])
  OBVIOUS
<1> HIDE DEF next
<1>8. Collects(A, n, next, B)
  BY <1>5, <1>7 DEF Collects
<1>9. Foldable(1..n, A, out, Top(n), next) /\ ByPrefix(n, A, out, next)
  BY <1>1, <1>2, <1>6, PrefixFold
<1>10. PICK g : /\ Folded(g, 1..n, A, out, Top(n), next)
                /\ \E p : Runs(p, n, A, out, next) /\ g[1..n] = p[n]
  BY <1>9 DEF ByPrefix
<1>11. PICK p : Runs(p, n, A, out, next) /\ g[1..n] = p[n]
  BY <1>10
<1>12. \A j \in 0..n : Collected(p[j], out, B, j)
  BY <1>1, <1>2, <1>8, <1>11, CollectRun
<1> DEFINE Step(h) == [t \in SUBSET (1..n) |->
                         IF t = {} THEN out
                         ELSE KeepList(cfg, h[t \ {Max(t)}], s[Max(t)])]
           h == CHOOSE h : h = Step(h)
           w == [t \in SUBSET (1..n) |-> g[t]]
<1>13. AllKept(cfg, lists) = h[1..n]
  BY <1>1, <1>4 DEF FoldLeft, MapThenFoldSet
<1>14. \A t \in SUBSET (1..n) : t # {} => Top(n)[t] = Max(t) /\ Max(t) \in t
  BY <1>9 DEF Foldable, Top
<1>15. w = Step(w)
  <2>1. ASSUME NEW t \in SUBSET (1..n)
        PROVE  g[t] = IF t = {} THEN out ELSE KeepList(cfg, w[t \ {Max(t)}], s[Max(t)])
    <3>1. CASE t = {}
      BY <1>10, <3>1 DEF Folded
    <3>2. CASE t # {}
      <4> DEFINE r == t \ {Max(t)}
      <4>1. Top(n)[t] = Max(t) /\ Max(t) \in 1..n /\ r \in SUBSET (1..n)
        BY <1>14, <3>2
      <4>2. g[t] = next[<<g[r], Max(t)>>] /\ g[r] \in A
        BY <1>10, <4>1, <3>2 DEF Folded
      <4> QED
        BY <1>7, <4>1, <4>2, <3>2
    <3> QED
      BY <3>1, <3>2
  <2> QED
    BY <2>1
<1>16. h = Step(h)
  <2> HIDE DEF w, Step
  <2> QED
    BY <1>15
<1> HIDE DEF h
<1>17. Follows(h, 1..n, A, out, Top(n), next)
  <2>1. h[{}] = out
    BY <1>16
  <2>2. ASSUME NEW t \in SUBSET (1..n), t # {}, h[t \ {Top(n)[t]}] \in A
        PROVE  h[t] = next[<<h[t \ {Top(n)[t]}], Top(n)[t]>>]
    <3>1. h[t] = KeepList(cfg, h[t \ {Max(t)}], s[Max(t)])
      BY <1>16, <2>2
    <3>2. Top(n)[t] = Max(t) /\ Max(t) \in 1..n
      BY <1>14, <2>2
    <3> QED
      BY <1>7, <2>2, <3>1, <3>2
  <2> QED
    BY <2>1, <2>2 DEF Follows
<1> HIDE DEF Step, w
<1>18. h[1..n] = g[1..n] /\ g[1..n] \in A
  <2>1. h[1..n] = g[1..n]
    BY <1>9, <1>10, <1>17, FoldAgrees
  <2> QED
    BY <1>10, <2>1 DEF Folded
<1>19. ToSet(out) = {}
  BY <1>0 DEF ToSet
<1>20. AllKept(cfg, lists) \in Once(L) /\ ToSet(AllKept(cfg, lists)) = AllAdd(cfg, lists, L)
  <2>1. Collected(p[n], out, B, n)
    BY <1>1, <1>12
  <2> QED
    BY <1>3, <1>11, <1>13, <1>18, <1>19, <2>1 DEF A, Collected
<1> DEFINE m == Len(lists)
           x == p[m]
<1>21. m \in 0..n /\ n \in 1..n /\ n - 1 = m /\ \A k \in 1..m : k \in 1..n
  BY <1>1
<1>22. x \in A /\ p[n] = KeepList(cfg, x, Statics(cfg))
  <2>1. x \in A
    BY <1>11, <1>21 DEF Runs
  <2>2. p[n] = next[<<p[n - 1], n>>]
    BY <1>11, <1>21 DEF Runs
  <2>3. next[<<x, n>>] = KeepList(cfg, x, s[n])
    BY <1>7, <1>21, <2>1
  <2> QED
    BY <1>1, <1>21, <2>1, <2>2, <2>3
<1>23. Sourced(x, cfg, lists, L)
  <2>1. Collected(x, out, B, m)
    BY <1>12, <1>21
  <2>2. \A k \in 1..m : B[k] = ListAdds(cfg, lists[k], L)
    BY <1>1, <1>21 DEF B
  <2> HIDE DEF x, m
  <2>3. UNION {B[k] : k \in 1..m} = UNION {ListAdds(cfg, lists[k], L) : k \in 1..m}
    BY <2>2
  <2> QED
    BY <1>19, <2>1, <2>3 DEF Collected, Sourced, m
<1> HIDE DEF x
<1> QED
  BY <1>11, <1>13, <1>18, <1>20, <1>22, <1>23 DEF A

\* A sequence without repetition is no longer than one that has all its elements.
LEMMA OnceShorter ==
  ASSUME NEW L, NEW a \in Once(L), NEW b \in Once(L), ToSet(b) \subseteq ToSet(a)
  PROVE  Len(b) <= Len(a)
<1> DEFINE n == Len(a)
           m == Len(b)
           C == ToSet(a)
<1>1. /\ n \in Nat /\ DOMAIN a = 1..n /\ m \in Nat /\ DOMAIN b = 1..m
      /\ a = [i \in 1..n |-> a[i]] /\ b = [i \in 1..m |-> b[i]]
      /\ \A i, j \in 1..m : b[i] = b[j] => i = j
  BY DEF Once
<1> HIDE DEF n, m
<1>2. a \in [1..n -> C] /\ \A t \in C : \E i \in 1..n : a[i] = t
  BY <1>1 DEF ToSet
<1>3. b \in [1..m -> C]
  BY <1>1 DEF ToSet
<1> HIDE DEF C
<1>4. IsFiniteSet(1..n) /\ Cardinality(1..n) = n /\ IsFiniteSet(1..m) /\ Cardinality(1..m) = m
  BY <1>1, FS_Interval
<1>5. a \in Surjection(1..n, C)
  BY <1>2 DEF Surjection
<1>6. b \in Injection(1..m, C)
  BY <1>1, <1>3 DEF Injection, IsInjective
<1>7. IsFiniteSet(C) /\ Cardinality(C) <= n
  BY <1>4, <1>5, FS_Surjection
<1>8. m <= Cardinality(C)
  BY <1>4, <1>6, <1>7, FS_Injection
<1>9. Cardinality(C) \in Nat
  BY <1>7, FS_CardinalityType
<1> QED
  BY <1>1, <1>7, <1>8, <1>9 DEF n, m

\* a holds what b holds, and what is in a and not in x is in b no later.
Leads(b, a, x) ==
    /\ ToSet(b) \subseteq ToSet(a)
    /\ \A i \in 1..Len(a) :
          a[i] \in ToSet(x) \/ \E j \in 1..Len(b) : j <= i /\ b[j] = a[i]

\* A line keeps that so: what joins a joins b too.
LEMMA KeepLeads ==
  ASSUME NEW cfg, NEW l, NEW L, NEW raw \in L, NEW a \in Once(L), NEW b \in Once(L), NEW x,
         Leads(b, a, x)
  PROVE  Leads(Keep(cfg, l, b, raw), Keep(cfg, l, a, raw), x)
<1> DEFINE t == normalize(raw)
           c == t[1]
<1>1. c \in Canon(L)
  BY DEF Canon
<1>2. a \in Seq(Canon(L)) /\ b \in Seq(Canon(L)) /\ Len(b) <= Len(a)
  BY OnceShorter DEF Once, Leads
<1> HIDE DEF t, c
<1>3. CASE t = <<>> \/ ~Admits(cfg, l, c) \/ Contains(b, c)
  <2>1. Contains(b, c) => Contains(a, c)
    BY <1>1, <1>2, Elements DEF Leads
  <2>2. Keep(cfg, l, a, raw) = a /\ Keep(cfg, l, b, raw) = b
    BY <1>3, <2>1 DEF Keep, t, c
  <2> QED
    BY <2>2
<1>4. CASE t # <<>> /\ Admits(cfg, l, c) /\ ~Contains(b, c)
  <2> DEFINE b2 == Append(b, c)
             a2 == Append(a, c)
             n == Len(a)
             m == Len(b)
  <2>1. Keep(cfg, l, b, raw) = b2
    BY <1>4 DEF Keep, t, c
  <2>2. /\ Len(b2) = m + 1 /\ \A i \in 1..m : b2[i] = b[i]
        /\ b2[m + 1] = c /\ ToSet(b2) = ToSet(b) \cup {c} /\ m \in Nat
        /\ Len(a2) = n + 1 /\ \A i \in 1..n : a2[i] = a[i]
        /\ a2[n + 1] = c /\ ToSet(a2) = ToSet(a) \cup {c} /\ n \in Nat
        /\ Contains(a, c) <=> c \in ToSet(a)
        /\ m <= n
    BY <1>1, <1>2, Elements
  <2>3. /\ ToSet(b) \subseteq ToSet(a)
        /\ \A i \in 1..n : a[i] \in ToSet(x) \/ \E j \in 1..m : j <= i /\ b[j] = a[i]
    BY DEF Leads
  <2> HIDE DEF a2, b2, n, m
  <2>4. \A j \in 1..m : j \in 1..(m + 1)
    BY <2>2
  <2>5. \A i \in 1..n : a[i] \in ToSet(x) \/ \E j \in 1..(m + 1) : j <= i /\ b2[j] = a[i]
    <3> SUFFICES ASSUME NEW i \in 1..n, a[i] \notin ToSet(x)
                 PROVE  \E j \in 1..(m + 1) : j <= i /\ b2[j] = a[i]
      OBVIOUS
    <3>1. PICK j \in 1..m : j <= i /\ b[j] = a[i]
      BY <2>3
    <3>2. j \in 1..(m + 1) /\ b2[j] = a[i]
      BY <2>2, <2>4, <3>1
    <3> QED
      BY <3>1, <3>2
  <2>6. CASE Contains(a, c)
    <3>1. Keep(cfg, l, a, raw) = a
      BY <2>6 DEF Keep, t, c
    <3>2. ToSet(b2) \subseteq ToSet(a)
      BY <2>2, <2>3, <2>6
    <3>3. Leads(b2, a, x)
      BY <2>2, <2>5, <3>2 DEF Leads, n
    <3> QED
      BY <2>1, <3>1, <3>3
  <2>7. CASE ~Contains(a, c)
    <3>1. Keep(cfg, l, a, raw) = a2
      BY <1>4, <2>7 DEF Keep, t, c, a2
    <3>2. ToSet(b2) \subseteq ToSet(a2)
      BY <2>2, <2>3
    <3>3. \A i \in 1..(n + 1) : i \in 1..n \/ i = n + 1
      BY <2>2
    <3>4. m + 1 \in 1..(m + 1) /\ m + 1 <= n + 1 /\ b2[m + 1] = a2[n + 1]
      BY <2>2
    <3>5. ASSUME NEW i \in 1..(n + 1)
          PROVE  a2[i] \in ToSet(x) \/ \E j \in 1..(m + 1) : j <= i /\ b2[j] = a2[i]
      <4>1. CASE i \in 1..n
        BY <2>2, <2>5, <4>1
      <4>2. CASE i = n + 1
        BY <3>4, <4>2
      <4> QED
        BY <3>3, <4>1, <4>2
    <3>6. Leads(b2, a2, x)
      BY <2>2, <3>2, <3>5 DEF Leads
    <3> QED
      BY <2>1, <3>1, <3>6
  <2> QED
    BY <2>6, <2>7
<1> QED
  BY <1>3, <1>4 DEF t, c

\* A list that is kept after x and on its own.
LEMMA KeepListLeads ==
  ASSUME NEW cfg, NEW l, NEW L, l.list \in Seq(L), NEW x \in Once(L), NEW e \in Once(L), e = <<>>
  PROVE  Leads(KeepList(cfg, e, l), KeepList(cfg, x, l), x)
<1> DEFINE s == l.list
           n == Len(s)
<1>1. PICK p : KeepRun(p, cfg, l, L, x) /\ KeepList(cfg, x, l) = p[n]
  BY KeepListAdds
<1>2. PICK q : KeepRun(q, cfg, l, L, e) /\ KeepList(cfg, e, l) = q[n]
  BY KeepListAdds
<1>3. n \in Nat /\ \A k \in 1..n : s[k] \in L
  OBVIOUS
<1>4. /\ p[0] = x /\ \A k \in 0..n : p[k] \in Once(L)
      /\ q[0] = e /\ \A k \in 0..n : q[k] \in Once(L)
  BY <1>1, <1>2 DEF KeepRun, Runs
<1>5. ASSUME NEW k \in 1..n
      PROVE  p[k] = Keep(cfg, l, p[k - 1], s[k]) /\ q[k] = Keep(cfg, l, q[k - 1], s[k])
  <2>1. k - 1 \in 0..n
    BY <1>3
  <2>2. /\ p[k] = KeepNext(cfg, l, L)[<<p[k - 1], k>>]
        /\ q[k] = KeepNext(cfg, l, L)[<<q[k - 1], k>>]
    BY <1>1, <1>2 DEF KeepRun, Runs
  <2>3. p[k - 1] \in Once(L) /\ q[k - 1] \in Once(L)
    BY <1>4, <2>1
  <2> QED
    BY <2>2, <2>3 DEF KeepNext
<1> HIDE DEF s, n
<1> DEFINE N == {j \in 0..n : ~Leads(q[j], p[j], x)}
<1>6. N = {}
  <2>1. SUFFICES ASSUME N # {} PROVE FALSE
    OBVIOUS
  <2>2. N \in SUBSET Nat
    BY <1>3
  <2>3. PICK j \in N : \A m \in N : j <= m
    BY <2>1, <2>2, LeastNat
  <2>4. j \in 0..n /\ ~Leads(q[j], p[j], x)
    OBVIOUS
  <2>5. CASE j = 0
    <3>1. ToSet(e) = {} /\ \A i \in 1..Len(x) : x[i] \in ToSet(x)
      BY DEF ToSet, Once
    <3>2. Leads(e, x, x)
      BY <3>1 DEF Leads
    <3> QED
      BY <1>4, <2>4, <2>5, <3>2
  <2>6. CASE j # 0
    <3>1. j \in 1..n /\ j - 1 \in 0..n /\ ~(j <= j - 1)
      BY <1>3, <2>4, <2>6
    <3>2. Leads(q[j - 1], p[j - 1], x)
      BY <2>3, <3>1
    <3>3. p[j - 1] \in Once(L) /\ q[j - 1] \in Once(L) /\ s[j] \in L
      BY <1>3, <1>4, <3>1
    <3>4. Leads(Keep(cfg, l, q[j - 1], s[j]), Keep(cfg, l, p[j - 1], s[j]), x)
      BY <3>2, <3>3, KeepLeads
    <3> QED
      BY <1>5, <2>4, <3>1, <3>4
  <2> QED
    BY <2>5, <2>6
<1>7. n \in 0..n
  BY <1>3
<1> QED
  BY <1>1, <1>2, <1>6, <1>7 DEF n, s

\* The merged list: no tracker twice, none that is not admitted, at most `max`, and
\* all of them when there are fewer.
LEMMA MergeHolds ==
  ASSUME NEW cfg, NEW T, NEW L, cfg.add \in Seq(L), cfg.max \in Nat,
         NEW lists \in ListsOf(T, L)
  PROVE  /\ merge(cfg, lists) \in Once(L)
         /\ Len(merge(cfg, lists)) <= cfg.max
         /\ ToSet(merge(cfg, lists)) \subseteq AllAdd(cfg, lists, L)
         /\ Len(merge(cfg, lists)) < cfg.max =>
               ToSet(merge(cfg, lists)) = AllAdd(cfg, lists, L)
<1> DEFINE s == AllKept(cfg, lists)
           n == Len(s)
           m == IF n < cfg.max THEN n ELSE cfg.max
           out == SubSeq(s, 1, m)
<1>1. s \in Once(L) /\ ToSet(s) = AllAdd(cfg, lists, L)
  BY AllKeptAdds
<1>2. merge(cfg, lists) = out
  BY DEF merge, FirstN
<1> HIDE DEF s
<1>3. /\ s \in Seq(Canon(L)) /\ n \in Nat /\ DOMAIN s = 1..n
      /\ \A i, j \in 1..n : s[i] = s[j] => i = j
  BY <1>1 DEF Once
<1> HIDE DEF n
<1>4. m \in 0..n /\ m <= cfg.max /\ (m < cfg.max => m = n)
  BY <1>3
<1> HIDE DEF m
<1>5. /\ out \in Seq(Canon(L)) /\ Len(out) = m /\ DOMAIN out = 1..m
      /\ \A i \in 1..m : out[i] = s[i] /\ i \in 1..n
  <2>1. m \in Nat /\ m <= n /\ \A i \in 1..m : i \in 1..n
    BY <1>3, <1>4
  <2>2. n = Len(s)
    BY DEF n
  <2>3. /\ out \in Seq(Canon(L)) /\ Len(out) = m /\ DOMAIN out = 1..m
        /\ \A i \in 1..m : out[i] = s[i]
    <3> HIDE DEF m, n
    <3> QED
      BY <1>3, <2>1, <2>2
  <2> QED
    BY <2>1, <2>3
<1> HIDE DEF out
<1>6. out \in Once(L)
  BY <1>3, <1>5 DEF Once
<1>7. ToSet(out) \subseteq ToSet(s)
  BY <1>3, <1>5 DEF ToSet
<1>8. m = n => ToSet(out) = ToSet(s)
  BY <1>3, <1>5 DEF ToSet
<1> QED
  BY <1>1, <1>2, <1>4, <1>5, <1>6, <1>7, <1>8

\* The lists with the static ones, and their lines.
LEMMA SourceLines ==
  ASSUME NEW cfg, NEW T, NEW L, cfg.add \in Seq(L), NEW lists \in ListsOf(T, L)
  PROVE  /\ ToSet(Chained(cfg, lists)) = ToSet(lists) \cup {Statics(cfg)}
         /\ \A l \in ToSet(lists) \cup {Statics(cfg)} :
               l.list \in Seq(L) /\ ToSet(l.list) \subseteq L
<1> DEFINE R == [schemes : T, list : Seq(L)]
           C == R \cup {Statics(cfg)}
<1>1. \A l \in C : l.list \in Seq(L)
  BY DEF Statics
<1>2. lists \in Seq(R)
  BY DEF ListsOf
<1>3. R \subseteq C /\ Statics(cfg) \in C
  OBVIOUS
<1> HIDE DEF R, C
<1>4. ToSet(lists) \subseteq C
  BY <1>2, <1>3 DEF ToSet
<1>5. lists \in Seq(C)
  BY <1>2, <1>3
<1>6. ToSet(Chained(cfg, lists)) = ToSet(lists) \cup {Statics(cfg)}
  BY <1>3, <1>5, Elements DEF Chained
<1>7. \A s \in Seq(L) : ToSet(s) \subseteq L
  BY DEF ToSet
<1> QED
  BY <1>1, <1>3, <1>4, <1>6, <1>7

\* What all lists add, list by list and line by line.
LEMMA AddedFrom ==
  ASSUME NEW cfg, NEW T, NEW L, cfg.add \in Seq(L), NEW lists \in ListsOf(T, L), NEW t
  PROVE  t \in AllAdd(cfg, lists, L) <=>
           \E l \in ToSet(lists) \cup {Statics(cfg)} : \E raw \in ToSet(l.list) :
              normalize(raw) = <<t>> /\ Admits(cfg, l, t)
<1> DEFINE s == Chained(cfg, lists)
           S == ToSet(lists) \cup {Statics(cfg)}
<1>1. ToSet(s) = S /\ \A l \in S : ToSet(l.list) \subseteq L
  BY SourceLines
<1> HIDE DEF s, S
<1>2. \A l : l \in S <=> \E k \in DOMAIN s : s[k] = l
  BY <1>1 DEF ToSet
<1>3. t \in AllAdd(cfg, lists, L) <=> \E k \in DOMAIN s : t \in ListAdds(cfg, s[k], L)
  BY DEF AllAdd, s
<1>4. ASSUME NEW l \in S
      PROVE  t \in ListAdds(cfg, l, L) <=>
               \E raw \in ToSet(l.list) : normalize(raw) = <<t>> /\ Admits(cfg, l, t)
  <2>1. \A raw \in L : normalize(raw) = <<t>> => t \in Canon(L)
    BY DEF Canon
  <2>2. \A raw \in ToSet(l.list) :
          t \in Adds(cfg, l, raw, L) <=> normalize(raw) = <<t>> /\ Admits(cfg, l, t)
    BY <1>1, <2>1 DEF Adds
  <2>3. t \in ListAdds(cfg, l, L) <=> \E i \in DOMAIN l.list : t \in Adds(cfg, l, l.list[i], L)
    BY DEF ListAdds
  <2> QED
    BY <2>2, <2>3 DEF ToSet
<1> QED
  BY <1>2, <1>3, <1>4 DEF S

\* The first n elements of a sequence.
LEMMA FirstElements ==
  ASSUME NEW C, NEW s \in Seq(C), NEW n \in Nat, NEW t
  PROVE  t \in ToSet(FirstN(s, n)) <=> \E i \in 1..Len(s) : i <= n /\ s[i] = t
<1> DEFINE k == Len(s)
           m == IF k < n THEN k ELSE n
           out == SubSeq(s, 1, m)
<1>1. k \in Nat /\ DOMAIN s = 1..k
  OBVIOUS
<1>2. m \in 0..k /\ \A i \in 1..k : i <= n <=> i \in 1..m
  BY <1>1
<1>3. \A i \in 1..m : i \in 1..k
  BY <1>1, <1>2
<1>4. FirstN(s, n) = out
  BY DEF FirstN
<1> HIDE DEF m
<1>5. DOMAIN out = 1..m /\ \A i \in 1..m : out[i] = s[i]
  BY <1>1, <1>2
<1> HIDE DEF out, k
<1>6. t \in ToSet(out) <=> \E i \in 1..m : s[i] = t
  BY <1>5 DEF ToSet
<1> QED
  BY <1>2, <1>3, <1>4, <1>6 DEF k

\* A tracker of the merged list is one that a list has, or one that is there when
\* there are no lists: the cap never lets in a static tracker that it kept out before.
LEMMA ListedOrStatic ==
  ASSUME NEW cfg, NEW T, NEW L, cfg.add \in Seq(L), cfg.max \in Nat,
         NEW lists \in ListsOf(T, L), NEW t \in ToSet(merge(cfg, lists))
  PROVE  \/ t \in ToSet(merge(cfg, <<>>))
         \/ \E l \in ToSet(lists) : \E raw \in ToSet(l.list) : normalize(raw) = <<t>>
<1>1. PICK none \in ListsOf(T, L) : none = <<>>
  <2> DEFINE R == [schemes : T, list : Seq(L)]
  <2>1. ListsOf(T, L) = Seq(R)
    BY DEF ListsOf
  <2> HIDE DEF R
  <2>2. PICK e : e = <<>>
    OBVIOUS
  <2>3. e \in Seq(R)
    BY <2>2
  <2> QED
    BY <2>1, <2>2, <2>3
<1> DEFINE a == AllKept(cfg, lists)
           b == AllKept(cfg, none)
           S == Statics(cfg)
<1>2. PICK x \in Once(L) : a = KeepList(cfg, x, S) /\ Sourced(x, cfg, lists, L)
  BY AllKeptAdds
<1>3. PICK e \in Once(L) : b = KeepList(cfg, e, S) /\ Sourced(e, cfg, none, L)
  BY AllKeptAdds
<1>4. e = <<>>
  <2>1. Len(none) = 0
    BY <1>1
  <2>2. 1..0 = {}
    OBVIOUS
  <2>3. ToSet(e) = {}
    BY <1>3, <2>1, <2>2 DEF Sourced
  <2>4. e \in Seq(Canon(L)) /\ \A i \in 1..Len(e) : e[i] \in ToSet(e)
    BY DEF Once, ToSet
  <2>5. Len(e) = 0
    BY <2>3, <2>4
  <2> QED
    BY <2>4, <2>5
<1>5. S.list \in Seq(L)
  BY DEF Statics
<1>6. a \in Once(L) /\ b \in Once(L)
  BY AllKeptAdds
<1>7. merge(cfg, lists) = FirstN(a, cfg.max) /\ merge(cfg, <<>>) = FirstN(b, cfg.max)
  BY <1>1 DEF merge
<1> HIDE DEF a, b, S
<1>8. Leads(b, a, x)
  BY <1>2, <1>3, <1>4, <1>5, KeepListLeads
<1>9. a \in Seq(Canon(L)) /\ b \in Seq(Canon(L))
  BY <1>6 DEF Once
<1>10. PICK i \in 1..Len(a) : i <= cfg.max /\ a[i] = t
  BY <1>7, <1>9, FirstElements
<1>11. CASE t \in ToSet(x)
  <2>1. lists \in Seq([schemes : T, list : Seq(L)]) /\ DOMAIN lists = 1..Len(lists)
    BY DEF ListsOf
  <2>2. PICK k \in 1..Len(lists) : t \in ListAdds(cfg, lists[k], L)
    BY <1>2, <1>11 DEF Sourced
  <2>3. PICK r \in DOMAIN lists[k].list : t \in Adds(cfg, lists[k], lists[k].list[r], L)
    BY <2>2 DEF ListAdds
  <2>4. normalize(lists[k].list[r]) = <<t>>
    BY <2>3 DEF Adds
  <2>5. lists[k] \in ToSet(lists) /\ lists[k].list[r] \in ToSet(lists[k].list)
    BY <2>1, <2>2, <2>3 DEF ToSet
  <2> QED
    BY <2>4, <2>5
<1>12. CASE t \notin ToSet(x)
  <2>1. PICK j \in 1..Len(b) : j <= i /\ b[j] = t
    BY <1>8, <1>10, <1>12 DEF Leads
  <2>2. j <= cfg.max
    BY <1>9, <1>10, <2>1
  <2>3. t \in ToSet(FirstN(b, cfg.max))
    BY <1>9, <2>1, <2>2, FirstElements
  <2> QED
    BY <1>7, <2>3
<1> QED
  BY <1>11, <1>12

\* A merged list is empty only if the static trackers alone make an empty one.
LEMMA EmptyMerge ==
  ASSUME NEW cfg, NEW T, NEW L, cfg.add \in Seq(L), cfg.max \in Nat,
         NEW lists \in ListsOf(T, L), merge(cfg, lists) = <<>>
  PROVE  merge(cfg, <<>>) = <<>>
<1>1. PICK none \in ListsOf(T, L) : none = <<>>
  <2> DEFINE R == [schemes : T, list : Seq(L)]
  <2>1. ListsOf(T, L) = Seq(R)
    BY DEF ListsOf
  <2> HIDE DEF R
  <2>2. PICK e : e = <<>>
    OBVIOUS
  <2>3. e \in Seq(R)
    BY <2>2
  <2> QED
    BY <2>1, <2>2, <2>3
<1> DEFINE a == merge(cfg, lists)
           b == merge(cfg, none)
<1>2. /\ b \in Once(L) /\ Len(b) <= cfg.max /\ ToSet(b) \subseteq AllAdd(cfg, none, L)
      /\ Len(a) < cfg.max => ToSet(a) = AllAdd(cfg, lists, L)
  BY MergeHolds
<1>3. AllAdd(cfg, none, L) \subseteq AllAdd(cfg, lists, L)
  <2>1. SUFFICES ASSUME NEW t \in AllAdd(cfg, none, L) PROVE t \in AllAdd(cfg, lists, L)
    OBVIOUS
  <2>2. ToSet(none) = {}
    BY <1>1 DEF ToSet
  <2>3. PICK l \in ToSet(none) \cup {Statics(cfg)} : \E raw \in ToSet(l.list) :
           normalize(raw) = <<t>> /\ Admits(cfg, l, t)
    BY AddedFrom
  <2>4. l \in ToSet(lists) \cup {Statics(cfg)}
    BY <2>2, <2>3
  <2> QED
    BY <2>3, <2>4, AddedFrom
<1>4. Len(a) = 0 /\ ToSet(a) = {}
  BY DEF ToSet
<1> HIDE DEF a, b
<1>5. b \in Seq(Canon(L)) /\ \A i \in 1..Len(b) : b[i] \in ToSet(b)
  BY <1>2 DEF Once, ToSet
<1>6. Len(b) = 0
  BY <1>2, <1>3, <1>4, <1>5
<1> QED
  BY <1>1, <1>5, <1>6 DEF b
=============================================================================
